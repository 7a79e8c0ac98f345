------------------------------ MODULE Lifecycle ------------------------------
(***************************************************************************)
(* Construction, registration and destruction of ringio::BufferPool        *)
(* (include/ringio/detail/buffer_pool.hpp) and ringio::SqpollEngine        *)
(* (include/ringio/sqpoll_engine.hpp).  Threads build and destroy objects  *)
(* of their own side by side; they share the heap, the locked pages and,   *)
(* through attach_to, the kernel's polling threads.  Each library or       *)
(* system call of a constructor or destructor is a step and may fail where *)
(* the code provides for it; the allocator and the kernel are external.    *)
(*                                                                         *)
(* The callers keep two rules: "`attach_to`, when non-null, must outlive   *)
(* this engine", and an object is destroyed only when none of its requests *)
(* is in flight.                                                           *)
(***************************************************************************)
EXTENDS Integers, FiniteSets

CONSTANTS
  Pools, Engines,   \* names for the objects
  None,             \* neither
  Counts, Sizes,    \* values of buffer_count and buffer_size
  PageSize,         \* sysconf(_SC_PAGESIZE), in units of memory
  HeapPages,        \* pages the allocator has to give
  SizeMod,          \* 2^64 in the code: the width of std::size_t
  MaxInFlight       \* bound on the transfers in flight

ASSUME LifecycleAssumption ==
  /\ {PageSize, HeapPages, SizeMod, MaxInFlight} \subseteq Nat \ {0}
  /\ SizeMod % PageSize = 0
  /\ Counts \union Sizes \subseteq 0 .. SizeMod - 1
  /\ None \notin Pools \union Engines

VARIABLES
  ppc,       \* ppc[p]: the next step of p's constructor or destructor
  args,      \* args[p]: buffer_count_ and buffer_size_
  base_,     \* base_[p]: the address of its memory, or None
  heap,      \* the allocated blocks
  locked,    \* the locked pages
  leaked,    \* history variable: blocks that nothing points to any more
  epc,       \* epc[e]: "none" or "live"
  attach,    \* attach[e]: its attach_to
  poller,    \* poller[e]: the kernel thread that serves it, named after the
             \* engine it was started for
  reg,       \* reg[e]: the pool whose buffers it has registered
  io         \* the transfers in flight

pool == <<ppc, args, base_, heap, locked, leaked>>
engine == <<epc, attach, poller, reg>>
vars == <<pool, engine, io>>

NoArgs == [count |-> 0, size |-> 0]

Init ==
  /\ ppc = [p \in Pools |-> "none"]
  /\ args = [p \in Pools |-> NoArgs]
  /\ base_ = [p \in Pools |-> None]
  /\ heap = {} /\ locked = {} /\ leaked = {}
  /\ epc = [e \in Engines |-> "none"]
  /\ attach = [e \in Engines |-> None]
  /\ poller = [e \in Engines |-> None]
  /\ reg = [e \in Engines |-> None]
  /\ io = {}

Goto(p, label) == ppc' = [ppc EXCEPT ![p] = label]

(* The object is gone, after its destructor or a throwing constructor. *)
Gone(p) ==
  /\ Goto(p, "none")
  /\ args' = [args EXCEPT ![p] = NoArgs]
  /\ base_' = [base_ EXCEPT ![p] = None]

(* buffer_size_ * buffer_count_ in std::size_t, and data(index). *)
Total(p) == (args[p].size * args[p].count) % SizeMod
Data_ByCount(p, index) == base_[p] + index * args[p].count
Data(p, index) == base_[p] + index * args[p].size

Bytes(start, len) == start .. start + len - 1
Pages(start, len) == {a \div PageSize : a \in Bytes(start, len)}
Block(p) == [base |-> base_[p], len |-> Total(p)]

(* What a block takes up: an empty one has an address of its own too. *)
Room(b) == {b.base} \union Bytes(b.base, b.len)

-----------------------------------------------------------------------------
(* BufferPool::BufferPool up to its first call into the system.  Arguments *)
(* it rejects, or a throwing allocation of free_next_, leave nothing behind.*)
Construct(p) ==
  /\ ppc[p] = "none"
  /\ \E c \in Counts, s \in Sizes :
       IF c = 0 \/ s = 0 \/ s % PageSize # 0
       THEN Gone(p)
       ELSE /\ args' = [args EXCEPT ![p] = [count |-> c, size |-> s]]
            /\ Goto(p, "allocate") /\ UNCHANGED base_
  /\ UNCHANGED <<heap, locked, leaked, engine, io>>

(* posix_memalign returns any page-aligned address with room, or fails.     *)
Allocate(p) ==
  /\ ppc[p] = "allocate"
  /\ \/ Gone(p) /\ UNCHANGED heap
     \/ \E n \in 0 .. HeapPages - 1 :
          LET block == [base |-> n * PageSize, len |-> Total(p)] IN
          /\ block.base + block.len <= HeapPages * PageSize
          /\ \A b \in heap : Room(b) \intersect Room(block) = {}
          /\ heap' = heap \union {block}
          /\ base_' = [base_ EXCEPT ![p] = block.base]
          /\ Goto(p, "lock") /\ UNCHANGED args
  /\ UNCHANGED <<locked, leaked, engine, io>>

(* mlock, or else free and throw.                                           *)
Lock_NoFree(p) ==
  /\ ppc[p] = "lock"
  /\ \/ Gone(p) /\ UNCHANGED <<heap, locked>>
     \/ /\ locked' = locked \union Pages(base_[p], Total(p))
        /\ Goto(p, "reserve") /\ UNCHANGED <<args, base_, heap>>
  /\ UNCHANGED <<leaked, engine, io>>
Lock(p) ==
  /\ ppc[p] = "lock"
  /\ \/ heap' = heap \ {Block(p)} /\ Gone(p) /\ UNCHANGED locked
     \/ /\ locked' = locked \union Pages(base_[p], Total(p))
        /\ Goto(p, "reserve") /\ UNCHANGED <<args, base_, heap>>
  /\ UNCHANGED <<leaked, engine, io>>

(* iovecs_.reserve may throw: the destructor does not run, nobody frees the *)
(* memory.  The loop behind it cannot fail.                                 *)
Reserve(p) ==
  /\ ppc[p] = "reserve"
  /\ \/ leaked' = leaked \union {Block(p)} /\ Gone(p)
     \/ Goto(p, "live") /\ UNCHANGED <<args, base_, leaked>>
  /\ UNCHANGED <<heap, locked, engine, io>>

(* BufferPool::~BufferPool: munlock, then free.                             *)
Quiet(p) == \A t \in io : t.pool # p

Destroy_FreeFirst(p) ==
  /\ \/ /\ ppc[p] = "live" /\ Quiet(p)
        /\ heap' = heap \ {Block(p)}
        /\ reg' = [e \in Engines |-> IF reg[e] = p THEN "stale" ELSE reg[e]]
        /\ Goto(p, "free") /\ UNCHANGED <<args, base_, locked>>
     \/ /\ ppc[p] = "free"
        /\ locked' = locked \ Pages(base_[p], Total(p))
        /\ Gone(p) /\ UNCHANGED <<heap, reg>>
  /\ UNCHANGED <<leaked, epc, attach, poller, io>>
Destroy(p) ==
  /\ \/ /\ ppc[p] = "live" /\ Quiet(p)
        /\ locked' = locked \ Pages(base_[p], Total(p))
        /\ reg' = [e \in Engines |-> IF reg[e] = p THEN "stale" ELSE reg[e]]
        /\ Goto(p, "free") /\ UNCHANGED <<args, base_, heap>>
     \/ /\ ppc[p] = "free"
        /\ heap' = heap \ {Block(p)}
        /\ Gone(p) /\ UNCHANGED <<locked, reg>>
  /\ UNCHANGED <<leaked, epc, attach, poller, io>>

-----------------------------------------------------------------------------
(* SqpollEngine::SqpollEngine.  When the kernel refuses the ring it throws  *)
(* and has changed nothing.  An attached engine takes over the poller that  *)
(* serves attach_to, which may itself be attached.                          *)
ConstructEngine_NoFlag(e, attach_to) ==
  /\ epc[e] = "none"
  /\ attach_to = None \/ (attach_to \in Engines /\ epc[attach_to] = "live")
  /\ epc' = [epc EXCEPT ![e] = "live"]
  /\ attach' = [attach EXCEPT ![e] = attach_to]
  /\ poller' = [poller EXCEPT ![e] = e]
  /\ UNCHANGED <<pool, reg, io>>
ConstructEngine(e, attach_to) ==
  /\ epc[e] = "none"
  /\ attach_to = None \/ (attach_to \in Engines /\ epc[attach_to] = "live")
  /\ epc' = [epc EXCEPT ![e] = "live"]
  /\ attach' = [attach EXCEPT ![e] = attach_to]
  /\ poller' = [poller EXCEPT ![e] = IF attach_to = None THEN e ELSE poller[attach_to]]
  /\ UNCHANGED <<pool, reg, io>>

(* register_buffers, which the kernel accepts once per ring.                *)
RegisterBuffers(e, p) ==
  /\ epc[e] = "live" /\ ppc[p] = "live"
  /\ reg[e] = None
  /\ reg' = [reg EXCEPT ![e] = p]
  /\ UNCHANGED <<pool, epc, attach, poller, io>>

(* drain_and_submit gives the kernel data(index) as the address of fixed    *)
(* buffer index; the device is done with it at some later time.             *)
Submit(e, p, index) ==
  /\ epc[e] = "live" /\ ppc[p] = "live"
  /\ reg[e] = p /\ index < args[p].count
  /\ Cardinality(io) < MaxInFlight
  /\ io' = io \union {[engine |-> e, pool |-> p, index |-> index]}
  /\ UNCHANGED <<pool, engine>>

Complete(t) ==
  /\ io' = io \ {t}
  /\ UNCHANGED <<pool, engine>>

(* SqpollEngine::~SqpollEngine. *)
DestroyEngine(e) ==
  /\ epc[e] = "live"
  /\ \A f \in Engines : attach[f] # e
  /\ \A t \in io : t.engine # e
  /\ epc' = [epc EXCEPT ![e] = "none"]
  /\ attach' = [attach EXCEPT ![e] = None]
  /\ poller' = [poller EXCEPT ![e] = None]
  /\ reg' = [reg EXCEPT ![e] = None]
  /\ UNCHANGED <<pool, io>>

-----------------------------------------------------------------------------
Next ==
  \/ \E p \in Pools :
       Construct(p) \/ Allocate(p) \/ Lock(p) \/ Reserve(p) \/ Destroy(p)
  \/ \E e \in Engines :
       \/ \E a \in Engines \union {None} : ConstructEngine(e, a)
       \/ \E p \in Pools : RegisterBuffers(e, p)
       \/ \E p \in Pools : \E i \in 0 .. args[p].count - 1 : Submit(e, p, i)
       \/ DestroyEngine(e)
  \/ \E t \in io : Complete(t)

Spec == Init /\ [][Next]_vars

-----------------------------------------------------------------------------
(* The product of count and size is what it should be: the arguments the    *)
(* constructor gets from its caller and does not check.                     *)
Fits(p) == args[p].size * args[p].count < SizeMod

(* "locked into RAM (`mlock`) so the kernel never swaps one out from under  *)
(* an in-flight DMA transfer": whatever other pools are built, fail or are  *)
(* destroyed meanwhile, possibly on memory a moment ago this one's or next  *)
(* to it, a transfer only touches memory that is allocated and locked.      *)
TransfersIntoLockedMemory ==
  \A t \in io : Fits(t.pool) =>
    LET start == Data(t.pool, t.index)
        len == args[t.pool].size
    IN  /\ Pages(start, len) \subseteq locked
        /\ \E b \in heap : Bytes(start, len) \subseteq Bytes(b.base, b.len)

(* No two buffers overlap, of one pool or of two, and each one starts on a  *)
(* page boundary: "page-aligned, page-locked buffers".                      *)
BuffersDisjoint ==
  \A p, q \in {r \in Pools : ppc[r] = "live" /\ Fits(r)} :
    \A i \in 0 .. args[p].count - 1, j \in 0 .. args[q].count - 1 :
      /\ Data(p, i) % PageSize = 0
      /\ <<p, i>> # <<q, j>> =>
           Bytes(Data(p, i), args[p].size) \intersect Bytes(Data(q, j), args[q].size) = {}

(* Whatever step of a constructor fails, what stays allocated or locked     *)
(* belongs to a pool that is being built, in use or being destroyed.  Only  *)
(* the memory of a constructor that threw from iovecs_.reserve (line 149)   *)
(* is lost, and it stays locked.                                            *)
OnlyReserveLeaks ==
  LET Owned(labels) == {Block(p) : p \in {q \in Pools : ppc[q] \in labels}}
      PagesOf(blocks) == UNION {Pages(b.base, b.len) : b \in blocks}
  IN  /\ heap = Owned({"lock", "reserve", "live", "free"}) \union leaked
      /\ locked = PagesOf(Owned({"reserve", "live"}) \union leaked)

(* "N engines sharing one poller cost 1 + N cores instead of 2*N": there is *)
(* one polling thread for every engine without attach_to, and an attached   *)
(* engine, over any chain of attachments, is served by a thread whose own   *)
(* engine still exists.                                                     *)
OnePollerPerFamily ==
  LET live == {e \in Engines : epc[e] = "live"}
  IN  {poller[e] : e \in live} = {e \in live : attach[e] = None}
=============================================================================
