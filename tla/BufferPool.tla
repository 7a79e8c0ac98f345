----------------------------- MODULE BufferPool -----------------------------
(***************************************************************************)
(* The lock-free free list of ringio::BufferPool                           *)
(* (include/ringio/detail/buffer_pool.hpp): a Treiber stack of buffer      *)
(* indices whose head packs a 32-bit tag with a 32-bit index.  Threads     *)
(* interleave at every access to shared memory; what a thread keeps in     *)
(* local variables between two accesses may be stale when it is used.      *)
(*                                                                         *)
(* The atomics are modelled as sequentially consistent.  That loses no     *)
(* behaviour that matters here: free_head_ is only changed by acq_rel      *)
(* read-modify-writes, so a thread that loads a head with acquire sees the *)
(* free_next_ entry written before that head was published or a later one, *)
(* which is what reading it in any later step of the interleaving gives.   *)
(***************************************************************************)
EXTENDS Integers, Sequences

CONSTANTS
  Threads,         \* the threads that share the pool
  BufferCount,     \* buffer_count_
  IndexMod,        \* 2^32 in the code: the width of a packed index
  TagMod,          \* 2^32 in the code: the width of a packed tag
  WeakCasMayFail   \* TRUE: compare_exchange_weak may fail spuriously

ASSUME PoolAssumption ==
  /\ IndexMod \in Nat
  /\ BufferCount \in 1 .. IndexMod - 1
  /\ TagMod \in Nat \ {0}
  /\ WeakCasMayFail \in BOOLEAN

Indices == 0 .. BufferCount - 1

kInvalidIndex == IndexMod - 1

(* An index as a std::uint32_t can hold it here: a buffer or kInvalidIndex. *)
Links == Indices \union {kInvalidIndex}

Pack(index, tag) == tag * IndexMod + index
UnpackIndex(packed) == packed % IndexMod
UnpackTag(packed) == packed \div IndexMod

(* UnpackTag(head) + 1, in std::uint32_t arithmetic. *)
NextTag_NoTag(packed) == UnpackTag(packed)
NextTag_NoWrap(packed) == UnpackTag(packed) + 1
NextTag(packed) == (UnpackTag(packed) + 1) % TagMod

VARIABLES
  free_head,   \* free_head_: the packed tag and index of the top
  free_next,   \* free_next_[i]: the index below i
  pc,          \* pc[t]: the next shared access of thread t
  head,        \* head[t]: the local `head` of acquire and release
  next,        \* next[t]: the local `next` of acquire
  index,       \* index[t]: the argument of release
  issued,      \* issued[i]: how many callers hold buffer i (the callers' state)
  stack,       \* history variable: the free indices, top last
  age          \* history variable: head changes since thread t loaded head[t]

vars == <<free_head, free_next, pc, head, next, index, issued, stack, age>>

(* Where a thread stands inside acquire, holding a loaded head; inside      *)
(* release; and inside release after its free_next_ entry is written.       *)
AcquireWindow == {"acq_next", "acq_cas"}
InAcquire == {"acq_load"} \union AcquireWindow
InRelease == {"rel_load", "rel_store", "rel_cas"}

-----------------------------------------------------------------------------
(* The constructor threads the free list: each entry links to the index     *)
(* below it, and the head is the last index with tag 0.                     *)
Init ==
  /\ free_next = [i \in Indices |-> IF i = 0 THEN kInvalidIndex ELSE i - 1]
  /\ free_head = Pack(BufferCount - 1, 0)
  /\ pc = [t \in Threads |-> "idle"]
  /\ head = [t \in Threads |-> 0]
  /\ next = [t \in Threads |-> 0]
  /\ index = [t \in Threads |-> 0]
  /\ issued = [i \in Indices |-> 0]
  /\ stack = [k \in 1 .. BufferCount |-> k - 1]
  /\ age = [t \in Threads |-> 0]

-----------------------------------------------------------------------------
(* The bound of the model: while t changes the head, no other thread is     *)
(* stalled inside acquire, between its load of the head and its             *)
(* compare-and-swap, for TagMod head changes (2^32 in the code), which is   *)
(* when the tag would repeat.  It says nothing of t, however old t's head.  *)
TagWindow(t) ==
  \A u \in Threads \ {t} : pc[u] \in AcquireWindow => age[u] + 1 < TagMod

(* A successful compare-and-swap by t stores h and counts as a head change  *)
(* for every thread whose acquire holds an older head; t itself returns.    *)
PublishHead(t, h) ==
  /\ TagWindow(t)
  /\ free_head' = h
  /\ age' = [u \in Threads |-> IF u # t /\ pc[u] \in AcquireWindow
                               THEN age[u] + 1 ELSE 0]

(* A returning thread's locals are dead. *)
Return(t) ==
  /\ pc' = [pc EXCEPT ![t] = "idle"]
  /\ head' = [head EXCEPT ![t] = 0]
  /\ next' = [next EXCEPT ![t] = 0]

(* The top of acquire's loop, entered with the current value of free_head_: *)
(* an invalid index ends the call, any other is looked up.                  *)
AcquireLoop(t) ==
  /\ age' = [age EXCEPT ![t] = 0]
  /\ \/ /\ UnpackIndex(free_head) = kInvalidIndex
        /\ Return(t)
     \/ /\ UnpackIndex(free_head) # kInvalidIndex
        /\ pc' = [pc EXCEPT ![t] = "acq_next"]
        /\ head' = [head EXCEPT ![t] = free_head]
        /\ next' = [next EXCEPT ![t] = 0]
  /\ UNCHANGED <<free_head, free_next, index, issued, stack>>

CallAcquire(t) ==
  /\ pc[t] = "idle"
  /\ pc' = [pc EXCEPT ![t] = "acq_load"]
  /\ UNCHANGED <<free_head, free_next, head, next, index, issued, stack, age>>

AcquireLoad(t) ==
  /\ pc[t] = "acq_load"
  /\ AcquireLoop(t)

AcquireNext(t) ==
  /\ pc[t] = "acq_next"
  /\ next' = [next EXCEPT ![t] = free_next[UnpackIndex(head[t])]]
  /\ pc' = [pc EXCEPT ![t] = "acq_cas"]
  /\ UNCHANGED <<free_head, free_next, head, index, issued, stack, age>>

(* The compare-and-swap succeeds: the caller gets the index it read. *)
AcquireCas(t) ==
  /\ pc[t] = "acq_cas"
  /\ free_head = head[t]
  /\ PublishHead(t, Pack(next[t], NextTag(head[t])))
  /\ issued' = [issued EXCEPT ![UnpackIndex(head[t])] = @ + 1]
  /\ stack' = SubSeq(stack, 1, Len(stack) - 1)
  /\ Return(t)
  /\ UNCHANGED <<free_next, index>>

(* It fails, spuriously or because the head moved, and loads the head.      *)
AcquireRetry_StaleHead(t) ==
  /\ pc[t] = "acq_cas"
  /\ free_head # head[t] \/ WeakCasMayFail
  /\ pc' = [pc EXCEPT ![t] = "acq_next"]
  /\ next' = [next EXCEPT ![t] = 0]
  /\ UNCHANGED <<free_head, free_next, head, index, issued, stack, age>>
AcquireRetry(t) ==
  /\ pc[t] = "acq_cas"
  /\ free_head # head[t] \/ WeakCasMayFail
  /\ AcquireLoop(t)

-----------------------------------------------------------------------------
(* The caller's side of release's contract: the index is checked out, and   *)
(* no longer the caller's once the call begins.                             *)
CallRelease(t, i) ==
  /\ pc[t] = "idle"
  /\ issued[i] > 0
  /\ issued' = [issued EXCEPT ![i] = @ - 1]
  /\ index' = [index EXCEPT ![t] = i]
  /\ pc' = [pc EXCEPT ![t] = "rel_load"]
  /\ UNCHANGED <<free_head, free_next, head, next, stack, age>>

ReleaseLoad(t) ==
  /\ pc[t] = "rel_load"
  /\ head' = [head EXCEPT ![t] = free_head]
  /\ pc' = [pc EXCEPT ![t] = "rel_store"]
  /\ UNCHANGED <<free_head, free_next, next, index, issued, stack, age>>

ReleaseStore(t) ==
  /\ pc[t] = "rel_store"
  /\ free_next' = [free_next EXCEPT ![index[t]] = UnpackIndex(head[t])]
  /\ pc' = [pc EXCEPT ![t] = "rel_cas"]
  /\ UNCHANGED <<free_head, head, next, index, issued, stack, age>>

ReleaseCas(t) ==
  /\ pc[t] = "rel_cas"
  /\ free_head = head[t]
  /\ PublishHead(t, Pack(index[t], NextTag(head[t])))
  /\ stack' = Append(stack, index[t])
  /\ index' = [index EXCEPT ![t] = 0]
  /\ Return(t)
  /\ UNCHANGED <<free_next, issued>>

(* The failed compare-and-swap loads the head; the loop stores again. *)
ReleaseRetry_NoStore(t) ==
  /\ pc[t] = "rel_cas"
  /\ free_head # head[t] \/ WeakCasMayFail
  /\ head' = [head EXCEPT ![t] = free_head]
  /\ UNCHANGED <<free_head, free_next, pc, next, index, issued, stack, age>>
ReleaseRetry(t) ==
  /\ pc[t] = "rel_cas"
  /\ free_head # head[t] \/ WeakCasMayFail
  /\ head' = [head EXCEPT ![t] = free_head]
  /\ pc' = [pc EXCEPT ![t] = "rel_store"]
  /\ UNCHANGED <<free_head, free_next, next, index, issued, stack, age>>

-----------------------------------------------------------------------------
Next ==
  \E t \in Threads :
    \/ CallAcquire(t)
    \/ AcquireLoad(t)
    \/ AcquireNext(t)
    \/ AcquireCas(t)
    \/ AcquireRetry(t)
    \/ \E i \in Indices : CallRelease(t, i)
    \/ ReleaseLoad(t)
    \/ ReleaseStore(t)
    \/ ReleaseCas(t)
    \/ ReleaseRetry(t)

Spec == Init /\ [][Next]_vars

(* The scheduler runs some thread as long as one can run; it owes nothing   *)
(* to any particular thread.                                                *)
LiveSpec == Spec /\ WF_vars(Next)

-----------------------------------------------------------------------------
Heads == {Pack(i, g) : i \in Links, g \in 0 .. TagMod - 1}

(* Every variable holds a value the code's types allow.                     *)
TypeOK ==
  /\ free_head \in Heads
  /\ free_next \in [Indices -> Links]
  /\ pc \in [Threads -> {"idle"} \union InAcquire \union InRelease]
  /\ head \in [Threads -> Heads]
  /\ next \in [Threads -> Links]
  /\ index \in [Threads -> Indices]
  /\ issued \in [Indices -> Nat]
  /\ stack \in Seq(Indices)
  /\ age \in [Threads -> 0 .. TagMod - 1]

(* Thread t is inside release(i), which has not taken effect yet. *)
Returning(t, i) == pc[t] \in InRelease /\ index[t] = i

(* No buffer is handed to two callers at once, and none is handed out while *)
(* its release is still in progress: the ABA hazard the tag is there for    *)
(* (tests/detail/buffer_pool_test.cpp, ConcurrentAcquireRelease...).        *)
NeverDoubleIssued ==
  \A i \in Indices :
    /\ issued[i] <= 1
    /\ issued[i] = 1 => \A t \in Threads : ~ Returning(t, i)

(* acquire returns kInvalidIndex only if every buffer is checked out or on  *)
(* its way back: no interleaving of acquire and release loses a buffer.     *)
InvalidOnlyWhenExhausted ==
  [][\A t \in Threads :
       (pc[t] \in InAcquire /\ pc'[t] = "idle" /\ UNCHANGED issued) =>
         \A i \in Indices :
           issued[i] = 1 \/ \E u \in Threads : Returning(u, i)]_vars

(* The chain the code can follow from free_head_ through free_next_ is the  *)
(* stack of free buffers: releases and acquires that overlap never cut the  *)
(* chain, close it into a cycle or leave a checked-out buffer on it.        *)
ChainIsStack ==
  /\ UnpackIndex(free_head) =
       IF stack = <<>> THEN kInvalidIndex ELSE stack[Len(stack)]
  /\ \A k \in 1 .. Len(stack) :
       free_next[stack[k]] = IF k = 1 THEN kInvalidIndex ELSE stack[k - 1]

(* Every buffer is in exactly one place: on the stack, with one caller, or   *)
(* in one release that has not taken effect.  None is ever lost.            *)
OnePlace ==
  /\ \A j, k \in 1 .. Len(stack) : stack[j] = stack[k] => j = k
  /\ \A k \in 1 .. Len(stack) :
       issued[stack[k]] = 0 /\ \A t \in Threads : ~ Returning(t, stack[k])
  /\ \A i \in Indices : \A t, u \in Threads :
       Returning(t, i) /\ Returning(u, i) => t = u
  /\ \A i \in Indices :
       \/ issued[i] = 1
       \/ \E t \in Threads : Returning(t, i)
       \/ \E k \in 1 .. Len(stack) : stack[k] = i

(* What a thread's locals are worth: the tag of the head counts the changes *)
(* since acquire loaded it, an unchanged head still has the link acquire    *)
(* read, and release has linked its buffer to the head it will replace.     *)
LocalsAgree ==
  \A t \in Threads :
    /\ pc[t] \in AcquireWindow =>
         /\ UnpackIndex(head[t]) \in Indices
         /\ UnpackTag(free_head) = (UnpackTag(head[t]) + age[t]) % TagMod
         /\ age[t] = 0 => head[t] = free_head
    /\ (pc[t] = "acq_cas" /\ age[t] = 0) =>
         next[t] = free_next[UnpackIndex(head[t])]
    /\ pc[t] = "rel_cas" => free_next[index[t]] = UnpackIndex(head[t])

(* The inductive invariant behind the theorems of BufferPoolProofs.tla.     *)
IInv ==
  /\ TypeOK
  /\ NeverDoubleIssued
  /\ ChainIsStack
  /\ OnePlace
  /\ LocalsAgree

(* Lock-freedom: whatever the scheduler does, as long as it runs threads,   *)
(* calls keep returning; a compare-and-swap only fails because another one  *)
(* succeeded.                                                               *)
LockFree ==
  []<><<\E t \in Threads : pc[t] # "idle" /\ pc'[t] = "idle">>_vars

(* The pool implements the atomic stack of FreeStack.tla: a call takes      *)
(* effect at its successful compare-and-swap, a failed acquire at the load  *)
(* that found the list empty.                                               *)
OpOf(p) ==
  IF p \in InAcquire THEN "acquire" ELSE IF p \in InRelease THEN "release" ELSE "none"

AbstractOp == [t \in Threads |-> OpOf(pc[t])]

Abstract == INSTANCE FreeStack WITH op <- AbstractOp, arg <- index

ImplementsFreeStack == Abstract!Spec
=============================================================================
