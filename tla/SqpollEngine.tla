---------------------------- MODULE SqpollEngine ----------------------------
(***************************************************************************)
(* ringio::SqpollEngine (include/ringio/sqpoll_engine.hpp) at work between *)
(* the rings and pool it is used with:                                     *)
(*                                                                         *)
(*   clients --queue--> drain_and_submit --SQ--> kernel poller --> device  *)
(*   clients <--out_queue-- harvest_completions <--CQ--------------/       *)
(*                                                                         *)
(* The request and completion rings are the atomic queues SpscRing.tla and *)
(* MpmcRing.tla implement, the pool is the set of free buffers             *)
(* BufferPool.tla keeps.  One thread runs the engine's two functions; the  *)
(* clients, the poller and the device act between any two of its steps.    *)
(* The poller, the device and liburing are external: they are modelled     *)
(* from how the engine uses them.  A request's token is its buffer, as the *)
(* one outstanding request of a buffer is identified by it.                *)
(***************************************************************************)
EXTENDS Integers, Sequences, FiniteSets, Functions

CONSTANTS
  Pools,           \* the pools: each a set of buffer indices
  QueueCapacity,   \* the capacity of the request ring
  MaxBatch,        \* max_batch of both functions
  Entries,         \* values of the constructor argument `entries`
  OutCapacities,   \* capacities of the completion ring
  WakeMayFail      \* whether the system call of io_uring_submit may fail

(* The indices of all the pools. *)
Buffers == UNION Pools

ASSUME EngineAssumption ==
  /\ IsFiniteSet(Buffers)
  /\ {QueueCapacity, MaxBatch} \union Entries \union OutCapacities
       \subseteq Nat \ {0}
  /\ WakeMayFail \subseteq BOOLEAN

(* What the pool, the engine and the completion ring are constructed with. *)
Setups ==
  [pool : Pools, entries : Entries,
   out_capacity : OutCapacities, wake_may_fail : WakeMayFail]

IoOp == {"kRead", "kWrite"}
Requests == [op : IoOp, buffer_index : Buffers]

(* External: what io_uring_prep_read_fixed and io_uring_prep_write_fixed    *)
(* put into an entry of the submission queue.                               *)
Sqes == [opcode : {"READ_FIXED", "WRITE_FIXED"}, buffer_index : Buffers]

VARIABLES
  setup,       \* the Setup of this behaviour
  free,        \* the pool's free buffers
  held,        \* buffers with a client, no request outstanding
  asked,       \* asked[b]: what the outstanding request of buffer b asks for
  queue,       \* the request ring
  epc,         \* what the engine thread does next
  req,         \* drain_and_submit: the popped request, in a sequence
  submitted,   \* drain_and_submit: the count
  walked,      \* harvest_completions: the count
  sqes,        \* entries filled in and not yet shown to the kernel
  sq,          \* entries shown to the kernel and not yet consumed
  poller,      \* the kernel thread: "polling", "flagged" or "asleep"
  inflight,    \* the entries the device works on
  cq,          \* tokens completed and not yet advanced past
  out_queue,   \* the completion ring
  lost,        \* history variable: requests popped and never submitted
  dropped      \* history variable: tokens completed and never delivered

engine == <<epc, req, submitted, walked, sqes>>
clients == <<free, held, asked>>
history == <<lost, dropped>>
vars == <<setup, clients, queue, engine, sq, poller, inflight, cq, out_queue,
          history>>

(* The kernel sizes the completion queue at twice the submission queue. *)
CqEntries == 2 * setup.entries

Init ==
  /\ setup \in Setups
  /\ free = setup.pool
  /\ held = {}
  /\ asked = [b \in Buffers |-> "none"]
  /\ queue = <<>>
  /\ epc = "idle" /\ req = <<>> /\ submitted = 0 /\ walked = 0 /\ sqes = <<>>
  /\ sq = <<>>
  /\ poller = "polling"
  /\ inflight = {}
  /\ cq = <<>>
  /\ out_queue = <<>>
  /\ lost = {}
  /\ dropped = {}

-----------------------------------------------------------------------------
(* The clients: take a buffer, push a request for it, and after its         *)
(* completion use it again or give it back.                                 *)
Acquire(b) ==
  /\ b \in free
  /\ free' = free \ {b}
  /\ held' = held \union {b}
  /\ UNCHANGED <<setup, asked, queue, engine, sq, poller, inflight, cq,
                 out_queue, history>>

PushRequest(b, o) ==
  /\ b \in held
  /\ Len(queue) < QueueCapacity
  /\ queue' = Append(queue, [op |-> o, buffer_index |-> b])
  /\ asked' = [asked EXCEPT ![b] = o]
  /\ held' = held \ {b}
  /\ UNCHANGED <<setup, free, engine, sq, poller, inflight, cq, out_queue,
                 history>>

PopCompletion ==
  /\ out_queue # <<>>
  /\ out_queue' = Tail(out_queue)
  /\ held' = held \union {Head(out_queue)}
  /\ asked' = [asked EXCEPT ![Head(out_queue)] = "none"]
  /\ UNCHANGED <<setup, free, queue, engine, sq, poller, inflight, cq,
                 history>>

Release(b) ==
  /\ b \in held
  /\ held' = held \ {b}
  /\ free' = free \union {b}
  /\ UNCHANGED <<setup, asked, queue, engine, sq, poller, inflight, cq,
                 out_queue, history>>

-----------------------------------------------------------------------------
(* drain_and_submit.  After its loop it submits if it has filled any entry. *)
AfterLoop(count) == IF count > 0 THEN "flush" ELSE "idle"

StartDrain ==
  /\ epc = "idle"
  /\ epc' = "drain"
  /\ UNCHANGED <<setup, clients, queue, req, submitted, walked, sqes, sq,
                 poller, inflight, cq, out_queue, history>>

(* The loop condition: it stops at max_batch before it pops. *)
DrainPop_NoBatch ==
  /\ epc = "drain"
  /\ IF queue # <<>>
     THEN /\ req' = <<Head(queue)>>
          /\ queue' = Tail(queue)
          /\ epc' = "get_sqe"
     ELSE /\ epc' = AfterLoop(submitted)
          /\ UNCHANGED <<req, queue>>
  /\ UNCHANGED <<setup, clients, submitted, walked, sqes, sq, poller,
                 inflight, cq, out_queue, history>>
DrainPop_Peek ==
  /\ epc = "drain"
  /\ IF submitted < MaxBatch /\ queue # <<>>
     THEN req' = <<Head(queue)>> /\ epc' = "get_sqe"
     ELSE epc' = AfterLoop(submitted) /\ UNCHANGED req
  /\ UNCHANGED <<setup, clients, queue, submitted, walked, sqes, sq, poller,
                 inflight, cq, out_queue, history>>
DrainPop ==
  /\ epc = "drain"
  /\ IF submitted < MaxBatch /\ queue # <<>>
     THEN /\ req' = <<Head(queue)>>
          /\ queue' = Tail(queue)
          /\ epc' = "get_sqe"
     ELSE /\ epc' = AfterLoop(submitted)
          /\ UNCHANGED <<req, queue>>
  /\ UNCHANGED <<setup, clients, submitted, walked, sqes, sq, poller,
                 inflight, cq, out_queue, history>>

(* io_uring_get_sqe fails when entries are filled or unconsumed up to the   *)
(* size of the queue: the loop ends, and the popped request goes nowhere.   *)
DrainFull_OffByOne ==
  /\ epc = "get_sqe"
  /\ Len(sqes) + Len(sq) >= setup.entries - 1
  /\ lost' = lost \union {req[1].buffer_index}
  /\ req' = <<>>
  /\ epc' = AfterLoop(submitted)
  /\ UNCHANGED <<setup, clients, queue, submitted, walked, sqes, sq, poller,
                 inflight, cq, out_queue, dropped>>
DrainFull ==
  /\ epc = "get_sqe"
  /\ Len(sqes) + Len(sq) >= setup.entries
  /\ lost' = lost \union {req[1].buffer_index}
  /\ req' = <<>>
  /\ epc' = AfterLoop(submitted)
  /\ UNCHANGED <<setup, clients, queue, submitted, walked, sqes, sq, poller,
                 inflight, cq, out_queue, dropped>>

(* The branch on req.op that fills in the entry.                            *)
Prep_Swapped(r) ==
  [opcode |-> IF r.op = "kRead" THEN "WRITE_FIXED" ELSE "READ_FIXED",
   buffer_index |-> r.buffer_index]
Prep(r) ==
  [opcode |-> IF r.op = "kRead" THEN "READ_FIXED" ELSE "WRITE_FIXED",
   buffer_index |-> r.buffer_index]

DrainPrep ==
  /\ epc = "get_sqe"
  /\ Len(sqes) + Len(sq) < setup.entries
  /\ sqes' = Append(sqes, Prep(req[1]))
  /\ submitted' = submitted + 1
  /\ req' = <<>>
  /\ epc' = "drain"
  /\ UNCHANGED <<setup, clients, queue, walked, sq, poller, inflight, cq,
                 out_queue, history>>

(* io_uring_submit: show the entries to the kernel, ... *)
SubmitFlush ==
  /\ epc = "flush"
  /\ sq' = sq \o sqes
  /\ sqes' = <<>>
  /\ epc' = "wake"
  /\ UNCHANGED <<setup, clients, queue, req, submitted, walked, poller,
                 inflight, cq, out_queue, history>>

(* ... then wake the poller if it has raised IORING_SQ_NEED_WAKEUP.  The    *)
(* engine ignores what io_uring_submit returns.                             *)
SubmitWake_None ==
  /\ epc = "wake"
  /\ submitted' = 0
  /\ epc' = "idle"
  /\ UNCHANGED <<setup, clients, queue, req, walked, sqes, sq, poller,
                 inflight, cq, out_queue, history>>
SubmitWake ==
  /\ epc = "wake"
  /\ \/ poller = "polling" /\ UNCHANGED poller
     \/ poller # "polling" /\ poller' = "polling"
     \/ poller # "polling" /\ setup.wake_may_fail /\ UNCHANGED poller
  /\ submitted' = 0
  /\ epc' = "idle"
  /\ UNCHANGED <<setup, clients, queue, req, walked, sqes, sq, inflight, cq,
                 out_queue, history>>

-----------------------------------------------------------------------------
(* harvest_completions: walk the completion queue, then advance once.       *)
StartHarvest ==
  /\ epc = "idle"
  /\ epc' = "harvest"
  /\ UNCHANGED <<setup, clients, queue, req, submitted, walked, sqes, sq,
                 poller, inflight, cq, out_queue, history>>

(* A completion that out_queue has no room for is walked past. *)
HarvestWalk_OffByOne ==
  /\ epc = "harvest"
  /\ walked < MaxBatch /\ walked < Len(cq)
  /\ walked' = walked + 1
  /\ IF Len(out_queue) < setup.out_capacity - 1
     THEN out_queue' = Append(out_queue, cq[walked + 1]) /\ UNCHANGED dropped
     ELSE dropped' = dropped \union {cq[walked + 1]} /\ UNCHANGED out_queue
  /\ UNCHANGED <<setup, clients, queue, epc, req, submitted, sqes, sq, poller,
                 inflight, cq, lost>>
HarvestWalk ==
  /\ epc = "harvest"
  /\ walked < MaxBatch /\ walked < Len(cq)
  /\ walked' = walked + 1
  /\ IF Len(out_queue) < setup.out_capacity
     THEN out_queue' = Append(out_queue, cq[walked + 1]) /\ UNCHANGED dropped
     ELSE dropped' = dropped \union {cq[walked + 1]} /\ UNCHANGED out_queue
  /\ UNCHANGED <<setup, clients, queue, epc, req, submitted, sqes, sq, poller,
                 inflight, cq, lost>>

HarvestAdvance_One ==
  /\ epc = "harvest"
  /\ walked = MaxBatch \/ walked = Len(cq)
  /\ cq' = IF walked > 0 THEN Tail(cq) ELSE cq
  /\ walked' = 0
  /\ epc' = "idle"
  /\ UNCHANGED <<setup, clients, queue, req, submitted, sqes, sq, poller,
                 inflight, out_queue, history>>
HarvestAdvance ==
  /\ epc = "harvest"
  /\ walked = MaxBatch \/ walked = Len(cq)
  /\ cq' = SubSeq(cq, walked + 1, Len(cq))
  /\ walked' = 0
  /\ epc' = "idle"
  /\ UNCHANGED <<setup, clients, queue, req, submitted, sqes, sq, poller,
                 inflight, out_queue, history>>

-----------------------------------------------------------------------------
(* External: the kernel's polling thread.  It takes entries in order; after *)
(* sq_thread_idle_ms without one it raises the wake-up flag, looks once     *)
(* more, and sleeps.                                                        *)
PollerConsume ==
  /\ poller = "polling"
  /\ sq # <<>>
  /\ inflight' = inflight \union {Head(sq)}
  /\ sq' = Tail(sq)
  /\ UNCHANGED <<setup, clients, queue, engine, poller, cq, out_queue,
                 history>>

PollerIdle ==
  /\ poller = "polling"
  /\ sq = <<>>
  /\ poller' = "flagged"
  /\ UNCHANGED <<setup, clients, queue, engine, sq, inflight, cq, out_queue,
                 history>>

PollerRecheck ==
  /\ poller = "flagged"
  /\ poller' = IF sq = <<>> THEN "asleep" ELSE "polling"
  /\ UNCHANGED <<setup, clients, queue, engine, sq, inflight, cq, out_queue,
                 history>>

(* External: the device completes what is in flight in any order. *)
Complete(e) ==
  /\ e \in inflight
  /\ inflight' = inflight \ {e}
  /\ cq' = Append(cq, e.buffer_index)
  /\ UNCHANGED <<setup, clients, queue, engine, sq, poller, out_queue,
                 history>>

-----------------------------------------------------------------------------
ClientStep ==
  \/ \E b \in Buffers : Acquire(b)
  \/ \E b \in Buffers, o \in IoOp : PushRequest(b, o)
  \/ PopCompletion
  \/ \E b \in Buffers : Release(b)

EngineStep ==
  \/ DrainPop
  \/ DrainFull
  \/ DrainPrep
  \/ SubmitFlush
  \/ SubmitWake
  \/ HarvestWalk
  \/ HarvestAdvance

KernelStep ==
  \/ PollerConsume
  \/ PollerIdle
  \/ PollerRecheck
  \/ \E e \in inflight : Complete(e)

Next ==
  \/ ClientStep
  \/ StartDrain
  \/ StartHarvest
  \/ EngineStep
  \/ KernelStep

Spec == Init /\ [][Next]_vars

(* The engine's thread keeps running and keeps calling both functions, the  *)
(* clients keep popping completions, the kernel's thread keeps running and  *)
(* the device answers every request.  Clients need not submit anything.     *)
LiveSpec ==
  /\ Spec
  /\ WF_vars(EngineStep)
  /\ SF_vars(StartDrain)
  /\ SF_vars(StartHarvest)
  /\ WF_vars(PopCompletion)
  /\ WF_vars(PollerConsume)
  /\ WF_vars(PollerRecheck)
  /\ \A e \in Sqes : WF_vars(Complete(e))

-----------------------------------------------------------------------------
(* Every variable holds a value of its type.                                *)
TypeOK ==
  /\ setup \in Setups
  /\ free \subseteq Buffers
  /\ held \subseteq Buffers
  /\ asked \in [Buffers -> IoOp \union {"none"}]
  /\ queue \in Seq(Requests)
  /\ epc \in {"idle", "drain", "get_sqe", "flush", "wake", "harvest"}
  /\ req \in Seq(Requests)
  /\ submitted \in 0 .. MaxBatch
  /\ walked \in 0 .. MaxBatch
  /\ sqes \in Seq(Sqes)
  /\ sq \in Seq(Sqes)
  /\ poller \in {"polling", "flagged", "asleep"}
  /\ inflight \subseteq Sqes
  /\ cq \in Seq(Buffers)
  /\ out_queue \in Seq(Buffers)
  /\ lost \subseteq Buffers
  /\ dropped \subseteq Buffers

(* The requests and entries that are between the clients and the device,    *)
(* and the tokens that are on the way back.                                 *)
Pending == queue \o req \o sqes \o sq
Answered == SubSeq(cq, walked + 1, Len(cq)) \o out_queue

(* Every buffer is in exactly one place between the pool, the clients and   *)
(* the kernel, those of lost requests and dropped completions included: the *)
(* kernel never transfers into a buffer that is free, that a client holds   *)
(* or that another request names, and no completion is delivered twice.     *)
OnePlace ==
  \A b \in setup.pool :
    LET In(set) == IF b \in set THEN 1 ELSE 0
        Count(seq) == Cardinality({k \in DOMAIN seq : seq[k] = b})
    IN  In(free) + In(held)
          + Cardinality({k \in DOMAIN Pending : Pending[k].buffer_index = b})
          + Cardinality({e \in inflight : e.buffer_index = b})
          + Count(Answered) + In(lost) + In(dropped) = 1

(* The device reads into a buffer exactly if the client's outstanding       *)
(* request for it is a read: however requests and completions overtake each *)
(* other, no entry overwrites data that a client wants written, and none is *)
(* left in the kernel of a request that was answered.                       *)
IoAsRequested ==
  \A e \in Range(sqes \o sq) \union inflight :
    asked[e.buffer_index] = IF e.opcode = "READ_FIXED" THEN "kRead" ELSE "kWrite"

(* No popped request is lost, if the submission queue has room for every    *)
(* buffer: that is what "caller can retry once completions land" needs.     *)
NoRequestLost == Cardinality(setup.pool) <= setup.entries => lost = {}

(* No completion is dropped, if the completion ring has room for every      *)
(* buffer: harvest_completions walks past what does not fit.                *)
NoCompletionDropped == Cardinality(setup.pool) <= setup.out_capacity => dropped = {}

(* The completion queue never overflows, though it is only advanced at the  *)
(* end of a harvest: with no more buffers than it has entries.              *)
CqFits == Cardinality(setup.pool) <= CqEntries => Len(cq) <= CqEntries

(* A wake-up is never missed: while the poller sleeps, anything the kernel  *)
(* has been shown is about to be announced to it.                           *)
SleepIsSafe ==
  (~ setup.wake_may_fail /\ poller = "asleep" /\ sq # <<>>) => epc = "wake"

(* "Stops early if the underlying SQ ring fills up [...] SQ ring is full;   *)
(* caller can retry once completions land": whatever the sizes, a request   *)
(* that was popped is not gone.                                             *)
FullQueueLosesNothing == lost = {}

(* Every request that is pushed is answered: its buffer comes back to a     *)
(* client, if both queues have room for every buffer and wake-ups succeed.  *)
EveryRequestAnswered ==
  \A b \in Buffers :
    ( /\ \E k \in DOMAIN queue : queue[k].buffer_index = b
      /\ Cardinality(setup.pool) <= setup.entries
      /\ Cardinality(setup.pool) <= setup.out_capacity
      /\ ~ setup.wake_may_fail ) ~> (b \in held)
=============================================================================
