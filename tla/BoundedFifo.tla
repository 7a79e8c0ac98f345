----------------------------- MODULE BoundedFifo -----------------------------
(***************************************************************************)
(* What the rings of ringio promise their callers: try_push and try_pop    *)
(* each take effect at one instant on one first-in first-out queue of at   *)
(* most Capacity values, or fail and change nothing.  When a call may fail *)
(* depends on the ring and on what its loads may return (failure_mode):    *)
(*   "exact"    only if the queue is full (empty) at that instant          *)
(*   "overlap"  also while a call of the other kind has taken effect and   *)
(*              not returned yet                                           *)
(*   "any"      at any time                                                *)
(* SpscRing.tla implements the first, MpmcRing.tla the second.             *)
(***************************************************************************)
EXTENDS Integers, Sequences

CONSTANTS
  Threads,      \* the threads that share the ring
  Values,       \* what they push
  None,         \* not a value: the result of a failed try_pop
  Capacity      \* the template argument Capacity

VARIABLES
  failure_mode, \* "exact", "overlap" or "any", throughout a behaviour
  queue,        \* the values in the ring, oldest first
  op,           \* op[t]: the call thread t is in, or has returned from
  val           \* val[t]: the argument of its push, the result of its pop

vars == <<failure_mode, queue, op, val>>

Init ==
  /\ failure_mode \in {"exact", "overlap", "any"}
  /\ queue = <<>>
  /\ op = [t \in Threads |-> "none"]
  /\ val = [t \in Threads |-> None]

CallPush(t, v) ==
  /\ op[t] = "none"
  /\ op' = [op EXCEPT ![t] = "push"]
  /\ val' = [val EXCEPT ![t] = v]
  /\ UNCHANGED queue

(* The value is in the queue; the call may return in the same step. *)
PushEffect(t) ==
  /\ op[t] = "push"
  /\ Len(queue) < Capacity
  /\ queue' = Append(queue, val[t])
  /\ \/ op' = [op EXCEPT ![t] = "pushed"] /\ UNCHANGED val
     \/ op' = [op EXCEPT ![t] = "none"] /\ val' = [val EXCEPT ![t] = None]

PushReturn(t) ==
  /\ op[t] = "pushed"
  /\ op' = [op EXCEPT ![t] = "none"]
  /\ val' = [val EXCEPT ![t] = None]
  /\ UNCHANGED queue

PushFull(t) ==
  /\ op[t] = "push"
  /\ \/ Len(queue) = Capacity
     \/ failure_mode = "overlap" /\ \E u \in Threads : op[u] = "popped"
     \/ failure_mode = "any"
  /\ op' = [op EXCEPT ![t] = "none"]
  /\ val' = [val EXCEPT ![t] = None]
  /\ UNCHANGED queue

CallPop(t) ==
  /\ op[t] = "none"
  /\ op' = [op EXCEPT ![t] = "pop"]
  /\ val' = [val EXCEPT ![t] = None]
  /\ UNCHANGED queue

PopEffect(t) ==
  /\ op[t] = "pop"
  /\ queue # <<>>
  /\ queue' = Tail(queue)
  /\ val' = [val EXCEPT ![t] = Head(queue)]
  /\ \E o \in {"popped", "none"} : op' = [op EXCEPT ![t] = o]

PopReturn(t) ==
  /\ op[t] = "popped"
  /\ op' = [op EXCEPT ![t] = "none"]
  /\ UNCHANGED <<queue, val>>

PopEmpty(t) ==
  /\ op[t] = "pop"
  /\ \/ queue = <<>>
     \/ failure_mode = "overlap" /\ \E u \in Threads : op[u] = "pushed"
     \/ failure_mode = "any"
  /\ op' = [op EXCEPT ![t] = "none"]
  /\ UNCHANGED <<queue, val>>

Next ==
  /\ \E t \in Threads :
       \/ \E v \in Values : CallPush(t, v)
       \/ PushEffect(t)
       \/ PushReturn(t)
       \/ PushFull(t)
       \/ CallPop(t)
       \/ PopEffect(t)
       \/ PopReturn(t)
       \/ PopEmpty(t)
  /\ UNCHANGED failure_mode

Spec == Init /\ [][Next]_vars
=============================================================================
