------------------------------ MODULE SpscRing ------------------------------
(***************************************************************************)
(* ringio::detail::SpscRing (include/ringio/detail/spsc_ring.hpp): a ring  *)
(* shared by one producer and one consumer.  head_ is only stored by the   *)
(* consumer and tail_ only by the producer, so each reads its own cursor   *)
(* exactly; what it loads of the other one may lag behind.                 *)
(*                                                                         *)
(* A load-acquire of the other thread's cursor returns, under the C++      *)
(* memory model, any value stored since the one this thread last saw.      *)
(* It does so here in the behaviours where `stale` holds; in the others it *)
(* returns the current one (sequential consistency).  Slots are plain memory: NoDataRace states    *)
(* that they are never accessed by both threads at once, without which     *)
(* what a read returns would be undefined.                                 *)
(***************************************************************************)
EXTENDS Integers, Sequences

CONSTANTS
  Values,       \* the values pushed
  None,         \* not a value
  Capacity,     \* the template argument
  CounterMod    \* 2^64 in the code: the width of std::size_t

(* Capacity is a power of two, so that it divides 2^64 and `& kMask` is the *)
(* remainder by Capacity.                                                   *)
ASSUME SpscAssumption ==
  /\ Capacity \in Nat \ {0}
  /\ CounterMod \in Nat
  /\ Capacity < CounterMod
  /\ CounterMod % Capacity = 0
  /\ None \notin Values

Counters == 0 .. CounterMod - 1
Slots == 0 .. Capacity - 1

(* std::size_t arithmetic: b - a, a + 1, and a & kMask. *)
Minus(b, a) == (b - a) % CounterMod
Plus1_NoWrap(a) == a + 1
Plus1(a) == (a + 1) % CounterMod
Slot(a) == a % Capacity

VARIABLES
  stale,                   \* whether loads of the other cursor may lag
  head_, tail_, buffer_,   \* the members of SpscRing
  ppc, phead, value,       \* the producer: next access, local head, argument
  cpc, ctail, out          \* the consumer: next access, local tail, result

vars == <<stale, head_, tail_, buffer_, ppc, phead, value, cpc, ctail, out>>
producer == <<ppc, phead, value>>
consumer == <<cpc, ctail, out>>

Init ==
  /\ stale \in BOOLEAN
  /\ head_ = 0
  /\ tail_ = 0
  /\ buffer_ = [s \in Slots |-> None]
  /\ ppc = "idle" /\ phead = 0 /\ value = None
  /\ cpc = "idle" /\ ctail = 0 /\ out = None

(* What a load of a cursor may return: seen is the last value loaded of it. *)
Loads(seen, current) ==
  IF stale
  THEN {c \in Counters : Minus(current, c) <= Minus(current, seen)}
  ELSE {current}

-----------------------------------------------------------------------------
CallPush(v) ==
  /\ ppc = "idle"
  /\ ppc' = "push_load"
  /\ value' = v
  /\ UNCHANGED <<stale, head_, tail_, buffer_, phead, consumer>>

(* Loads both cursors and returns false if the ring looks full. *)
PushLoad_OffByOne ==
  /\ ppc = "push_load"
  /\ phead' \in Loads(phead, head_)
  /\ \/ /\ Minus(tail_, phead') > Capacity
        /\ ppc' = "idle" /\ value' = None
     \/ /\ Minus(tail_, phead') <= Capacity
        /\ ppc' = "push_write" /\ UNCHANGED value
  /\ UNCHANGED <<stale, head_, tail_, buffer_, consumer>>
PushLoad ==
  /\ ppc = "push_load"
  /\ phead' \in Loads(phead, head_)
  /\ \/ /\ Minus(tail_, phead') >= Capacity
        /\ ppc' = "idle" /\ value' = None
     \/ /\ Minus(tail_, phead') < Capacity
        /\ ppc' = "push_write" /\ UNCHANGED value
  /\ UNCHANGED <<stale, head_, tail_, buffer_, consumer>>

PushWrite ==
  /\ ppc = "push_write"
  /\ buffer_' = [buffer_ EXCEPT ![Slot(tail_)] = value]
  /\ ppc' = "push_store"
  /\ UNCHANGED <<stale, head_, tail_, phead, value, consumer>>

PushStore ==
  /\ ppc = "push_store"
  /\ tail_' = Plus1(tail_)
  /\ ppc' = "idle" /\ value' = None
  /\ UNCHANGED <<stale, head_, buffer_, phead, consumer>>

-----------------------------------------------------------------------------
CallPop ==
  /\ cpc = "idle"
  /\ cpc' = "pop_load"
  /\ out' = None
  /\ UNCHANGED <<stale, head_, tail_, buffer_, ctail, producer>>

(* Loads both cursors and returns false if the ring looks empty. *)
PopLoad_OffByOne ==
  /\ cpc = "pop_load"
  /\ ctail' \in Loads(ctail, tail_)
  /\ cpc' = IF Minus(ctail', head_) <= 1 THEN "idle" ELSE "pop_read"
  /\ UNCHANGED <<stale, head_, tail_, buffer_, out, producer>>
PopLoad ==
  /\ cpc = "pop_load"
  /\ ctail' \in Loads(ctail, tail_)
  /\ cpc' = IF head_ = ctail' THEN "idle" ELSE "pop_read"
  /\ UNCHANGED <<stale, head_, tail_, buffer_, out, producer>>

(* A mutant: the slot is handed back before its value is read. *)
PopRead_NextSlot ==
  /\ cpc = "pop_read"
  /\ out' = buffer_[Slot(Plus1(head_))]
  /\ cpc' = "pop_store"
  /\ UNCHANGED <<stale, head_, tail_, buffer_, ctail, producer>>
PopRead ==
  /\ cpc = "pop_read"
  /\ out' = buffer_[Slot(head_)]
  /\ cpc' = "pop_store"
  /\ UNCHANGED <<stale, head_, tail_, buffer_, ctail, producer>>

PopStore ==
  /\ cpc = "pop_store"
  /\ head_' = Plus1(head_)
  /\ cpc' = "idle"
  /\ UNCHANGED <<stale, tail_, buffer_, ctail, out, producer>>

-----------------------------------------------------------------------------
Next ==
  \/ \E v \in Values : CallPush(v)
  \/ PushLoad
  \/ PushWrite
  \/ PushStore
  \/ CallPop
  \/ PopLoad
  \/ PopRead
  \/ PopStore

Spec == Init /\ [][Next]_vars

(* The consumer's thread keeps running and keeps calling try_pop, and a     *)
(* store becomes visible to it after finitely many loads (the standard's    *)
(* forward-progress guarantee for atomics).  The producer may stop anywhere.*)
LiveSpec ==
  /\ Spec
  /\ WF_vars(CallPop \/ PopLoad \/ PopRead \/ PopStore)
  /\ SF_vars(PopLoad /\ ctail' = tail_)

-----------------------------------------------------------------------------
(* Every variable holds a value of the type the code gives it.              *)
TypeOK ==
  /\ stale \in BOOLEAN
  /\ head_ \in Counters
  /\ tail_ \in Counters
  /\ buffer_ \in [Slots -> Values \union {None}]
  /\ ppc \in {"idle", "push_load", "push_write", "push_store"}
  /\ phead \in Counters
  /\ value \in Values \union {None}
  /\ cpc \in {"idle", "pop_load", "pop_read", "pop_store"}
  /\ ctail \in Counters
  /\ out \in Values \union {None}

(* The cursors the two threads work with never pass each other, across the  *)
(* wraparound of the counters too: what the producer has seen of head_ is   *)
(* not ahead of it nor a whole ring behind tail_ when it writes, what the   *)
(* consumer has seen of tail_ is not ahead of it nor behind head_.          *)
CursorsInOrder ==
  /\ Minus(tail_, head_) <= Capacity
  /\ Minus(head_, phead) <= Minus(tail_, phead)
  /\ Minus(tail_, phead) <= Capacity
  /\ Minus(ctail, head_) <= Minus(tail_, head_)
  /\ ppc \in {"push_write", "push_store"} => Minus(tail_, phead) < Capacity
  /\ cpc \in {"pop_read", "pop_store"} => head_ # ctail

(* The producer never writes the slot the consumer is reading: the plain    *)
(* accesses to buffer_ (lines 40 and 52) are free of data races even when   *)
(* each thread works with a stale copy of the other's cursor.               *)
NoDataRace ==
  ~ (ppc = "push_write" /\ cpc = "pop_read" /\ Slot(tail_) = Slot(head_))

(* A consumer that keeps polling takes every value out, wherever the        *)
(* producer is stalled inside its next try_push.                            *)
Delivered ==
  \A c \in Counters : (head_ = c /\ tail_ # c) ~> (head_ # c)

(* The values in the ring, oldest first. *)
Contents ==
  [k \in 1 .. Minus(tail_, head_) |-> buffer_[Slot(head_ + k - 1)]]

(* The ring implements the bounded queue: what is pushed is popped once and *)
(* in order, a push takes effect when it stores tail_ and a pop when it     *)
(* stores head_.  Without stale loads a call fails only if the ring is full *)
(* (empty) when it loads the other cursor; with them it may fail early.     *)
Fifo == INSTANCE BoundedFifo WITH
  Threads <- {"producer", "consumer"},
  failure_mode <- IF stale THEN "any" ELSE "exact",
  queue <- Contents,
  op <- [producer |-> IF ppc = "idle" THEN "none" ELSE "push",
         consumer |-> IF cpc = "idle" THEN "none" ELSE "pop"],
  val <- [producer |-> value,
          consumer |-> IF cpc = "idle" THEN out ELSE None]

ImplementsBoundedFifo == Fifo!Spec
=============================================================================
