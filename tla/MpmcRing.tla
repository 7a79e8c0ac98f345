------------------------------ MODULE MpmcRing ------------------------------
(***************************************************************************)
(* ringio::detail::MpmcRing (include/ringio/detail/mpmc_ring.hpp): a ring  *)
(* shared by any number of producers and consumers.  A thread claims a     *)
(* position with a compare-and-swap on enqueue_pos_ or dequeue_pos_, then  *)
(* accesses the slot, then hands it on by storing its sequence number.     *)
(* Threads interleave at every access to shared memory.                    *)
(*                                                                         *)
(* The atomics are sequentially consistent here.  Slot values are plain    *)
(* memory: NoDataRace states that no two threads access one at once.       *)
(***************************************************************************)
EXTENDS Integers, Sequences, FiniteSets

CONSTANTS
  Producers,        \* the threads that call try_push
  Consumers,        \* the threads that call try_pop (any may do both)
  Values,           \* the values pushed
  None,             \* not a value
  Capacity,         \* the template argument
  PosMod,           \* 2^64 in the code: the width of std::size_t
  WeakCasMayFail,   \* TRUE: compare_exchange_weak may fail spuriously
  SignedWraps       \* TRUE: signed overflow wraps; FALSE: any outcome

(* Capacity is a power of two, so that it divides 2^64 and `& kMask` is the *)
(* remainder by Capacity.                                                   *)
ASSUME MpmcAssumption ==
  /\ Capacity \in Nat \ {0}
  /\ PosMod \in Nat /\ PosMod % 2 = 0 /\ PosMod % Capacity = 0
  /\ PosMod >= 4 * Capacity
  /\ {WeakCasMayFail, SignedWraps} \subseteq BOOLEAN
  /\ None \notin Values

Threads == Producers \union Consumers
Positions == 0 .. PosMod - 1
Slots == 0 .. Capacity - 1

(* std::size_t arithmetic, and pos & kMask. *)
Plus_NoWrap(pos, n) == pos + n
Plus(pos, n) == (pos + n) % PosMod
Minus(b, a) == (b - a) % PosMod
Slot(pos) == pos % Capacity

(* static_cast<std::intptr_t>(x), and the signed difference the code tests. *)
(* A difference out of range is undefined behaviour: a build that subtracts *)
(* and tests the sign wraps, one that compares the operands does not.       *)
Signed(x) == IF x < PosMod \div 2 THEN x ELSE x - PosMod
Diffs(seq, pos) ==
  LET d == Signed(seq) - Signed(pos)
  IN  IF SignedWraps THEN {Signed(Minus(seq, pos))}
      ELSE IF d \in - (PosMod \div 2) .. (PosMod \div 2) - 1 THEN {d}
      ELSE {d, Signed(Minus(seq, pos))}

VARIABLES
  enqueue_pos_, dequeue_pos_,   \* the cursors
  sequence,                     \* slots_[s].sequence
  slot_value,                   \* slots_[s].value
  pc,                           \* pc[t]: the next shared access of thread t
  pos,                          \* pos[t]: its local `pos`
  val,                          \* val[t]: its `value` argument or `out`
  queue                         \* history variable: values claimed by pushes
                                \* and not yet by pops, in claim order

vars == <<enqueue_pos_, dequeue_pos_, sequence, slot_value, pc, pos, val, queue>>

(* Where a push (a pop) holds a loaded cursor, and where it owns its slot.  *)
PushWindow == {"push_seq", "push_cas"}
PopWindow == {"pop_seq", "pop_cas"}
PushOwns == {"push_write", "push_store"}
PopOwns == {"pop_read", "pop_store"}

Init ==
  /\ enqueue_pos_ = 0
  /\ dequeue_pos_ = 0
  /\ sequence = [s \in Slots |-> s]
  /\ slot_value = [s \in Slots |-> None]
  /\ pc = [t \in Threads |-> "idle"]
  /\ pos = [t \in Threads |-> 0]
  /\ val = [t \in Threads |-> None]
  /\ queue = <<>>

(* The bound of the model: while t advances a cursor, no other thread is    *)
(* stalled with a copy of it that is older than half the range of the       *)
(* counter less a lap (2^63 operations in the code); beyond that the signed *)
(* difference changes sign.  It says nothing of t, however old t's copy.    *)
StaleBound == PosMod \div 2 - Capacity
PushInWindow(t) ==
  \A u \in Threads \ {t} : pc[u] \in PushWindow =>
    Minus(enqueue_pos_, pos[u]) < StaleBound
PopInWindow(t) ==
  \A u \in Threads \ {t} : pc[u] \in PopWindow =>
    Minus(dequeue_pos_, pos[u]) < StaleBound

Goto(t, label) == pc' = [pc EXCEPT ![t] = label]

(* A returning thread's `pos` is dead. *)
Return(t) == Goto(t, "idle") /\ pos' = [pos EXCEPT ![t] = 0]

-----------------------------------------------------------------------------
CallPush(t, v) ==
  /\ pc[t] = "idle"
  /\ Goto(t, "push_pos")
  /\ val' = [val EXCEPT ![t] = v]
  /\ UNCHANGED <<enqueue_pos_, dequeue_pos_, sequence, slot_value, pos, queue>>

(* The load of enqueue_pos_, before the loop and when another push was      *)
(* faster.                                                                  *)
PushPos(t) ==
  /\ pc[t] = "push_pos"
  /\ pos' = [pos EXCEPT ![t] = enqueue_pos_]
  /\ Goto(t, "push_seq")
  /\ UNCHANGED <<enqueue_pos_, dequeue_pos_, sequence, slot_value, val, queue>>

(* The load of the slot's sequence number and the three-way test on it. *)
PushSeq_NoReload(t) ==
  /\ pc[t] = "push_seq"
  /\ \E diff \in Diffs(sequence[Slot(pos[t])], pos[t]) :
       \/ diff = 0 /\ Goto(t, "push_cas") /\ UNCHANGED <<pos, val>>
       \/ diff < 0 /\ Return(t) /\ val' = [val EXCEPT ![t] = None]
       \/ diff > 0 /\ UNCHANGED <<pc, pos, val>>
  /\ UNCHANGED <<enqueue_pos_, dequeue_pos_, sequence, slot_value, queue>>
PushSeq(t) ==
  /\ pc[t] = "push_seq"
  /\ \E diff \in Diffs(sequence[Slot(pos[t])], pos[t]) :
       \/ diff = 0 /\ Goto(t, "push_cas") /\ UNCHANGED <<pos, val>>
       \/ diff < 0 /\ Return(t) /\ val' = [val EXCEPT ![t] = None]
       \/ diff > 0 /\ Goto(t, "push_pos") /\ UNCHANGED <<pos, val>>
  /\ UNCHANGED <<enqueue_pos_, dequeue_pos_, sequence, slot_value, queue>>

PushClaim_NoCas(t) ==
  /\ pc[t] = "push_cas"
  /\ PushInWindow(t)
  /\ enqueue_pos_' = Plus(pos[t], 1)
  /\ queue' = Append(queue, val[t])
  /\ Goto(t, "push_write")
  /\ UNCHANGED <<dequeue_pos_, sequence, slot_value, pos, val>>
PushClaim(t) ==
  /\ pc[t] = "push_cas"
  /\ enqueue_pos_ = pos[t]
  /\ PushInWindow(t)
  /\ enqueue_pos_' = Plus(pos[t], 1)
  /\ queue' = Append(queue, val[t])
  /\ Goto(t, "push_write")
  /\ UNCHANGED <<dequeue_pos_, sequence, slot_value, pos, val>>

(* The failed compare-and-swap loads enqueue_pos_ into pos. *)
PushRetry(t) ==
  /\ pc[t] = "push_cas"
  /\ enqueue_pos_ # pos[t] \/ WeakCasMayFail
  /\ pos' = [pos EXCEPT ![t] = enqueue_pos_]
  /\ Goto(t, "push_seq")
  /\ UNCHANGED <<enqueue_pos_, dequeue_pos_, sequence, slot_value, val, queue>>

PushWrite(t) ==
  /\ pc[t] = "push_write"
  /\ slot_value' = [slot_value EXCEPT ![Slot(pos[t])] = val[t]]
  /\ Goto(t, "push_store")
  /\ UNCHANGED <<enqueue_pos_, dequeue_pos_, sequence, pos, val, queue>>

PushStore_SameLap(t) ==
  /\ pc[t] = "push_store"
  /\ sequence' = [sequence EXCEPT ![Slot(pos[t])] = pos[t]]
  /\ Return(t)
  /\ val' = [val EXCEPT ![t] = None]
  /\ UNCHANGED <<enqueue_pos_, dequeue_pos_, slot_value, queue>>
PushStore(t) ==
  /\ pc[t] = "push_store"
  /\ sequence' = [sequence EXCEPT ![Slot(pos[t])] = Plus(pos[t], 1)]
  /\ Return(t)
  /\ val' = [val EXCEPT ![t] = None]
  /\ UNCHANGED <<enqueue_pos_, dequeue_pos_, slot_value, queue>>

-----------------------------------------------------------------------------
CallPop(t) ==
  /\ pc[t] = "idle"
  /\ Goto(t, "pop_pos")
  /\ val' = [val EXCEPT ![t] = None]
  /\ UNCHANGED <<enqueue_pos_, dequeue_pos_, sequence, slot_value, pos, queue>>

PopPos(t) ==
  /\ pc[t] = "pop_pos"
  /\ pos' = [pos EXCEPT ![t] = dequeue_pos_]
  /\ Goto(t, "pop_seq")
  /\ UNCHANGED <<enqueue_pos_, dequeue_pos_, sequence, slot_value, val, queue>>

PopSeq(t) ==
  /\ pc[t] = "pop_seq"
  /\ \E diff \in Diffs(sequence[Slot(pos[t])], Plus(pos[t], 1)) :
       \/ diff = 0 /\ Goto(t, "pop_cas") /\ UNCHANGED pos
       \/ diff < 0 /\ Return(t)
       \/ diff > 0 /\ Goto(t, "pop_pos") /\ UNCHANGED pos
  /\ UNCHANGED <<enqueue_pos_, dequeue_pos_, sequence, slot_value, val, queue>>

PopClaim(t) ==
  /\ pc[t] = "pop_cas"
  /\ dequeue_pos_ = pos[t]
  /\ PopInWindow(t)
  /\ dequeue_pos_' = Plus(pos[t], 1)
  /\ queue' = Tail(queue)
  /\ Goto(t, "pop_read")
  /\ UNCHANGED <<enqueue_pos_, sequence, slot_value, pos, val>>

PopRetry(t) ==
  /\ pc[t] = "pop_cas"
  /\ dequeue_pos_ # pos[t] \/ WeakCasMayFail
  /\ pos' = [pos EXCEPT ![t] = dequeue_pos_]
  /\ Goto(t, "pop_seq")
  /\ UNCHANGED <<enqueue_pos_, dequeue_pos_, sequence, slot_value, val, queue>>

PopRead(t) ==
  /\ pc[t] = "pop_read"
  /\ val' = [val EXCEPT ![t] = slot_value[Slot(pos[t])]]
  /\ Goto(t, "pop_store")
  /\ UNCHANGED <<enqueue_pos_, dequeue_pos_, sequence, slot_value, pos, queue>>

PopStore_NextPos(t) ==
  /\ pc[t] = "pop_store"
  /\ sequence' = [sequence EXCEPT ![Slot(pos[t])] = Plus(pos[t], Capacity - 1)]
  /\ Return(t)
  /\ UNCHANGED <<enqueue_pos_, dequeue_pos_, slot_value, val, queue>>
PopStore(t) ==
  /\ pc[t] = "pop_store"
  /\ sequence' = [sequence EXCEPT ![Slot(pos[t])] = Plus(pos[t], Capacity)]
  /\ Return(t)
  /\ UNCHANGED <<enqueue_pos_, dequeue_pos_, slot_value, val, queue>>

-----------------------------------------------------------------------------
PushStep(t) ==
  \/ PushPos(t)
  \/ PushSeq(t)
  \/ PushClaim(t)
  \/ PushRetry(t)
  \/ PushWrite(t)
  \/ PushStore(t)

PopStep(t) ==
  \/ PopPos(t)
  \/ PopSeq(t)
  \/ PopClaim(t)
  \/ PopRetry(t)
  \/ PopRead(t)
  \/ PopStore(t)

Next ==
  \/ \E t \in Producers : PushStep(t) \/ \E v \in Values : CallPush(t, v)
  \/ \E t \in Consumers : PopStep(t) \/ CallPop(t)

Spec == Init /\ [][Next]_vars

(* Every thread that is inside a call keeps running, and the consumers keep *)
(* calling try_pop.  Nobody has to call try_push.                           *)
LiveSpec ==
  /\ Spec
  /\ \A t \in Producers : WF_vars(PushStep(t))
  /\ \A t \in Consumers : WF_vars(PopStep(t) \/ CallPop(t))

-----------------------------------------------------------------------------
(* Every variable holds a value of the type the code gives it.              *)
TypeOK ==
  /\ enqueue_pos_ \in Positions
  /\ dequeue_pos_ \in Positions
  /\ sequence \in [Slots -> Positions]
  /\ slot_value \in [Slots -> Values \union {None}]
  /\ pc \in [Threads -> {"idle", "push_pos", "pop_pos"} \union PushWindow
                        \union PopWindow \union PushOwns \union PopOwns]
  /\ pos \in [Threads -> Positions]
  /\ val \in [Threads -> Values \union {None}]
  /\ queue \in Seq(Values)

(* No thread writes a slot's value while another reads or writes it.        *)
NoDataRace ==
  \A t, u \in Threads :
    ( /\ t # u
      /\ pc[t] = "push_write"
      /\ pc[u] \in {"push_write", "pop_read"} ) => Slot(pos[t]) # Slot(pos[u])

(* Who may touch the slot of a position, on every lap of the ring:          *)
(*  - claimed by a push and not by a pop: the sequence number is one past   *)
(*    it, or the push still owns it;                                        *)
(*  - claimed by a pop: handed to the next lap, or the pop still owns it;   *)
(* and nobody else owns anything.                                           *)
SlotOwnership ==
  LET size == Minus(enqueue_pos_, dequeue_pos_)
      Owners(set, p) == {t \in Threads : pc[t] \in set /\ pos[t] = p}
  IN  /\ size = Len(queue)
      /\ size <= Capacity
      /\ \A k \in 0 .. Capacity - 1 :
           LET p == Plus(dequeue_pos_, k)
               seq == sequence[Slot(p)]
               prev == Minus(p, Capacity)
           IN  IF k < size
               THEN \/ seq = Plus(p, 1) /\ Owners(PushOwns, p) = {}
                    \/ seq = p /\ \E t \in Threads : Owners(PushOwns, p) = {t}
               ELSE \/ seq = p /\ Owners(PopOwns, prev) = {}
                    \/ seq = Plus(prev, 1) /\ \E t \in Threads : Owners(PopOwns, prev) = {t}
      /\ \A t \in Threads :
           /\ pc[t] \in PushOwns => Minus(pos[t], dequeue_pos_) < size
           /\ pc[t] \in PopOwns => Minus(enqueue_pos_, pos[t]) \in size + 1 .. Capacity

(* A consumer that keeps polling takes every value out, provided no         *)
(* producer stops between claiming a slot and handing it on.                *)
Delivered ==
  \A p \in Positions :
    (dequeue_pos_ = p /\ enqueue_pos_ # p) ~> (dequeue_pos_ # p)

(* A call that retries forever does so only because other calls of its kind *)
(* keep succeeding: once enqueue_pos_ (dequeue_pos_) stands still, every    *)
(* try_push (try_pop) of a thread that keeps running returns.               *)
RetriesOnlyUnderContention ==
  /\ \A t \in Producers :
       <>[][UNCHANGED enqueue_pos_]_vars => (pc[t] = "push_pos" ~> pc[t] = "idle")
  /\ \A t \in Consumers :
       <>[][UNCHANGED dequeue_pos_]_vars => (pc[t] = "pop_pos" ~> pc[t] = "idle")

(* The ring never holds more than Capacity values: "Returns false without   *)
(* blocking if the ring is full", for every Capacity the class accepts.     *)
NeverOverfull == Len(queue) <= Capacity

(* The ring implements the bounded queue: a push takes effect when it       *)
(* claims enqueue_pos_, a pop when it claims dequeue_pos_.  A push fails    *)
(* only if the queue is full or a pop has not handed its slot back yet; a   *)
(* pop only if it is empty or a push has not handed its slot on yet.        *)
OpOf(p) ==
  CASE p \in {"push_pos"} \union PushWindow -> "push"
    [] p \in {"pop_pos"} \union PopWindow -> "pop"
    [] p \in PushOwns -> "pushed"
    [] p \in PopOwns -> "popped"
    [] OTHER -> "none"

Fifo == INSTANCE BoundedFifo WITH
  failure_mode <- IF SignedWraps THEN "overlap" ELSE "any",
  op <- [t \in Threads |-> OpOf(pc[t])],
  val <- [t \in Threads |-> IF pc[t] = "pop_read"
                            THEN slot_value[Slot(pos[t])] ELSE val[t]]

ImplementsBoundedFifo == Fifo!Spec
=============================================================================
