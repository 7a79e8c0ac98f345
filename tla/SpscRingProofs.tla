--------------------------- MODULE SpscRingProofs ---------------------------
(***************************************************************************)
(* Proofs about SpscRing.tla for every capacity and counter width that     *)
(* SpscAssumption admits, 2^64 included: the cursors stay in order across  *)
(* the wraparound, the slots are free of data races, and the ring          *)
(* implements the bounded queue, with stale loads and without.             *)
(***************************************************************************)
EXTENDS SpscRing, SequenceTheorems, TLAPS

(* The slot of a push that has written it holds the argument, a pop that    *)
(* has read its slot holds what is in it, and one that has not holds        *)
(* nothing.                                                                 *)
ValuesInPlace ==
  /\ ppc = "push_store" => buffer_[Slot(tail_)] = value
  /\ cpc = "pop_store" => buffer_[Slot(head_)] = out
  /\ cpc \in {"pop_load", "pop_read"} => out = None

IInv ==
  /\ TypeOK
  /\ CursorsInOrder
  /\ ValuesInPlace

-----------------------------------------------------------------------------
(* std::size_t arithmetic without remainders. *)
LEMMA MinusIs ==
  \A a, b \in Counters :
    Minus(b, a) = IF a <= b THEN b - a ELSE b - a + CounterMod
<1> SUFFICES ASSUME NEW a \in Counters, NEW b \in Counters
             PROVE  Minus(b, a) = IF a <= b THEN b - a ELSE b - a + CounterMod
  OBVIOUS
<1>1. CASE a <= b
  BY <1>1, SpscAssumption DEF Counters, Minus
<1>2. CASE b < a
  BY <1>2, SpscAssumption DEF Counters, Minus
<1> QED
  BY <1>1, <1>2, SpscAssumption DEF Counters

LEMMA Plus1Is ==
  \A a \in Counters : Plus1(a) = IF a + 1 = CounterMod THEN 0 ELSE a + 1
  BY SpscAssumption DEF Counters, Plus1

(* A cursor is determined by its slot and its round over the ring. *)
LEMMA Division ==
  \A x \in Nat :
    /\ x \div Capacity \in Nat
    /\ Slot(x) \in Slots
    /\ x = (x \div Capacity) * Capacity + Slot(x)
<1> SUFFICES ASSUME NEW x \in Nat
             PROVE  /\ x \div Capacity \in Nat
                    /\ Slot(x) \in Slots
                    /\ x = (x \div Capacity) * Capacity + Slot(x)
  OBVIOUS
<1>1. x \div Capacity \in Nat
  BY SpscAssumption
<1>2. Slot(x) \in Slots
  BY SpscAssumption DEF Slot, Slots
<1>3. x = (x \div Capacity) * Capacity + Slot(x)
  BY SpscAssumption DEF Slot
<1> QED
  BY <1>1, <1>2, <1>3

LEMMA SlotOf ==
  \A q \in Nat, r \in Slots : Slot(q * Capacity + r) = r
  BY SpscAssumption DEF Slot, Slots

(* The counters wrap around where the slots do: Capacity divides 2^64. *)
LEMMA SlotWraps ==
  \A x \in Nat : Slot(x + CounterMod) = Slot(x)
<1> SUFFICES ASSUME NEW x \in Nat
             PROVE  Slot(x + CounterMod) = Slot(x)
  OBVIOUS
<1> DEFINE q == x \div Capacity
           m == CounterMod \div Capacity
<1>1. q \in Nat /\ Slot(x) \in Slots /\ x = q * Capacity + Slot(x)
  BY Division
<1>2. m \in Nat /\ CounterMod = m * Capacity
  <2>1. m \in Nat /\ CounterMod = m * Capacity + Slot(CounterMod)
    BY Division, SpscAssumption
  <2>2. Slot(CounterMod) = 0
    BY SpscAssumption DEF Slot
  <2> HIDE DEF m
  <2> QED
    BY <2>1, <2>2, SpscAssumption
<1> HIDE DEF q, m
<1>3. x + CounterMod = (q + m) * Capacity + Slot(x)
  BY <1>1, <1>2, SpscAssumption DEF Slots
<1> QED
  BY <1>1, <1>2, <1>3, SlotOf

(* Cursors less than a ring apart have different slots. *)
LEMMA SlotsDiffer ==
  \A x \in Nat, d \in 1 .. Capacity - 1 : Slot(x + d) # Slot(x)
<1> SUFFICES ASSUME NEW x \in Nat, NEW d \in 1 .. Capacity - 1,
                    Slot(x + d) = Slot(x)
             PROVE  FALSE
  OBVIOUS
<1> DEFINE q == x \div Capacity
           p == (x + d) \div Capacity
<1>1. q \in Nat /\ Slot(x) \in Slots /\ x = q * Capacity + Slot(x)
  BY Division
<1>2. p \in Nat /\ x + d = p * Capacity + Slot(x + d)
  BY Division, SpscAssumption
<1> HIDE DEF q, p
<1>3. p * Capacity = q * Capacity + d
  BY <1>1, <1>2, SpscAssumption DEF Slots
<1>4. CASE p <= q
  <2>1. p * Capacity <= q * Capacity
    BY <1>1, <1>2, <1>4, SpscAssumption
  <2> QED
    BY <2>1, <1>1, <1>2, <1>3, SpscAssumption
<1>5. CASE q + 1 <= p
  <2>1. (q + 1) * Capacity <= p * Capacity
    BY <1>1, <1>2, <1>5, SpscAssumption
  <2>2. (q + 1) * Capacity = q * Capacity + Capacity
    BY <1>1, SpscAssumption
  <2> QED
    BY <2>1, <2>2, <1>1, <1>2, <1>3, SpscAssumption
<1> QED
  BY <1>1, <1>2, <1>4, <1>5

(* The slot of a cursor b, counted from a cursor a. *)
LEMMA SlotFrom ==
  \A a, b \in Counters : Slot(b) = Slot(a + Minus(b, a))
<1> SUFFICES ASSUME NEW a \in Counters, NEW b \in Counters
             PROVE  Slot(b) = Slot(a + Minus(b, a))
  OBVIOUS
<1>1. a + Minus(b, a) \in {b, b + CounterMod}
  BY MinusIs, SpscAssumption DEF Counters
<1> QED
  BY <1>1, SlotWraps DEF Counters

-----------------------------------------------------------------------------
(* How many values the ring holds, and where the cursors stand. *)
LEMMA SlotTypes == \A x \in Counters : Slot(x) \in Slots /\ Plus1(x) \in Counters
  BY Division, Plus1Is, SpscAssumption DEF Counters

LEMMA MinusTypes == \A a, b \in Counters : Minus(b, a) \in Counters
  BY MinusIs, SpscAssumption DEF Counters

(* Distances add up along a chain of cursors. *)
LEMMA MinusChain ==
  ASSUME NEW a \in Counters, NEW b \in Counters, NEW c \in Counters,
         Minus(b, a) <= Minus(c, a)
  PROVE  Minus(c, b) = Minus(c, a) - Minus(b, a)
<1>1. /\ Minus(b, a) = IF a <= b THEN b - a ELSE b - a + CounterMod
      /\ Minus(c, a) = IF a <= c THEN c - a ELSE c - a + CounterMod
      /\ Minus(c, b) = IF b <= c THEN c - b ELSE c - b + CounterMod
  BY MinusIs
<1>2. a \in Nat /\ b \in Nat /\ c \in Nat /\ CounterMod \in Nat
      /\ a < CounterMod /\ b < CounterMod /\ c < CounterMod
  BY SpscAssumption DEF Counters
<1> QED
  BY <1>1, <1>2

(* While a push may write its slot, a pop reads from another one. *)
LEMMA WriteAndReadApart ==
  ASSUME IInv, ppc \in {"push_write", "push_store"}, cpc \in {"pop_read", "pop_store"}
  PROVE  Slot(tail_) # Slot(head_)
<1>1. head_ \in Counters /\ tail_ \in Counters /\ phead \in Counters /\ ctail \in Counters
  BY DEF IInv, TypeOK
<1>2. Minus(tail_, head_) \in 1 .. Capacity - 1
  <2>1. /\ Minus(tail_, phead) < Capacity /\ Minus(head_, phead) <= Minus(tail_, phead)
        /\ Minus(ctail, head_) <= Minus(tail_, head_) /\ head_ # ctail
    BY DEF IInv, CursorsInOrder
  <2>2. /\ Minus(tail_, phead) \in Nat /\ Minus(head_, phead) \in Nat
        /\ Minus(ctail, head_) \in Nat /\ Minus(tail_, head_) \in Nat
    BY <1>1, MinusTypes DEF Counters
  <2>3. Minus(tail_, head_) = Minus(tail_, phead) - Minus(head_, phead)
    BY <1>1, <2>1, MinusChain
  <2>4. Minus(ctail, head_) # 0
    BY <1>1, <2>1, MinusIs, SpscAssumption DEF Counters
  <2> QED
    BY <2>1, <2>2, <2>3, <2>4, SpscAssumption
<1> QED
  BY <1>1, <1>2, SlotFrom, SlotsDiffer DEF Counters

(* A load never takes a cursor's copy back: what it returns lies between    *)
(* the copy and the cursor, and hence on the same side of the other cursor. *)
LEMMA LoadsAdvance ==
  ASSUME NEW seen \in Counters, NEW current \in Counters,
         NEW c \in Loads(seen, current)
  PROVE  c \in Counters /\ Minus(current, c) <= Minus(current, seen)
<1>1. Minus(current, current) = 0 /\ Minus(current, seen) \in Nat
  BY MinusIs, SpscAssumption DEF Counters
<1> QED
  BY <1>1 DEF Loads

LEMMA PheadAdvances ==
  ASSUME NEW h \in Counters, NEW t \in Counters, NEW p \in Counters, NEW q \in Counters,
         Minus(h, p) <= Minus(t, p), Minus(h, q) <= Minus(h, p)
  PROVE  Minus(h, q) <= Minus(t, q) /\ Minus(t, q) <= Minus(t, p)
<1>1. /\ Minus(h, p) = IF p <= h THEN h - p ELSE h - p + CounterMod
      /\ Minus(t, p) = IF p <= t THEN t - p ELSE t - p + CounterMod
      /\ Minus(h, q) = IF q <= h THEN h - q ELSE h - q + CounterMod
      /\ Minus(t, q) = IF q <= t THEN t - q ELSE t - q + CounterMod
  BY MinusIs
<1> QED
  BY <1>1, SpscAssumption DEF Counters

LEMMA CtailAdvances ==
  ASSUME NEW h \in Counters, NEW t \in Counters, NEW p \in Counters, NEW q \in Counters,
         Minus(p, h) <= Minus(t, h), Minus(t, q) <= Minus(t, p)
  PROVE  Minus(q, h) <= Minus(t, h)
<1>1. /\ Minus(p, h) = IF h <= p THEN p - h ELSE p - h + CounterMod
      /\ Minus(q, h) = IF h <= q THEN q - h ELSE q - h + CounterMod
      /\ Minus(t, h) = IF h <= t THEN t - h ELSE t - h + CounterMod
      /\ Minus(t, q) = IF q <= t THEN t - q ELSE t - q + CounterMod
      /\ Minus(t, p) = IF p <= t THEN t - p ELSE t - p + CounterMod
  BY MinusIs
<1> QED
  BY <1>1, SpscAssumption DEF Counters

(* Distances add up, and only a cursor itself is at distance 0. *)
LEMMA Between ==
  ASSUME NEW a \in Counters, NEW b \in Counters, NEW c \in Counters,
         Minus(b, a) <= Minus(c, a)
  PROVE  Minus(c, b) = Minus(c, a) - Minus(b, a)
<1>1. /\ Minus(b, a) = IF a <= b THEN b - a ELSE b - a + CounterMod
      /\ Minus(c, a) = IF a <= c THEN c - a ELSE c - a + CounterMod
      /\ Minus(c, b) = IF b <= c THEN c - b ELSE c - b + CounterMod
  BY MinusIs
<1> QED
  BY <1>1, SpscAssumption DEF Counters

LEMMA Apart == \A a, b \in Counters : a # b => Minus(b, a) > 0
  BY MinusIs, SpscAssumption DEF Counters

(* Advancing a cursor that has not come full circle. *)
LEMMA AdvanceFrom ==
  ASSUME NEW a \in Counters, NEW b \in Counters, Minus(b, a) + 1 < CounterMod
  PROVE  Minus(Plus1(b), a) = Minus(b, a) + 1
<1>1. /\ Minus(b, a) = IF a <= b THEN b - a ELSE b - a + CounterMod
      /\ Plus1(b) = IF b + 1 = CounterMod THEN 0 ELSE b + 1
      /\ Plus1(b) \in Counters
      /\ Minus(Plus1(b), a) = IF a <= Plus1(b) THEN Plus1(b) - a
                              ELSE Plus1(b) - a + CounterMod
  BY MinusIs, Plus1Is, SlotTypes
<1> QED
  BY <1>1, SpscAssumption DEF Counters

LEMMA AdvanceTo ==
  ASSUME NEW a \in Counters, NEW b \in Counters, a # b
  PROVE  Minus(b, Plus1(a)) = Minus(b, a) - 1
<1>1. /\ Minus(b, a) = IF a <= b THEN b - a ELSE b - a + CounterMod
      /\ Plus1(a) = IF a + 1 = CounterMod THEN 0 ELSE a + 1
      /\ Plus1(a) \in Counters
      /\ Minus(b, Plus1(a)) = IF Plus1(a) <= b THEN b - Plus1(a)
                              ELSE b - Plus1(a) + CounterMod
  BY MinusIs, Plus1Is, SlotTypes
<1> QED
  BY <1>1, SpscAssumption DEF Counters

LEMMA InitIInv == Init => IInv
  BY MinusIs, SpscAssumption
  DEF Init, IInv, TypeOK, CursorsInOrder, ValuesInPlace, Counters

-----------------------------------------------------------------------------
LEMMA CallPushStep ==
  ASSUME IInv, NEW v \in Values, CallPush(v)
  PROVE  IInv'
<1> USE DEF CallPush, IInv, consumer
<1>1. TypeOK'
  BY SlotTypes DEF TypeOK, Loads
<1>2. CursorsInOrder'
  BY MinusIs, Plus1Is, SpscAssumption DEF TypeOK, CursorsInOrder, Loads, Counters
<1>3. ValuesInPlace'
  BY WriteAndReadApart, SlotTypes DEF TypeOK, ValuesInPlace
<1> QED
  BY <1>1, <1>2, <1>3

LEMMA PushLoadStep ==
  ASSUME IInv, PushLoad
  PROVE  IInv'
<1> USE DEF PushLoad, IInv, consumer
<1>1. TypeOK'
  BY SlotTypes DEF TypeOK, Loads
<1>2. CursorsInOrder'
  <2>1. Minus(head_, phead') <= Minus(head_, phead)
    BY LoadsAdvance DEF TypeOK
  <2>2. Minus(head_, phead') <= Minus(tail_, phead') /\ Minus(tail_, phead') <= Minus(tail_, phead)
    BY <2>1, <1>1, PheadAdvances DEF TypeOK, CursorsInOrder
  <2>3. Minus(tail_, phead') \in Nat /\ Minus(tail_, phead) \in Nat
    BY <1>1, MinusTypes DEF TypeOK, Counters
  <2> QED
    BY <2>2, <2>3, SpscAssumption DEF CursorsInOrder
<1>3. ValuesInPlace'
  BY WriteAndReadApart, SlotTypes DEF TypeOK, ValuesInPlace
<1> QED
  BY <1>1, <1>2, <1>3

LEMMA PushWriteStep ==
  ASSUME IInv, PushWrite
  PROVE  IInv'
<1> USE DEF PushWrite, IInv, consumer
<1>1. TypeOK'
  BY SlotTypes DEF TypeOK, Loads
<1>2. CursorsInOrder'
  BY MinusIs, Plus1Is, SpscAssumption DEF TypeOK, CursorsInOrder, Loads, Counters
<1>3. ValuesInPlace'
  BY WriteAndReadApart, SlotTypes DEF TypeOK, ValuesInPlace
<1> QED
  BY <1>1, <1>2, <1>3

LEMMA PushStoreStep ==
  ASSUME IInv, PushStore
  PROVE  IInv'
<1> USE DEF PushStore, IInv, consumer
<1>1. TypeOK'
  BY SlotTypes DEF TypeOK, Loads
<1>2. CursorsInOrder'
  <2>1. /\ Minus(tail_, head_) \in Nat /\ Minus(tail_, phead) \in Nat
        /\ Minus(head_, phead) \in Nat /\ Minus(ctail, head_) \in Nat
    BY MinusTypes DEF TypeOK, Counters
  <2>2. Minus(tail_, head_) <= Minus(tail_, phead)
    BY <2>1, Between DEF TypeOK, CursorsInOrder
  <2>3. Minus(tail_', phead) = Minus(tail_, phead) + 1
    BY <2>1, AdvanceFrom, SpscAssumption DEF TypeOK, CursorsInOrder
  <2>4. Minus(tail_', head_) = Minus(tail_, head_) + 1
    BY <2>1, <2>2, AdvanceFrom, SpscAssumption DEF TypeOK, CursorsInOrder
  <2> QED
    BY <2>1, <2>2, <2>3, <2>4, SpscAssumption DEF CursorsInOrder
<1>3. ValuesInPlace'
  BY WriteAndReadApart, SlotTypes DEF TypeOK, ValuesInPlace
<1> QED
  BY <1>1, <1>2, <1>3

LEMMA CallPopStep ==
  ASSUME IInv, CallPop
  PROVE  IInv'
<1> USE DEF CallPop, IInv, producer
<1>1. TypeOK'
  BY SlotTypes DEF TypeOK, Loads
<1>2. CursorsInOrder'
  BY MinusIs, Plus1Is, SpscAssumption DEF TypeOK, CursorsInOrder, Loads, Counters
<1>3. ValuesInPlace'
  BY WriteAndReadApart, SlotTypes DEF TypeOK, ValuesInPlace
<1> QED
  BY <1>1, <1>2, <1>3

LEMMA PopLoadStep ==
  ASSUME IInv, PopLoad
  PROVE  IInv'
<1> USE DEF PopLoad, IInv, producer
<1>1. TypeOK'
  BY SlotTypes DEF TypeOK, Loads
<1>2. CursorsInOrder'
  <2>1. Minus(tail_, ctail') <= Minus(tail_, ctail)
    BY LoadsAdvance DEF TypeOK
  <2>2. Minus(ctail', head_) <= Minus(tail_, head_)
    BY <2>1, <1>1, CtailAdvances DEF TypeOK, CursorsInOrder
  <2> QED
    BY <2>2 DEF CursorsInOrder
<1>3. ValuesInPlace'
  BY WriteAndReadApart, SlotTypes DEF TypeOK, ValuesInPlace
<1> QED
  BY <1>1, <1>2, <1>3

LEMMA PopReadStep ==
  ASSUME IInv, PopRead
  PROVE  IInv'
<1> USE DEF PopRead, IInv, producer
<1>1. TypeOK'
  BY SlotTypes DEF TypeOK, Loads
<1>2. CursorsInOrder'
  BY MinusIs, Plus1Is, SpscAssumption DEF TypeOK, CursorsInOrder, Loads, Counters
<1>3. ValuesInPlace'
  BY WriteAndReadApart, SlotTypes DEF TypeOK, ValuesInPlace
<1> QED
  BY <1>1, <1>2, <1>3

LEMMA PopStoreStep ==
  ASSUME IInv, PopStore
  PROVE  IInv'
<1> USE DEF PopStore, IInv, producer
<1>1. TypeOK'
  BY SlotTypes DEF TypeOK, Loads
<1>2. CursorsInOrder'
  <2>1. /\ Minus(tail_, head_) \in Nat /\ Minus(tail_, phead) \in Counters
        /\ Minus(head_, phead) \in Nat /\ Minus(ctail, head_) \in Nat
    BY MinusTypes DEF TypeOK, Counters
  <2>2. Minus(ctail, head_) > 0 /\ Minus(tail_, head_) > 0
    BY <2>1, Apart DEF TypeOK, CursorsInOrder
  <2>3. head_ # ctail /\ head_ # tail_
    <3>1. Minus(head_, head_) = 0
      BY MinusIs DEF TypeOK, Counters
    <3> QED
      BY <2>2, <3>1
  <2>4. /\ Minus(tail_, head_') = Minus(tail_, head_) - 1
        /\ Minus(ctail, head_') = Minus(ctail, head_) - 1
    BY <2>3, AdvanceTo DEF TypeOK
  <2>5. Minus(tail_, head_) = Minus(tail_, phead) - Minus(head_, phead)
    BY Between DEF TypeOK, CursorsInOrder
  <2>6. Minus(head_', phead) = Minus(head_, phead) + 1
    BY <2>1, <2>2, <2>5, AdvanceFrom, SpscAssumption DEF TypeOK, Counters
  <2> QED
    BY <2>1, <2>2, <2>4, <2>5, <2>6, SpscAssumption DEF CursorsInOrder, Counters
<1>3. ValuesInPlace'
  BY WriteAndReadApart, SlotTypes DEF TypeOK, ValuesInPlace
<1> QED
  BY <1>1, <1>2, <1>3

-----------------------------------------------------------------------------
LEMMA NextIInv == IInv /\ [Next]_vars => IInv'
<1>1. ASSUME IInv, UNCHANGED vars
      PROVE  IInv'
  BY <1>1 DEF vars, IInv, TypeOK, CursorsInOrder, ValuesInPlace
<1> QED
  BY <1>1, CallPushStep, PushLoadStep, PushWriteStep, PushStoreStep,
     CallPopStep, PopLoadStep, PopReadStep, PopStoreStep DEF Next

(* What holds of the ring at every step of its two threads. *)
THEOREM Inductive == Spec => []IInv
  BY InitIInv, NextIInv, PTL DEF Spec

(* The cursors and the threads' copies of them never leave the 64 bits (or  *)
(* how many there are), and the slots hold values.                          *)
THEOREM Types == Spec => []TypeOK
  BY Inductive, PTL DEF IInv

(* The cursors never pass each other, across the wraparound too, whatever   *)
(* the loads of the other thread's cursor return.                           *)
THEOREM CursorsStayInOrder == Spec => []CursorsInOrder
  BY Inductive, PTL DEF IInv

(* try_push never writes the slot try_pop is reading. *)
THEOREM RaceFree == Spec => []NoDataRace
<1>1. IInv => NoDataRace
  BY WriteAndReadApart DEF NoDataRace
<1> QED
  BY <1>1, Inductive, PTL

-----------------------------------------------------------------------------
(* The mapped values of op and val, as functions of the two threads. *)
LEMMA Mapped ==
  ASSUME NEW p, NEW c
  PROVE  /\ [producer |-> p, consumer |-> c]["producer"] = p
         /\ [producer |-> p, consumer |-> c]["consumer"] = c
         /\ \A x : [[producer |-> p, consumer |-> c] EXCEPT !["producer"] = x]
                    = [producer |-> x, consumer |-> c]
         /\ \A x : [[producer |-> p, consumer |-> c] EXCEPT !["consumer"] = x]
                    = [producer |-> p, consumer |-> x]
         /\ [t \in {"producer", "consumer"} |-> p] = [producer |-> p, consumer |-> p]
<1>1. [producer |-> p, consumer |-> c]["producer"] = p
  OBVIOUS
<1>2. [producer |-> p, consumer |-> c]["consumer"] = c
  OBVIOUS
<1>3. \A x : [[producer |-> p, consumer |-> c] EXCEPT !["producer"] = x]
                    = [producer |-> x, consumer |-> c]
  OBVIOUS
<1>4. \A x : [[producer |-> p, consumer |-> c] EXCEPT !["consumer"] = x]
                    = [producer |-> p, consumer |-> x]
  OBVIOUS
<1>5. [t \in {"producer", "consumer"} |-> p] = [producer |-> p, consumer |-> p]
  OBVIOUS
<1> QED
  BY <1>1, <1>2, <1>3, <1>4, <1>5

(* The values between the cursors: how a step of the ring changes them. *)
LEMMA ContentsSeq ==
  ASSUME IInv
  PROVE  /\ Contents \in Seq(Values \union {None})
         /\ Len(Contents) = Minus(tail_, head_)
         /\ DOMAIN Contents = 1 .. Minus(tail_, head_)
<1>1. Minus(tail_, head_) \in Nat
  BY MinusTypes DEF IInv, TypeOK, Counters
<1>2. \A k \in 1 .. Minus(tail_, head_) : Slot(head_ + k - 1) \in Slots
  BY <1>1, Division DEF IInv, TypeOK, Counters
<1>3. \A k \in 1 .. Minus(tail_, head_) : buffer_[Slot(head_ + k - 1)] \in Values \union {None}
  BY <1>2 DEF IInv, TypeOK
<1> QED
  BY <1>1, <1>3 DEF Contents

(* Writing the slot at tail_ touches no value in the ring. *)
LEMMA WriteKeepsContents ==
  ASSUME IInv, PushWrite
  PROVE  Contents' = Contents
<1> DEFINE n == Minus(tail_, head_)
<1>1. head_ \in Counters /\ tail_ \in Counters /\ Slot(tail_) = Slot(head_ + n)
  BY SlotFrom DEF IInv, TypeOK
<1>2. n \in 0 .. Capacity - 1
  BY MinusTypes, Between, SpscAssumption
  DEF PushWrite, IInv, TypeOK, CursorsInOrder, Counters
<1> HIDE DEF n
<1>3. ASSUME NEW k \in 1 .. n
      PROVE  buffer_'[Slot(head_ + k - 1)] = buffer_[Slot(head_ + k - 1)]
  <2>1. Slot((head_ + k - 1) + (n - k + 1)) # Slot(head_ + k - 1)
    <3>1. head_ + k - 1 \in Nat /\ n - k + 1 \in 1 .. Capacity - 1
      BY <1>1, <1>2, SpscAssumption DEF Counters
    <3> QED
      BY <3>1, SlotsDiffer
  <2>2. (head_ + k - 1) + (n - k + 1) = head_ + n
    BY <1>1, <1>2 DEF Counters
  <2> QED
    BY <2>1, <2>2, <1>1 DEF PushWrite, IInv, TypeOK
<1> QED
  BY <1>3 DEF Contents, PushWrite, n

LEMMA StoreAppends ==
  ASSUME IInv, PushStore
  PROVE  Len(Contents) < Capacity /\ Contents' = Append(Contents, value)
<1> DEFINE n == Minus(tail_, head_)
<1>1. head_ \in Counters /\ tail_ \in Counters /\ Slot(tail_) = Slot(head_ + n)
  BY SlotFrom DEF IInv, TypeOK
<1>2. n \in 0 .. Capacity - 1
  BY MinusTypes, Between, SpscAssumption
  DEF PushStore, IInv, TypeOK, CursorsInOrder, Counters
<1>3. Minus(tail_', head_) = n + 1
  BY <1>1, <1>2, AdvanceFrom, SpscAssumption DEF PushStore
<1>4. buffer_[Slot(head_ + n)] = value
  BY <1>1 DEF PushStore, IInv, ValuesInPlace
<1>5. Len(Contents) = n /\ Contents \in Seq(Values \union {None})
  BY ContentsSeq
<1>6. Contents = [k \in 1 .. n |-> buffer_[Slot(head_ + k - 1)]]
  BY DEF Contents
<1>7. Contents' = [k \in 1 .. n + 1 |-> buffer_[Slot(head_ + k - 1)]]
  BY <1>3 DEF Contents, PushStore
<1> HIDE DEF n
<1>8. head_ + (n + 1) - 1 = head_ + n
  BY <1>1, <1>2 DEF Counters
<1>9. /\ Append(Contents, value) \in Seq(Values \union {None})
      /\ Len(Append(Contents, value)) = n + 1
      /\ \A k \in 1 .. n : Append(Contents, value)[k] = Contents[k]
      /\ Append(Contents, value)[n + 1] = value
  BY <1>5, AppendProperties DEF IInv, TypeOK
<1>10. Contents' \in Seq(Values \union {None}) /\ Len(Contents') = n + 1
  <2>1. \A k \in 1 .. n + 1 : buffer_[Slot(head_ + k - 1)] \in Values \union {None}
    <3>1. \A k \in 1 .. n + 1 : Slot(head_ + k - 1) \in Slots
      BY <1>1, <1>2, Division, SpscAssumption DEF Counters
    <3> QED
      BY <3>1 DEF IInv, TypeOK
  <2> QED
    BY <2>1, <1>2, <1>7
<1>11. \A k \in 1 .. n + 1 : Contents'[k] = Append(Contents, value)[k]
  <2>1. \A k \in 1 .. n : Contents'[k] = Contents[k]
    BY <1>2, <1>6, <1>7
  <2>2. Contents'[n + 1] = value
    BY <1>2, <1>4, <1>7, <1>8
  <2> QED
    BY <2>1, <2>2, <1>2, <1>9
<1>12. Contents' = Append(Contents, value)
  BY <1>9, <1>10, <1>11, SeqEqual
<1> QED
  BY <1>2, <1>5, <1>12, SpscAssumption

LEMMA StoreRemoves ==
  ASSUME IInv, PopStore
  PROVE  Contents # <<>> /\ Head(Contents) = out /\ Contents' = Tail(Contents)
<1> DEFINE n == Minus(tail_, head_)
<1>1. head_ \in Counters /\ tail_ \in Counters /\ ctail \in Counters
  BY DEF IInv, TypeOK
<1>2. n \in Nat \ {0} /\ head_ # tail_
  <2>1. Minus(ctail, head_) > 0
    BY <1>1, Apart DEF PopStore, IInv, CursorsInOrder
  <2>2. n \in Nat /\ Minus(ctail, head_) \in Nat /\ Minus(head_, head_) = 0
    BY <1>1, MinusTypes, MinusIs DEF Counters
  <2> QED
    BY <2>1, <2>2 DEF IInv, CursorsInOrder
<1>3. Minus(tail_, head_') = n - 1
  BY <1>1, <1>2, AdvanceTo DEF PopStore
<1>4. Contents = [k \in 1 .. n |-> buffer_[Slot(head_ + k - 1)]]
  BY DEF Contents
<1>5. Contents' = [k \in 1 .. n - 1 |-> buffer_[Slot(head_' + k - 1)]]
  BY <1>3 DEF Contents, PopStore
<1>6. Len(Contents) = n /\ Contents \in Seq(Values \union {None})
  BY ContentsSeq
<1> HIDE DEF n
<1>7. ASSUME NEW k \in 1 .. n - 1
      PROVE  Slot(head_' + k - 1) = Slot(head_ + (k + 1) - 1)
  <2>1. CASE head_ + 1 = CounterMod
    <3>1. head_' + k - 1 = k - 1 /\ head_ + (k + 1) - 1 = (k - 1) + CounterMod
      BY <2>1, <1>1, <1>2, Plus1Is, SpscAssumption DEF PopStore, Counters
    <3> QED
      BY <3>1, <1>2, SlotWraps
  <2>2. CASE head_ + 1 # CounterMod
    <3>1. head_' + k - 1 = head_ + (k + 1) - 1
      BY <2>2, <1>1, <1>2, Plus1Is, SpscAssumption DEF PopStore, Counters
    <3> QED
      BY <3>1
  <2> QED
    BY <2>1, <2>2
<1>8. Contents # <<>> /\ Head(Contents) = out
  <2>1. Contents # <<>> /\ Head(Contents) = Contents[1]
    BY <1>2, <1>6
  <2>2. Contents[1] = buffer_[Slot(head_ + 1 - 1)] /\ head_ + 1 - 1 = head_
    BY <1>1, <1>2, <1>4 DEF Counters
  <2> QED
    BY <2>1, <2>2 DEF PopStore, IInv, ValuesInPlace
<1>9. /\ Tail(Contents) \in Seq(Values \union {None})
      /\ Len(Tail(Contents)) = n - 1
      /\ \A k \in 1 .. n - 1 : Tail(Contents)[k] = Contents[k + 1]
  BY <1>6, <1>8, HeadTailProperties
<1>10. \A k \in 1 .. n - 1 : Contents[k + 1] = buffer_[Slot(head_ + (k + 1) - 1)]
  BY <1>2, <1>4
<1>11. Contents' \in Seq(Values \union {None}) /\ Len(Contents') = n - 1
  <2>1. \A k \in 1 .. n - 1 : buffer_[Slot(head_' + k - 1)] \in Values \union {None}
    <3>1. \A k \in 1 .. n - 1 : Slot(head_' + k - 1) \in Slots
      BY <1>1, <1>2, SlotTypes, Division, SpscAssumption DEF PopStore, Counters
    <3> QED
      BY <3>1 DEF IInv, TypeOK
  <2> QED
    BY <2>1, <1>2, <1>5
<1>12. \A k \in 1 .. n - 1 : Contents'[k] = Tail(Contents)[k]
  BY <1>5, <1>7, <1>9, <1>10
<1> QED
  BY <1>8, <1>9, <1>11, <1>12, SeqEqual

-----------------------------------------------------------------------------
LEMMA InitRefines == Init => Fifo!Init
<1> SUFFICES ASSUME Init
             PROVE  Fifo!Init
  OBVIOUS
<1>1. Contents = <<>>
  <2>1. IInv /\ Minus(tail_, head_) = 0
    BY InitIInv, MinusIs, SpscAssumption DEF Init, Counters
  <2> QED
    BY <2>1, ContentsSeq
<1> QED
  BY <1>1, Mapped DEF Init, Fifo!Init

(* The variables of the queue, named. *)
OpBar == [producer |-> IF ppc = "idle" THEN "none" ELSE "push",
          consumer |-> IF cpc = "idle" THEN "none" ELSE "pop"]
ValBar == [producer |-> value, consumer |-> IF cpc = "idle" THEN out ELSE None]

(* Every step of the ring is a step of the queue or changes nothing of it:  *)
(* one per action, in the order of the calls.                               *)
LEMMA NextRefines ==
  ASSUME IInv, Next
  PROVE  [Fifo!Next]_(Fifo!vars)
<1> USE Mapped DEF Fifo!Next, Fifo!vars
<1>1. ASSUME NEW v \in Values, CallPush(v)
      PROVE  Fifo!CallPush("producer", v) /\ UNCHANGED stale
  <2>1. UNCHANGED <<Contents, stale>>
    BY <1>1 DEF CallPush, Contents
  <2> QED
    <3>1. OpBar["producer"] = "none" /\ OpBar' = [OpBar EXCEPT !["producer"] = "push"]
      BY <1>1 DEF CallPush, consumer, OpBar
    <3>2. ValBar' = [ValBar EXCEPT !["producer"] = v]
      BY <1>1 DEF CallPush, consumer, ValBar
    <3> QED
      BY <2>1, <3>1, <3>2 DEF Fifo!CallPush, OpBar, ValBar
<1>2. CASE PushLoad
  <2>1. UNCHANGED <<Contents, stale>>
    BY <1>2 DEF PushLoad, Contents
  <2>2. CASE ppc' = "push_write"
    BY <1>2, <2>1, <2>2 DEF PushLoad, consumer
  <2>3. CASE ppc' = "idle"
    <3>1. ~ stale => Len(Contents) = Capacity
      <4>1. ~ stale => Minus(tail_, head_) >= Capacity
        BY <1>2, <2>3 DEF PushLoad, Loads
      <4>2. Minus(tail_, head_) \in Nat
        BY MinusTypes DEF IInv, TypeOK, Counters
      <4> QED
        BY <4>1, <4>2, ContentsSeq, SpscAssumption DEF IInv, CursorsInOrder
    <3>2. Fifo!PushFull("producer")
      BY <1>2, <2>1, <2>3, <3>1 DEF PushLoad, consumer, Fifo!PushFull
    <3> QED
      BY <2>1, <3>2
  <2> QED
    BY <1>2, <2>2, <2>3 DEF PushLoad
<1>3. CASE PushWrite
  BY <1>3, WriteKeepsContents DEF PushWrite, consumer
<1>4. CASE PushStore
  <2>1. Fifo!PushEffect("producer")
    BY <1>4, StoreAppends DEF PushStore, consumer, Fifo!PushEffect
  <2> QED
    BY <1>4, <2>1 DEF PushStore
<1>5. CASE CallPop
  <2>1. UNCHANGED <<Contents, stale>>
    BY <1>5 DEF CallPop, Contents
  <2>2. Fifo!CallPop("consumer")
    <3>1. OpBar["consumer"] = "none" /\ OpBar' = [OpBar EXCEPT !["consumer"] = "pop"]
      BY <1>5 DEF CallPop, producer, OpBar
    <3>2. ValBar' = [ValBar EXCEPT !["consumer"] = None]
      BY <1>5 DEF CallPop, producer, ValBar
    <3> QED
      BY <2>1, <3>1, <3>2 DEF Fifo!CallPop, OpBar, ValBar
  <2> QED
    BY <2>1, <2>2
<1>6. CASE PopLoad
  <2>1. UNCHANGED <<Contents, stale>>
    BY <1>6 DEF PopLoad, Contents
  <2>2. CASE cpc' = "pop_read"
    BY <1>6, <2>1, <2>2 DEF PopLoad, producer
  <2>3. CASE cpc' = "idle"
    <3>1. ~ stale => Contents = <<>>
      <4>1. ~ stale => head_ = tail_
        BY <1>6, <2>3 DEF PopLoad, Loads
      <4>2. head_ = tail_ => Minus(tail_, head_) = 0
        BY MinusIs DEF IInv, TypeOK, Counters
      <4> QED
        BY <4>1, <4>2, ContentsSeq
    <3>2. Fifo!PopEmpty("consumer")
      BY <1>6, <2>1, <2>3, <3>1 DEF PopLoad, producer, Fifo!PopEmpty, IInv, ValuesInPlace
    <3> QED
      BY <2>1, <3>2
  <2> QED
    BY <1>6, <2>2, <2>3 DEF PopLoad
<1>7. CASE PopRead
  BY <1>7 DEF PopRead, producer, Contents
<1>8. CASE PopStore
  <2>1. Fifo!PopEffect("consumer")
    <3>1. Contents # <<>> /\ Contents' = Tail(Contents) /\ Head(Contents) = out
      BY <1>8, StoreRemoves
    <3>2. OpBar["consumer"] = "pop" /\ OpBar' = [OpBar EXCEPT !["consumer"] = "none"]
      BY <1>8 DEF PopStore, producer, OpBar
    <3>3. ValBar' = [ValBar EXCEPT !["consumer"] = out]
      BY <1>8 DEF PopStore, producer, ValBar
    <3> QED
      BY <3>1, <3>2, <3>3, Zenon DEF Fifo!PopEffect, OpBar, ValBar
  <2> QED
    BY <1>8, <2>1 DEF PopStore
<1> QED
  BY <1>1, <1>2, <1>3, <1>4, <1>5, <1>6, <1>7, <1>8 DEF Next

(* What is pushed is popped once and in order, by any number of calls on    *)
(* either side, with counters that wrap around: SpscRing is a bounded queue.*)
THEOREM Refinement == Spec => ImplementsBoundedFifo
<1>1. IInv /\ [Next]_vars => [Fifo!Next]_(Fifo!vars)
  <2>1. UNCHANGED vars => UNCHANGED Fifo!vars
    BY DEF vars, Fifo!vars, Contents
  <2> QED
    BY <2>1, NextRefines
<1> QED
  BY <1>1, InitRefines, Inductive, PTL DEF Spec, ImplementsBoundedFifo, Fifo!Spec

=============================================================================
