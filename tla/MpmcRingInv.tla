---------------------------- MODULE MpmcRingInv ----------------------------
(***************************************************************************)
(* The inductive invariant of MpmcRing.tla, for any number of producers    *)
(* and consumers, any values and every width of the counters.  The initial *)
(* states satisfy it, every step of a thread but the two that claim a      *)
(* position preserves it, and it says who may access a slot and when a     *)
(* call may fail.                                                          *)
(***************************************************************************)
EXTENDS MpmcRing, TLAPS

(* How far a position is ahead of the next one to pop, and how many         *)
(* positions are claimed by pushes and not by pops.                         *)
Ahead(p) == Minus(p, dequeue_pos_)
Size == Ahead(enqueue_pos_)

PushOwner(p) == \E t \in Threads : pc[t] \in PushOwns /\ pos[t] = p
PopOwner(p) == \E t \in Threads : pc[t] \in PopOwns /\ pos[t] = p

(* The slot of a position claimed by a push: handed on, or its push still   *)
(* owns it.                                                                 *)
Filled(p) ==
  /\ sequence[Slot(p)] \in {p, Plus(p, 1)}
  /\ sequence[Slot(p)] = p <=> PushOwner(p)

(* The slot of a position that no push has claimed: handed back, or the pop *)
(* of the lap before still owns it.                                         *)
Free(p) ==
  /\ sequence[Slot(p)] \in {p, Plus(Minus(p, Capacity), 1)}
  /\ sequence[Slot(p)] # p <=> PopOwner(Minus(p, Capacity))

SlotsInv ==
  /\ Size <= Capacity
  /\ \A p \in Positions : Ahead(p) < Size => Filled(p)
  /\ \A p \in Positions : Ahead(p) \in Size .. Capacity - 1 => Free(p)

(* Every position is owned once, and only in its turn. *)
OwnersInv ==
  /\ \A t \in Threads : pc[t] \in PushOwns => Ahead(pos[t]) < Size
  /\ \A t \in Threads : pc[t] \in PopOwns =>
       Ahead(Plus(pos[t], Capacity)) \in Size .. Capacity - 1
  /\ \A t, u \in Threads :
       pc[t] \in PushOwns /\ pc[u] \in PushOwns /\ pos[t] = pos[u] => t = u
  /\ \A t, u \in Threads :
       pc[t] \in PopOwns /\ pc[u] \in PopOwns /\ pos[t] = pos[u] => t = u

(* What a compare-and-swap that succeeds relies on: the sequence number     *)
(* read before it is still there.                                           *)
ClaimsInv ==
  /\ \A t \in Threads : pc[t] = "push_cas" /\ enqueue_pos_ = pos[t] =>
       sequence[Slot(pos[t])] = pos[t]
  /\ \A t \in Threads : pc[t] = "pop_cas" /\ dequeue_pos_ = pos[t] =>
       sequence[Slot(pos[t])] = Plus(pos[t], 1)

(* How old a thread's copy of a cursor is. *)
WindowInv ==
  /\ \A t \in Threads : pc[t] \in PushWindow => Minus(enqueue_pos_, pos[t]) <= StaleBound
  /\ \A t \in Threads : pc[t] \in PopWindow => Minus(dequeue_pos_, pos[t]) <= StaleBound

(* Where the values of the queue are. *)
ValuesInv ==
  /\ Len(queue) = Size
  /\ \A t \in Threads :
       pc[t] \in {"push_pos"} \union PushWindow \union PushOwns => val[t] \in Values
  /\ \A t \in Threads : pc[t] \in PushOwns => val[t] = queue[Ahead(pos[t]) + 1]
  /\ \A t \in Threads : pc[t] = "push_store" => slot_value[Slot(pos[t])] = val[t]
  /\ \A p \in Positions : Ahead(p) < Size /\ sequence[Slot(p)] = Plus(p, 1) =>
       slot_value[Slot(p)] = queue[Ahead(p) + 1]

IInv ==
  /\ TypeOK
  /\ SlotsInv
  /\ OwnersInv
  /\ ClaimsInv
  /\ WindowInv
  /\ ValuesInv

-----------------------------------------------------------------------------
(* std::size_t arithmetic without remainders. *)
LEMMA Sizes ==
  /\ Capacity \in Nat /\ Capacity >= 1 /\ Capacity \in Positions
  /\ PosMod \in Nat /\ PosMod >= 4 * Capacity /\ PosMod >= 4
  BY MpmcAssumption DEF Positions

LEMMA MinusIs ==
  \A a, b \in Positions : Minus(b, a) = IF a <= b THEN b - a ELSE b - a + PosMod
<1> SUFFICES ASSUME NEW a \in Positions, NEW b \in Positions
             PROVE  Minus(b, a) = IF a <= b THEN b - a ELSE b - a + PosMod
  BY Zenon
<1>1. CASE a <= b
  BY <1>1, Sizes DEF Positions, Minus
<1>2. CASE b < a
  BY <1>2, Sizes DEF Positions, Minus
<1> QED
  BY <1>1, <1>2, Sizes DEF Positions

LEMMA PlusIs ==
  \A a, n \in Positions : Plus(a, n) = IF a + n < PosMod THEN a + n ELSE a + n - PosMod
<1> SUFFICES ASSUME NEW a \in Positions, NEW n \in Positions
             PROVE  Plus(a, n) = IF a + n < PosMod THEN a + n ELSE a + n - PosMod
  BY Zenon
<1>1. CASE a + n < PosMod
  BY <1>1, Sizes DEF Positions, Plus
<1>2. CASE a + n >= PosMod
  BY <1>2, Sizes DEF Positions, Plus
<1> QED
  BY <1>1, <1>2, Sizes DEF Positions

LEMMA PositionTypes ==
  \A a, b \in Positions : Plus(a, b) \in Positions /\ Minus(a, b) \in Positions
<1> SUFFICES ASSUME NEW a \in Positions, NEW b \in Positions
             PROVE  Plus(a, b) \in Positions /\ Minus(a, b) \in Positions
  BY Zenon
<1>1. Plus(a, b) \in Positions
  BY Sizes, PlusIs DEF Positions
<1>2. Minus(a, b) \in Positions
  BY Sizes, MinusIs DEF Positions
<1> QED
  BY <1>1, <1>2, Zenon

LEMMA PositionsNat == \A p \in Positions : p \in Nat
  BY Sizes DEF Positions

LEMMA OneIsPosition == 0 \in Positions /\ 1 \in Positions
  BY Sizes DEF Positions

(* One position further on, either way. *)
LEMMA MinusNext ==
  \A p, d \in Positions :
    Minus(p, Plus(d, 1)) = IF p = d THEN PosMod - 1 ELSE Minus(p, d) - 1
  BY Sizes, OneIsPosition, PlusIs, MinusIs DEF Positions

LEMMA NextMinus ==
  \A p, d \in Positions :
    Minus(Plus(p, 1), d) = IF Minus(p, d) = PosMod - 1 THEN 0 ELSE Minus(p, d) + 1
<1> SUFFICES ASSUME NEW p \in Positions, NEW d \in Positions
             PROVE  Minus(Plus(p, 1), d) = IF Minus(p, d) = PosMod - 1 THEN 0
                                           ELSE Minus(p, d) + 1
  BY Zenon
<1> DEFINE n == Plus(p, 1)
<1>1. n \in Positions /\ n = IF p + 1 < PosMod THEN p + 1 ELSE p + 1 - PosMod
  BY OneIsPosition, PlusIs, PositionTypes, Zenon
<1> HIDE DEF n
<1>2. Minus(n, d) = IF d <= n THEN n - d ELSE n - d + PosMod
  BY <1>1, MinusIs, Zenon
<1>3. Minus(p, d) = IF d <= p THEN p - d ELSE p - d + PosMod
  BY MinusIs, Zenon
<1> QED
  BY <1>1, <1>2, <1>3, Sizes DEF Positions, n

LEMMA SameMinus ==
  \A p, q, d \in Positions : Minus(p, d) = Minus(q, d) => p = q
  BY Sizes, MinusIs DEF Positions

LEMMA MinusZero ==
  \A p, d \in Positions : Minus(p, d) = 0 <=> p = d
  BY Sizes, MinusIs DEF Positions

LEMMA MinusPlus ==
  \A d, k \in Positions : Minus(Plus(d, k), d) = k
  BY Sizes, PlusIs, MinusIs DEF Positions

LEMMA PlusMinus ==
  \A p, k \in Positions : Minus(Plus(p, k), k) = p /\ Plus(Minus(p, k), k) = p
  BY Sizes, PlusIs, MinusIs DEF Positions

(* Positions that differ by what they should. *)
LEMMA PlusDiffers ==
  \A p, j, k \in Positions : j # k => Plus(p, j) # Plus(p, k)
  BY MinusPlus, Zenon

LEMMA NextDiffers ==
  \A p \in Positions :
    /\ Plus(p, 1) # p /\ Plus(p, Capacity) # p
    /\ Capacity > 1 => Plus(p, Capacity) # Plus(p, 1)
    /\ Plus(p, 1) # Plus(Minus(p, Capacity), 1)
<1> SUFFICES ASSUME NEW p \in Positions
             PROVE  /\ Plus(p, 1) # p /\ Plus(p, Capacity) # p
                    /\ Capacity > 1 => Plus(p, Capacity) # Plus(p, 1)
                    /\ Plus(p, 1) # Plus(Minus(p, Capacity), 1)
  BY Zenon
<1>1. Plus(p, 1) # p
  BY OneIsPosition, PlusIs, Sizes DEF Positions
<1>2. Plus(p, Capacity) # p
  BY PlusIs, Sizes DEF Positions
<1>3. Capacity > 1 => Plus(p, Capacity) # Plus(p, 1)
  BY OneIsPosition, PlusDiffers, Sizes
<1>4. Minus(p, Capacity) \in Positions /\ Minus(p, Capacity) # p
  <2>1. Minus(p, Capacity) \in Positions
    BY PositionTypes, Sizes, Zenon
  <2> QED
    BY <1>2, <2>1, PlusMinus, Sizes, Zenon
<1>5. Plus(p, 1) # Plus(Minus(p, Capacity), 1)
  BY <1>4, OneIsPosition, PlusMinus
<1> QED
  BY <1>1, <1>2, <1>3, <1>5, Zenon

(* Slots.  The counters wrap around where the slots do. *)
LEMMA Division ==
  \A x \in Nat :
    /\ x \div Capacity \in Nat
    /\ Slot(x) \in Slots
    /\ x = (x \div Capacity) * Capacity + Slot(x)
<1> SUFFICES ASSUME NEW x \in Nat
             PROVE  /\ x \div Capacity \in Nat
                    /\ Slot(x) \in Slots
                    /\ x = (x \div Capacity) * Capacity + Slot(x)
  BY Zenon
<1>1. x \div Capacity \in Nat
  BY Sizes
<1>2. Slot(x) \in Slots
  BY Sizes DEF Slot, Slots
<1>3. x = (x \div Capacity) * Capacity + Slot(x)
  BY Sizes DEF Slot
<1> QED
  BY <1>1, <1>2, <1>3, Zenon

LEMMA SlotOf ==
  \A q \in Nat, r \in Slots : Slot(q * Capacity + r) = r
  BY Sizes DEF Slot, Slots

LEMMA SlotAdds ==
  \A x, m \in Nat : Slot(x + m * Capacity) = Slot(x)
<1> SUFFICES ASSUME NEW x \in Nat, NEW m \in Nat
             PROVE  Slot(x + m * Capacity) = Slot(x)
  BY Zenon
<1> DEFINE q == x \div Capacity
<1>1. q \in Nat /\ Slot(x) \in Slots /\ x = q * Capacity + Slot(x)
  BY Division, Zenon
<1> HIDE DEF q
<1>2. x + m * Capacity = (q + m) * Capacity + Slot(x)
  BY <1>1, Sizes DEF Slots
<1> QED
  BY <1>1, <1>2, SlotOf

LEMMA SlotWraps ==
  \A x \in Nat : Slot(x + PosMod) = Slot(x) /\ Slot(x + Capacity) = Slot(x)
<1> DEFINE m == PosMod \div Capacity
<1>1. m \in Nat /\ PosMod = m * Capacity
  <2>1. m \in Nat /\ PosMod = m * Capacity + Slot(PosMod)
    BY Division, Sizes, Zenon
  <2>2. Slot(PosMod) = 0
    BY MpmcAssumption, Zenon DEF Slot
  <2> HIDE DEF m
  <2> QED
    BY <2>1, <2>2, Sizes
<1> HIDE DEF m
<1>2. Capacity = 1 * Capacity
  BY Sizes
<1> QED
  BY <1>1, <1>2, SlotAdds

(* Positions with the same slot are a lap apart, or more. *)
LEMMA SlotsDiffer ==
  \A x \in Nat, d \in 1 .. Capacity - 1 : Slot(x + d) # Slot(x)
<1> SUFFICES ASSUME NEW x \in Nat, NEW d \in 1 .. Capacity - 1, Slot(x + d) = Slot(x)
             PROVE  FALSE
  BY Zenon
<1> DEFINE q == x \div Capacity
           p == (x + d) \div Capacity
<1>1. q \in Nat /\ Slot(x) \in Slots /\ x = q * Capacity + Slot(x)
  BY Division, Zenon
<1>2. p \in Nat /\ x + d = p * Capacity + Slot(x + d)
  BY Division, Sizes
<1> HIDE DEF q, p
<1>3. p * Capacity = q * Capacity + d
  BY <1>1, <1>2, Sizes DEF Slots
<1>4. CASE p <= q
  <2>1. p * Capacity <= q * Capacity
    BY <1>1, <1>2, <1>4, Sizes
  <2> QED
    BY <2>1, <1>1, <1>2, <1>3, Sizes
<1>5. CASE q + 1 <= p
  <2>1. (q + 1) * Capacity <= p * Capacity
    BY <1>1, <1>2, <1>5, Sizes
  <2>2. (q + 1) * Capacity = q * Capacity + Capacity
    BY <1>1, Sizes
  <2> QED
    BY <2>1, <2>2, <1>1, <1>2, <1>3, Sizes
<1> QED
  BY <1>1, <1>2, <1>4, <1>5

LEMMA SlotTypes == \A p \in Positions : Slot(p) \in Slots
  BY Division, Sizes DEF Positions

LEMMA SlotLap ==
  \A p \in Positions : Slot(Plus(p, Capacity)) = Slot(p) /\ Slot(Minus(p, Capacity)) = Slot(p)
<1>1. \A p \in Positions : Slot(Plus(p, Capacity)) = Slot(p)
  <2> SUFFICES ASSUME NEW p \in Positions PROVE Slot(Plus(p, Capacity)) = Slot(p)
    BY Zenon
  <2> DEFINE q == Plus(p, Capacity)
  <2>1. q \in Nat /\ p \in Nat /\ (p + Capacity = q \/ p + Capacity = q + PosMod)
    BY Sizes, PlusIs, PositionTypes DEF Positions
  <2> HIDE DEF q
  <2> QED
    BY <2>1, SlotWraps, Zenon DEF q
<1>2. \A p \in Positions : Slot(Minus(p, Capacity)) = Slot(p)
  BY <1>1, Sizes, PositionTypes, PlusMinus, Zenon
<1> QED
  BY <1>1, <1>2, Zenon

LEMMA SlotsApart ==
  \A p, q \in Positions : Slot(p) = Slot(q) /\ p # q => Minus(p, q) >= Capacity
<1> SUFFICES ASSUME NEW p \in Positions, NEW q \in Positions, Slot(p) = Slot(q), p # q,
                    Minus(p, q) < Capacity
             PROVE  FALSE
  BY Sizes, PositionTypes DEF Positions
<1> DEFINE d == Minus(p, q)
<1>1. d \in 1 .. Capacity - 1
  <2>1. d \in 0 .. PosMod - 1
    BY PositionTypes, Zenon DEF Positions
  <2>2. d # 0
    BY MinusZero, Zenon
  <2> QED
    BY <2>1, <2>2, Sizes
<1>2. p \in Nat /\ q \in Nat /\ (q + d = p \/ q + d = p + PosMod)
  BY Sizes, MinusIs DEF Positions
<1> HIDE DEF d
<1>3. Slot(q + d) = Slot(q)
  BY <1>2, SlotWraps, Zenon
<1> QED
  BY <1>1, <1>2, <1>3, SlotsDiffer, Zenon

LEMMA OneSlotEach ==
  \A p, q, d \in Positions :
    Minus(p, d) < Capacity /\ Minus(q, d) < Capacity /\ Slot(p) = Slot(q) => p = q
<1> SUFFICES ASSUME NEW p \in Positions, NEW q \in Positions, NEW d \in Positions,
                    Minus(p, d) < Capacity, Minus(q, d) < Capacity, Slot(p) = Slot(q),
                    p # q
             PROVE  FALSE
  BY Zenon
<1>1. Minus(p, q) >= Capacity /\ Minus(q, p) >= Capacity
  BY SlotsApart, Zenon
<1>2. /\ Minus(p, q) = IF q <= p THEN p - q ELSE p - q + PosMod
      /\ Minus(q, p) = IF p <= q THEN q - p ELSE q - p + PosMod
      /\ Minus(p, d) = IF d <= p THEN p - d ELSE p - d + PosMod
      /\ Minus(q, d) = IF d <= q THEN q - d ELSE q - d + PosMod
  BY MinusIs, Zenon
<1> QED
  BY <1>1, <1>2, Sizes DEF Positions

(* The signed difference of two counters is zero only if they are equal. *)
LEMMA Halves == PosMod \div 2 \in Nat /\ 2 * (PosMod \div 2) = PosMod
  BY MpmcAssumption

LEMMA SignedZero ==
  \A a, b \in Positions : 0 \in Diffs(a, b) => a = b
<1> SUFFICES ASSUME NEW a \in Positions, NEW b \in Positions, 0 \in Diffs(a, b)
             PROVE  a = b
  BY Zenon
<1>1. a \in Int /\ b \in Int /\ 0 <= a /\ a < PosMod /\ 0 <= b /\ b < PosMod
  BY Sizes DEF Positions
<1>2. CASE Signed(a) - Signed(b) = 0
  BY <1>1, <1>2, Sizes, Halves DEF Signed
<1>3. CASE Signed(Minus(a, b)) = 0
  <2>1. Minus(a, b) \in 0 .. PosMod - 1
    BY PositionTypes, Zenon DEF Positions
  <2>2. Minus(a, b) = 0
    BY <1>3, <2>1, Sizes, Halves DEF Signed
  <2> QED
    BY <2>2, MinusZero, Zenon
<1> QED
  BY <1>2, <1>3, Zenon DEF Diffs

-----------------------------------------------------------------------------
(* What a step of t leaves alone. *)
Alone(t) ==
  \A u \in Threads \ {t} : pc'[u] = pc[u] /\ pos'[u] = pos[u] /\ val'[u] = val[u]

LEMMA Types ==
  ASSUME TypeOK
  PROVE  /\ enqueue_pos_ \in Positions /\ dequeue_pos_ \in Positions
         /\ Size \in Positions /\ StaleBound \in Nat
         /\ \A t \in Threads : pos[t] \in Positions /\ Slot(pos[t]) \in Slots
         /\ \A p \in Positions : Ahead(p) \in Positions /\ sequence[Slot(p)] \in Positions
<1>1. enqueue_pos_ \in Positions /\ dequeue_pos_ \in Positions
  BY Zenon DEF TypeOK
<1>2. Size \in Positions /\ \A p \in Positions : Ahead(p) \in Positions
  BY <1>1, PositionTypes, Zenon DEF Size, Ahead
<1>3. StaleBound \in Nat
  BY Sizes, Halves DEF StaleBound
<1>4. \A t \in Threads : pos[t] \in Positions /\ Slot(pos[t]) \in Slots
  BY SlotTypes, Zenon DEF TypeOK
<1>5. \A p \in Positions : sequence[Slot(p)] \in Positions
  BY SlotTypes, Zenon DEF TypeOK
<1> QED
  BY <1>1, <1>2, <1>3, <1>4, <1>5, Zenon

LEMMA InitIInv == Init => IInv
<1> SUFFICES ASSUME Init PROVE IInv
  BY Zenon
<1>1. 0 \in Positions /\ Slots \subseteq Positions
  BY Sizes DEF Positions, Slots
<1>2. TypeOK
  BY <1>1 DEF Init, TypeOK, PushWindow, PopWindow, PushOwns, PopOwns
<1>3. Size = 0 /\ \A p \in Positions : Ahead(p) = p
  BY <1>1, MinusIs, Sizes DEF Init, Size, Ahead, Positions
<1>4. \A t \in Threads : pc[t] = "idle"
  BY Zenon DEF Init
<1>5. SlotsInv
  <2>1. ASSUME NEW p \in Positions, Ahead(p) \in Size .. Capacity - 1
        PROVE  Free(p)
    <3>1. p \in Slots /\ p = 0 * Capacity + p
      BY <1>3, <2>1, Sizes DEF Slots, Positions
    <3>2. Slot(p) = p
      BY <3>1, SlotOf, Zenon
    <3>3. sequence[Slot(p)] = p
      BY <3>1, <3>2, Zenon DEF Init
    <3> QED
      BY <1>4, <3>3, Zenon DEF Free, PopOwner, PopOwns
  <2> QED
    BY <1>3, <2>1, Sizes DEF SlotsInv, Positions
<1>6. OwnersInv /\ ClaimsInv /\ WindowInv
  BY <1>4, Zenon DEF OwnersInv, ClaimsInv, WindowInv, PushOwns, PopOwns, PushWindow, PopWindow
<1>7. ValuesInv
  BY <1>3, <1>4 DEF Init, ValuesInv, PushOwns, PushWindow, Positions
<1> QED
  BY <1>2, <1>5, <1>6, <1>7, Zenon DEF IInv

(* The steps before a position is claimed change nothing that is shared. *)
LEMMA LocalStep ==
  ASSUME IInv, NEW t \in Threads, TypeOK', Alone(t),
         UNCHANGED <<enqueue_pos_, dequeue_pos_, sequence, slot_value, queue>>,
         pc[t] \notin PushOwns \union PopOwns, pc'[t] \notin PushOwns \union PopOwns,
         pc'[t] \in {"push_pos"} \union PushWindow => val'[t] \in Values,
         pc'[t] = "push_cas" => sequence[Slot(pos'[t])] = pos'[t],
         pc'[t] = "pop_cas" => sequence[Slot(pos'[t])] = Plus(pos'[t], 1),
         pc'[t] \in PushWindow => Minus(enqueue_pos_, pos'[t]) <= StaleBound,
         pc'[t] \in PopWindow => Minus(dequeue_pos_, pos'[t]) <= StaleBound
  PROVE  IInv'
<1>1. \A p : (PushOwner(p)' <=> PushOwner(p)) /\ (PopOwner(p)' <=> PopOwner(p))
  BY Zenon DEF PushOwner, PopOwner, Alone
<1>2. Size' = Size /\ \A p : Ahead(p)' = Ahead(p)
  BY Zenon DEF Size, Ahead
<1>3. SlotsInv'
  <2>1. \A p : (Filled(p)' <=> Filled(p)) /\ (Free(p)' <=> Free(p))
    BY <1>1, Zenon DEF Filled, Free
  <2> QED
    BY <1>2, <2>1, Zenon DEF IInv, SlotsInv
<1>4. OwnersInv'
  <2>1. \A u \in Threads : pc'[u] \in PushOwns \union PopOwns =>
          pc'[u] = pc[u] /\ pos'[u] = pos[u]
    BY Zenon DEF Alone
  <2> QED
    BY <1>2, <2>1, Zenon DEF IInv, OwnersInv
<1>5. ClaimsInv'
  BY Zenon DEF IInv, ClaimsInv, Alone
<1>6. WindowInv'
  BY Zenon DEF IInv, WindowInv, Alone, StaleBound
<1>7. ValuesInv'
  <2>1. \A u \in Threads : pc'[u] \in PushOwns =>
          pc'[u] = pc[u] /\ pos'[u] = pos[u] /\ val'[u] = val[u]
    BY Zenon DEF Alone
  <2>2. \A u \in Threads : pc'[u] \in {"push_pos"} \union PushWindow \union PushOwns =>
          val'[u] \in Values
    BY <2>1, Zenon DEF IInv, ValuesInv, Alone
  <2>3. \A u \in Threads : pc'[u] = "push_store" => slot_value[Slot(pos'[u])] = val'[u]
    BY <2>1, Zenon DEF IInv, ValuesInv, PushOwns
  <2> QED
    BY <1>2, <2>1, <2>2, <2>3, Zenon DEF IInv, ValuesInv
<1> QED
  BY <1>3, <1>4, <1>5, <1>6, <1>7, Zenon DEF IInv

(* The labels are different words. *)
LEMMA Idle ==
  /\ "idle" \notin PushOwns \union PopOwns \union PushWindow \union PopWindow
  /\ {"push_pos", "pop_pos"} \intersect (PushOwns \union PopOwns \union PushWindow \union PopWindow) = {}
  /\ (PushWindow \union PopWindow) \intersect (PushOwns \union PopOwns) = {}
  /\ PushWindow \intersect PopWindow = {} /\ PushOwns \intersect PopOwns = {}
  BY Zenon DEF PushOwns, PopOwns, PushWindow, PopWindow

LEMMA Fresh ==
  ASSUME TypeOK
  PROVE  /\ Minus(enqueue_pos_, enqueue_pos_) <= StaleBound
         /\ Minus(dequeue_pos_, dequeue_pos_) <= StaleBound
  BY Types, MinusZero

LEMMA CallPushStep ==
  ASSUME IInv, NEW t \in Threads, NEW v \in Values, CallPush(t, v)
  PROVE  IInv'
<1> USE DEF CallPush, Goto
<1>1. TypeOK'
  BY Zenon DEF IInv, TypeOK
<1>2. Alone(t) /\ pc'[t] = "push_pos" /\ val'[t] = v
  BY Zenon DEF IInv, TypeOK, Alone
<1>3. pc[t] \notin PushOwns \union PopOwns
  BY Idle, Zenon
<1> QED
  BY <1>1, <1>2, <1>3, Idle, LocalStep, Zenon

LEMMA PushLoadStep ==
  ASSUME IInv, NEW t \in Threads, PushPos(t) \/ PushRetry(t)
  PROVE  IInv'
<1> USE DEF PushPos, PushRetry, Goto
<1>1. TypeOK'
  BY Zenon DEF IInv, TypeOK, PushWindow
<1>2. Alone(t) /\ pc'[t] = "push_seq" /\ pos'[t] = enqueue_pos_ /\ val'[t] = val[t]
  BY Zenon DEF IInv, TypeOK, Alone
<1>3. pc[t] \in {"push_pos"} \union PushWindow
  BY Zenon DEF PushWindow
<1>4. pc[t] \notin PushOwns \union PopOwns /\ pc'[t] \notin PushOwns \union PopOwns
  BY <1>2, Zenon DEF PushOwns, PopOwns
<1>5. val[t] \in Values
  BY <1>3, Zenon DEF IInv, ValuesInv
<1>6. pc'[t] \in PushWindow /\ pc'[t] \notin PopWindow /\ pc'[t] # "push_cas" /\ pc'[t] # "pop_cas"
  BY <1>2, Zenon DEF PushWindow, PopWindow
<1>7. Minus(enqueue_pos_, pos'[t]) <= StaleBound
  BY <1>2, Fresh, Zenon DEF IInv
<1> QED
  BY <1>1, <1>2, <1>4, <1>5, <1>6, <1>7, LocalStep, Zenon

LEMMA PushSeqStep ==
  ASSUME IInv, NEW t \in Threads, PushSeq(t)
  PROVE  IInv'
<1> USE DEF PushSeq, Goto, Return
<1>1. TypeOK'
  BY OneIsPosition, Zenon DEF IInv, TypeOK, PushWindow
<1>2. Alone(t)
  BY Zenon DEF IInv, TypeOK, Alone
<1>3. pc[t] \in PushWindow /\ pc[t] \notin PushOwns \union PopOwns
  BY Zenon DEF PushWindow, PushOwns, PopOwns
<1>4. val[t] \in Values /\ Minus(enqueue_pos_, pos[t]) <= StaleBound
  BY <1>3, Zenon DEF IInv, ValuesInv, WindowInv
<1>5. /\ pc'[t] \notin PushOwns \union PopOwns \union PopWindow /\ pc'[t] # "pop_cas"
      /\ pc'[t] = "idle" \/ (pos'[t] = pos[t] /\ val'[t] = val[t])
  BY Zenon DEF IInv, TypeOK, PushOwns, PopOwns, PopWindow
<1>6. pc'[t] = "push_cas" => sequence[Slot(pos'[t])] = pos'[t]
  <2> SUFFICES ASSUME pc'[t] = "push_cas"
               PROVE  sequence[Slot(pos[t])] = pos[t] /\ pos'[t] = pos[t]
    BY Zenon
  <2>1. 0 \in Diffs(sequence[Slot(pos[t])], pos[t])
    BY Zenon DEF IInv, TypeOK
  <2>2. sequence[Slot(pos[t])] \in Positions /\ pos[t] \in Positions
    BY Types, Zenon DEF IInv
  <2> QED
    BY <1>5, <2>1, <2>2, SignedZero, Zenon
<1>7. pc'[t] \in {"push_pos"} \union PushWindow => val'[t] \in Values
  BY <1>4, <1>5, Idle, Zenon
<1>8. pc'[t] \in PushWindow => Minus(enqueue_pos_, pos'[t]) <= StaleBound
  BY <1>4, <1>5, Idle, Zenon
<1> QED
  BY <1>1, <1>2, <1>3, <1>5, <1>6, <1>7, <1>8, LocalStep, Zenon

LEMMA CallPopStep ==
  ASSUME IInv, NEW t \in Threads, CallPop(t)
  PROVE  IInv'
<1> USE DEF CallPop, Goto
<1>1. TypeOK'
  BY Zenon DEF IInv, TypeOK
<1>2. Alone(t) /\ pc'[t] = "pop_pos"
  BY Zenon DEF IInv, TypeOK, Alone
<1>3. pc[t] \notin PushOwns \union PopOwns
  BY Idle, Zenon
<1> QED
  BY <1>1, <1>2, <1>3, Idle, LocalStep, Zenon

LEMMA PopLoadStep ==
  ASSUME IInv, NEW t \in Threads, PopPos(t) \/ PopRetry(t)
  PROVE  IInv'
<1> USE DEF PopPos, PopRetry, Goto
<1>1. TypeOK'
  BY Zenon DEF IInv, TypeOK, PopWindow
<1>2. Alone(t) /\ pc'[t] = "pop_seq" /\ pos'[t] = dequeue_pos_
  BY Zenon DEF IInv, TypeOK, Alone
<1>3. pc[t] \notin PushOwns \union PopOwns /\ pc'[t] \notin PushOwns \union PopOwns
  BY <1>2, Zenon DEF PushOwns, PopOwns
<1>4. pc'[t] \notin {"push_pos"} \union PushWindow /\ pc'[t] # "push_cas" /\ pc'[t] # "pop_cas"
  BY <1>2, Zenon DEF PushWindow
<1>5. Minus(dequeue_pos_, pos'[t]) <= StaleBound
  BY <1>2, Fresh, Zenon DEF IInv
<1> QED
  BY <1>1, <1>2, <1>3, <1>4, <1>5, LocalStep, Zenon

LEMMA PopSeqStep ==
  ASSUME IInv, NEW t \in Threads, PopSeq(t)
  PROVE  IInv'
<1> USE DEF PopSeq, Goto, Return
<1>1. TypeOK'
  BY OneIsPosition, Zenon DEF IInv, TypeOK, PopWindow
<1>2. Alone(t)
  BY Zenon DEF IInv, TypeOK, Alone
<1>3. pc[t] \in PopWindow /\ pc[t] \notin PushOwns \union PopOwns
  BY Zenon DEF PopWindow, PushOwns, PopOwns
<1>4. Minus(dequeue_pos_, pos[t]) <= StaleBound
  BY <1>3, Zenon DEF IInv, WindowInv
<1>5. /\ pc'[t] \notin {"push_pos"} \union PushOwns \union PopOwns \union PushWindow
      /\ pc'[t] # "push_cas"
      /\ pc'[t] = "idle" \/ pos'[t] = pos[t]
  BY Zenon DEF IInv, TypeOK, PushOwns, PopOwns, PushWindow
<1>6. pc'[t] = "pop_cas" => sequence[Slot(pos'[t])] = Plus(pos'[t], 1)
  <2> SUFFICES ASSUME pc'[t] = "pop_cas"
               PROVE  sequence[Slot(pos[t])] = Plus(pos[t], 1) /\ pos'[t] = pos[t]
    BY Zenon
  <2>1. 0 \in Diffs(sequence[Slot(pos[t])], Plus(pos[t], 1))
    BY Zenon DEF IInv, TypeOK
  <2>2. sequence[Slot(pos[t])] \in Positions /\ Plus(pos[t], 1) \in Positions
    BY Types, PositionTypes, OneIsPosition, Zenon DEF IInv
  <2> QED
    BY <1>5, <2>1, <2>2, SignedZero, Zenon
<1>7. pc'[t] \in PopWindow => Minus(dequeue_pos_, pos'[t]) <= StaleBound
  BY <1>4, <1>5, Idle, Zenon
<1> QED
  BY <1>1, <1>2, <1>3, <1>5, <1>6, <1>7, LocalStep, Zenon

-----------------------------------------------------------------------------
(* An owner's slot is that of no other position of the lap. *)
LEMMA PushOwnerSlot ==
  ASSUME IInv, NEW t \in Threads, pc[t] \in PushOwns
  PROVE  /\ pos[t] \in Positions /\ Ahead(pos[t]) < Size /\ Ahead(pos[t]) < Capacity
         /\ sequence[Slot(pos[t])] = pos[t]
         /\ \A q \in Positions : Ahead(q) < Capacity /\ q # pos[t] => Slot(q) # Slot(pos[t])
<1>1. pos[t] \in Positions /\ dequeue_pos_ \in Positions /\ Size \in Positions
  BY Types, Zenon DEF IInv
<1>2. Ahead(pos[t]) < Size /\ Size <= Capacity /\ Ahead(pos[t]) \in Positions
  BY Types, Zenon DEF IInv, OwnersInv, SlotsInv
<1>3. Ahead(pos[t]) < Capacity
  BY <1>1, <1>2, Sizes DEF Positions
<1>4. sequence[Slot(pos[t])] = pos[t]
  BY <1>1, <1>2, Zenon DEF IInv, SlotsInv, Filled, PushOwner
<1>5. \A q \in Positions : Ahead(q) < Capacity /\ q # pos[t] => Slot(q) # Slot(pos[t])
  BY <1>1, <1>3, OneSlotEach, Zenon DEF Ahead
<1> QED
  BY <1>1, <1>2, <1>3, <1>4, <1>5, Zenon

LEMMA PopOwnerSlot ==
  ASSUME IInv, NEW t \in Threads, pc[t] \in PopOwns
  PROVE  LET next == Plus(pos[t], Capacity) IN
         /\ pos[t] \in Positions /\ next \in Positions
         /\ Ahead(next) \in Size .. Capacity - 1
         /\ Minus(next, Capacity) = pos[t] /\ Slot(next) = Slot(pos[t])
         /\ sequence[Slot(next)] = Plus(pos[t], 1)
         /\ \A q \in Positions : Ahead(q) < Capacity /\ q # next => Slot(q) # Slot(pos[t])
<1> DEFINE next == Plus(pos[t], Capacity)
<1>1. pos[t] \in Positions /\ dequeue_pos_ \in Positions /\ Size \in Positions
  BY Types, Zenon DEF IInv
<1>2. next \in Positions /\ Minus(next, Capacity) = pos[t] /\ Slot(next) = Slot(pos[t])
  BY <1>1, Sizes, PositionTypes, PlusMinus, SlotLap, Zenon
<1>3. Ahead(next) \in Size .. Capacity - 1
  BY Zenon DEF IInv, OwnersInv
<1> HIDE DEF next
<1>4. Ahead(next) < Capacity
  BY <1>1, <1>3, Sizes DEF Positions
<1>5. sequence[Slot(next)] = Plus(pos[t], 1)
  <2>1. Free(next) /\ PopOwner(Minus(next, Capacity))
    BY <1>2, <1>3, Zenon DEF IInv, SlotsInv, PopOwner
  <2> QED
    BY <1>2, <2>1, Zenon DEF Free
<1>6. \A q \in Positions : Ahead(q) < Capacity /\ q # next => Slot(q) # Slot(pos[t])
  BY <1>1, <1>2, <1>4, OneSlotEach, Zenon DEF Ahead
<1> QED
  BY <1>1, <1>2, <1>3, <1>5, <1>6, Zenon DEF next

(* The slot's value is written or read by its owner. *)
LEMMA OwnerStep ==
  ASSUME IInv, NEW t \in Threads, TypeOK', Alone(t), ValuesInv',
         UNCHANGED <<enqueue_pos_, dequeue_pos_, sequence, pos>>,
         \/ pc[t] \in PushOwns /\ pc'[t] \in PushOwns
         \/ pc[t] \in PopOwns /\ pc'[t] \in PopOwns
  PROVE  IInv'
<1>1. /\ pc[t] \in PushOwns <=> pc'[t] \in PushOwns
      /\ pc[t] \in PopOwns <=> pc'[t] \in PopOwns
      /\ pc'[t] \notin PushWindow \union PopWindow /\ pc'[t] # "push_cas" /\ pc'[t] # "pop_cas"
  BY Zenon DEF PushOwns, PopOwns, PushWindow, PopWindow
<1>2. \A u \in Threads : /\ pc[u] \in PushOwns <=> pc'[u] \in PushOwns
                         /\ pc[u] \in PopOwns <=> pc'[u] \in PopOwns
  BY <1>1, Zenon DEF Alone
<1>3. \A p : (PushOwner(p)' <=> PushOwner(p)) /\ (PopOwner(p)' <=> PopOwner(p))
  BY <1>2, Zenon DEF PushOwner, PopOwner
<1>4. Size' = Size /\ \A p : Ahead(p)' = Ahead(p)
  BY Zenon DEF Size, Ahead
<1>5. SlotsInv'
  <2>1. \A p : (Filled(p)' <=> Filled(p)) /\ (Free(p)' <=> Free(p))
    BY <1>3, Zenon DEF Filled, Free
  <2> QED
    BY <1>4, <2>1, Zenon DEF IInv, SlotsInv
<1>6. OwnersInv'
  BY <1>2, <1>4, Zenon DEF IInv, OwnersInv
<1>7. ClaimsInv'
  BY <1>1, Zenon DEF IInv, ClaimsInv, Alone
<1>8. WindowInv'
  BY <1>1, Zenon DEF IInv, WindowInv, Alone, StaleBound
<1> QED
  BY <1>5, <1>6, <1>7, <1>8, Zenon DEF IInv

LEMMA PushWriteStep ==
  ASSUME IInv, NEW t \in Threads, PushWrite(t)
  PROVE  IInv'
<1> USE DEF PushWrite, Goto
<1>1. pc[t] \in PushOwns /\ pc'[t] = "push_store" /\ pc'[t] \in PushOwns /\ Alone(t)
  BY Zenon DEF IInv, TypeOK, PushOwns, Alone
<1>2. TypeOK'
  BY Zenon DEF IInv, TypeOK, PushOwns
<1>3. Slot(pos[t]) \in Slots
  BY Types, Zenon DEF IInv
<1>4. /\ slot_value'[Slot(pos[t])] = val[t]
      /\ \A s \in Slots : s # Slot(pos[t]) => slot_value'[s] = slot_value[s]
  BY <1>3, Zenon DEF IInv, TypeOK
<1>5. Size' = Size /\ \A p : Ahead(p)' = Ahead(p)
  BY Zenon DEF Size, Ahead
<1>6. ValuesInv'
  <2>1. \A u \in Threads :
          pc'[u] \in {"push_pos"} \union PushWindow \union PushOwns => val'[u] \in Values
    BY <1>1, Zenon DEF IInv, ValuesInv, Alone
  <2>2. \A u \in Threads : pc'[u] \in PushOwns => val'[u] = queue[Ahead(pos[u]) + 1]
    BY <1>1, Zenon DEF IInv, ValuesInv, Alone
  <2>3. ASSUME NEW u \in Threads, pc'[u] = "push_store"
        PROVE  slot_value'[Slot(pos[u])] = val[u]
    <3>1. CASE u = t
      BY <1>4, <3>1, Zenon
    <3>2. CASE u # t
      <4>1. pc[u] = "push_store" /\ pc[u] \in PushOwns
        BY <2>3, <3>2, Zenon DEF Alone, PushOwns, IInv, TypeOK
      <4>2. pos[u] # pos[t]
        BY <1>1, <3>2, <4>1, Zenon DEF IInv, OwnersInv
      <4>3. Slot(pos[u]) # Slot(pos[t]) /\ Slot(pos[u]) \in Slots
        BY <1>1, <4>1, <4>2, PushOwnerSlot, Types, Zenon DEF IInv
      <4> QED
        BY <1>4, <4>1, <4>3, Zenon DEF IInv, ValuesInv
    <3> QED
      BY <3>1, <3>2, Zenon
  <2>4. ASSUME NEW p \in Positions, Ahead(p) < Size, sequence[Slot(p)] = Plus(p, 1)
        PROVE  slot_value'[Slot(p)] = queue[Ahead(p) + 1]
    <3>1. p # pos[t]
      <4>1. Plus(p, 1) # p
        BY NextDiffers, Zenon
      <4> QED
        BY <1>1, <2>4, <4>1, PushOwnerSlot, Zenon
    <3>2. Ahead(p) < Capacity
      BY <2>4, Types, Sizes DEF IInv, SlotsInv, Positions
    <3>3. Slot(p) # Slot(pos[t]) /\ Slot(p) \in Slots
      BY <1>1, <3>1, <3>2, PushOwnerSlot, SlotTypes, Zenon
    <3> QED
      BY <1>4, <2>4, <3>3, Zenon DEF IInv, ValuesInv
  <2> QED
    BY <1>5, <2>1, <2>2, <2>3, <2>4, Zenon DEF IInv, ValuesInv
<1>7. UNCHANGED <<enqueue_pos_, dequeue_pos_, sequence, pos>>
  BY Zenon
<1> HIDE DEF PushWrite, Goto
<1> QED
  BY <1>1, <1>2, <1>6, <1>7, OwnerStep, Zenon

LEMMA PopReadStep ==
  ASSUME IInv, NEW t \in Threads, PopRead(t)
  PROVE  IInv'
<1> USE DEF PopRead, Goto
<1>1. pc[t] \in PopOwns /\ pc'[t] \in PopOwns /\ Alone(t)
  BY Zenon DEF IInv, TypeOK, PopOwns, Alone
<1>2. TypeOK'
  BY Types, Zenon DEF IInv, TypeOK, PopOwns
<1>3. Size' = Size /\ \A p : Ahead(p)' = Ahead(p)
  BY Zenon DEF Size, Ahead
<1>4. pc'[t] \notin {"push_pos", "push_store"} \union PushWindow \union PushOwns
  BY <1>1, Zenon DEF PushWindow, PushOwns, PopOwns
<1>5. ValuesInv'
  BY <1>1, <1>3, <1>4, Zenon DEF IInv, ValuesInv, Alone, PushOwns
<1>6. UNCHANGED <<enqueue_pos_, dequeue_pos_, sequence, pos>>
  BY Zenon
<1> HIDE DEF PopRead, Goto
<1> QED
  BY <1>1, <1>2, <1>5, <1>6, OwnerStep, Zenon

-----------------------------------------------------------------------------
(* What a thread whose compare-and-swap is about to succeed may rely on.    *)
(* This is where a capacity of one is not enough: a full slot's sequence    *)
(* number would pass for that of an empty one.                              *)
LEMMA PushClaimable ==
  ASSUME IInv, Capacity > 1, NEW t \in Threads,
         pc[t] = "push_cas", enqueue_pos_ = pos[t]
  PROVE  /\ Size < Capacity
         /\ sequence[Slot(enqueue_pos_)] = enqueue_pos_
         /\ ~ PopOwner(Minus(enqueue_pos_, Capacity))
<1>1. /\ enqueue_pos_ \in Positions /\ dequeue_pos_ \in Positions
      /\ Size \in Nat /\ Size <= Capacity
  BY Types DEF IInv, SlotsInv, Positions
<1>2. sequence[Slot(enqueue_pos_)] = enqueue_pos_
  BY Zenon DEF IInv, ClaimsInv
<1>3. Size # Capacity
  <2> SUFFICES ASSUME Size = Capacity PROVE FALSE
    BY Zenon
  <2>1. enqueue_pos_ = Plus(dequeue_pos_, Capacity)
    <3>1. Minus(Plus(dequeue_pos_, Capacity), dequeue_pos_) = Minus(enqueue_pos_, dequeue_pos_)
      BY <1>1, Sizes, MinusPlus, Zenon DEF Size, Ahead
    <3>2. Plus(dequeue_pos_, Capacity) \in Positions
      BY <1>1, Sizes, PositionTypes, Zenon
    <3> QED
      BY <1>1, <3>1, <3>2, SameMinus, Zenon
  <2>2. Slot(enqueue_pos_) = Slot(dequeue_pos_)
    BY <1>1, <2>1, SlotLap, Zenon
  <2>3. Ahead(dequeue_pos_) < Size
    BY <1>1, MinusZero, Sizes DEF Ahead
  <2>4. sequence[Slot(dequeue_pos_)] \in {dequeue_pos_, Plus(dequeue_pos_, 1)}
    BY <1>1, <2>3, Zenon DEF IInv, SlotsInv, Filled
  <2>5. /\ Plus(dequeue_pos_, Capacity) # dequeue_pos_
        /\ Plus(dequeue_pos_, Capacity) # Plus(dequeue_pos_, 1)
    BY <1>1, NextDiffers, Zenon
  <2> QED
    BY <1>2, <2>1, <2>2, <2>4, <2>5, Zenon
<1>4. Size < Capacity /\ Size \in Size .. Capacity - 1
  BY <1>1, <1>3, Sizes
<1>5. Free(enqueue_pos_)
  BY <1>1, <1>4, Zenon DEF IInv, SlotsInv, Size
<1> QED
  BY <1>2, <1>4, <1>5, Zenon DEF Free

LEMMA PopClaimable ==
  ASSUME IInv, NEW t \in Threads, pc[t] = "pop_cas", dequeue_pos_ = pos[t]
  PROVE  /\ Size > 0 /\ Ahead(dequeue_pos_) = 0
         /\ sequence[Slot(dequeue_pos_)] = Plus(dequeue_pos_, 1)
         /\ ~ PushOwner(dequeue_pos_)
<1>1. dequeue_pos_ \in Positions /\ Size \in Nat /\ Size <= Capacity
  BY Types DEF IInv, SlotsInv, Positions
<1>2. sequence[Slot(dequeue_pos_)] = Plus(dequeue_pos_, 1)
  BY Zenon DEF IInv, ClaimsInv
<1>3. Ahead(dequeue_pos_) = 0
  BY <1>1, MinusZero, Zenon DEF Ahead
<1>4. Plus(dequeue_pos_, 1) # dequeue_pos_
  BY <1>1, NextDiffers, Zenon
<1>5. Size # 0
  <2> SUFFICES ASSUME Size = 0 PROVE FALSE
    BY Zenon
  <2>1. 0 \in Size .. Capacity - 1
    BY Sizes
  <2>2. Free(dequeue_pos_)
    BY <1>1, <1>3, <2>1, Zenon DEF IInv, SlotsInv
  <2>3. Plus(dequeue_pos_, 1) # Plus(Minus(dequeue_pos_, Capacity), 1)
    BY <1>1, NextDiffers, Zenon
  <2> QED
    BY <1>2, <1>4, <2>2, <2>3, Zenon DEF Free
<1>6. Size > 0
  BY <1>1, <1>5
<1>7. Filled(dequeue_pos_)
  BY <1>1, <1>3, <1>6, Zenon DEF IInv, SlotsInv
<1> QED
  BY <1>2, <1>3, <1>4, <1>6, <1>7, Zenon DEF Filled

(* A store hands the slot of position x on and changes no other slot. *)
LEMMA OneSlotChanges ==
  ASSUME IInv, NEW x \in Positions, Ahead(x) < Capacity, NEW w,
         sequence' = [sequence EXCEPT ![Slot(x)] = w]
  PROVE  /\ sequence'[Slot(x)] = w
         /\ \A q \in Positions : Ahead(q) < Capacity /\ q # x =>
              sequence'[Slot(q)] = sequence[Slot(q)]
<1>1. \A q \in Positions : Slot(q) \in Slots
  BY SlotTypes, Zenon
<1>2. \A q \in Positions : Ahead(q) < Capacity /\ q # x => Slot(q) # Slot(x)
  BY Types, OneSlotEach, Zenon DEF IInv, Ahead
<1> QED
  BY <1>1, <1>2, Zenon DEF IInv, TypeOK

(* The claims of the other threads survive a store, if it is not to the     *)
(* slot they are about to claim.                                            *)
LEMMA ClaimsSurvive ==
  ASSUME IInv, Capacity > 1, NEW t \in Threads, Alone(t), pc'[t] = "idle",
         UNCHANGED <<enqueue_pos_, dequeue_pos_>>,
         NEW x \in Positions, Ahead(x) < Capacity, NEW w,
         sequence' = [sequence EXCEPT ![Slot(x)] = w],
         \/ pc[t] \in PushOwns /\ x = pos[t]
         \/ pc[t] \in PopOwns /\ x = Plus(pos[t], Capacity)
  PROVE  ClaimsInv'
<1>1. \A q \in Positions : Ahead(q) < Capacity /\ q # x => sequence'[Slot(q)] = sequence[Slot(q)]
  BY OneSlotChanges, Zenon
<1>2. enqueue_pos_ \in Positions /\ dequeue_pos_ \in Positions /\ Size \in Nat /\ Size <= Capacity
  BY Types DEF IInv, SlotsInv, Positions
<1>3. ASSUME NEW u \in Threads, pc'[u] = "push_cas", enqueue_pos_ = pos'[u]
      PROVE  sequence'[Slot(pos'[u])] = pos'[u]
  <2>1. pc[u] = "push_cas" /\ enqueue_pos_ = pos[u]
    BY <1>3, Zenon DEF Alone
  <2>2. /\ Size < Capacity /\ sequence[Slot(enqueue_pos_)] = enqueue_pos_
        /\ ~ PopOwner(Minus(enqueue_pos_, Capacity))
    BY <2>1, PushClaimable, Zenon
  <2>3. x # enqueue_pos_
    <3>1. CASE pc[t] \in PushOwns /\ x = pos[t]
      BY <1>2, <3>1 DEF IInv, OwnersInv, Size
    <3>2. CASE pc[t] \in PopOwns /\ x = Plus(pos[t], Capacity)
      BY <2>2, <3>2, PopOwnerSlot, Zenon DEF PopOwner
    <3> QED
      BY <3>1, <3>2, Zenon
  <2> QED
    BY <1>1, <1>2, <1>3, <2>2, <2>3, Zenon DEF Size
<1>4. ASSUME NEW u \in Threads, pc'[u] = "pop_cas", dequeue_pos_ = pos'[u]
      PROVE  sequence'[Slot(pos'[u])] = Plus(pos'[u], 1)
  <2>1. pc[u] = "pop_cas" /\ dequeue_pos_ = pos[u]
    BY <1>4, Zenon DEF Alone
  <2>2. /\ Size > 0 /\ Ahead(dequeue_pos_) = 0
        /\ sequence[Slot(dequeue_pos_)] = Plus(dequeue_pos_, 1)
        /\ ~ PushOwner(dequeue_pos_)
    BY <2>1, PopClaimable, Zenon
  <2>3. x # dequeue_pos_
    <3>1. CASE pc[t] \in PushOwns /\ x = pos[t]
      BY <2>2, <3>1, Zenon DEF PushOwner
    <3>2. CASE pc[t] \in PopOwns /\ x = Plus(pos[t], Capacity)
      <4>1. Ahead(x) \in Size .. Capacity - 1
        BY <3>2, PopOwnerSlot, Zenon
      <4> QED
        BY <1>2, <2>2, <4>1
    <3> QED
      BY <3>1, <3>2, Zenon
  <2>4. Ahead(dequeue_pos_) < Capacity
    BY <2>2, Sizes
  <2>5. sequence'[Slot(dequeue_pos_)] = sequence[Slot(dequeue_pos_)]
    BY <1>1, <1>2, <2>3, <2>4, Zenon
  <2> QED
    BY <1>4, <2>2, <2>5, Zenon
<1> QED
  BY <1>3, <1>4, Zenon DEF ClaimsInv

LEMMA PushStoreStep ==
  ASSUME IInv, Capacity > 1, NEW t \in Threads, PushStore(t)
  PROVE  IInv'
<1> DEFINE x == pos[t]
<1> USE DEF PushStore, Return, Goto
<1>1. pc[t] = "push_store" /\ pc[t] \in PushOwns /\ pc'[t] = "idle" /\ Alone(t)
  BY Zenon DEF IInv, TypeOK, PushOwns, Alone
<1>2. TypeOK'
  <2>1. Plus(pos[t], 1) \in Positions /\ Slot(pos[t]) \in Slots
    BY Types, PositionTypes, OneIsPosition, Zenon DEF IInv
  <2> QED
    BY <2>1, OneIsPosition, Zenon DEF IInv, TypeOK
<1>3. sequence' = [sequence EXCEPT ![Slot(x)] = Plus(x, 1)]
  BY Zenon
<1>4. UNCHANGED <<enqueue_pos_, dequeue_pos_, slot_value, queue>>
  BY Zenon
<1> HIDE DEF PushStore, Return, Goto
<1>5. x \in Positions /\ Ahead(x) < Size /\ Ahead(x) < Capacity /\ Plus(x, 1) # x
  BY <1>1, PushOwnerSlot, NextDiffers, Zenon
<1>6. /\ sequence'[Slot(x)] = Plus(x, 1)
      /\ \A q \in Positions : Ahead(q) < Capacity /\ q # x => sequence'[Slot(q)] = sequence[Slot(q)]
  BY <1>3, <1>5, OneSlotChanges, Zenon
<1>7. Size' = Size /\ \A p : Ahead(p)' = Ahead(p)
  BY <1>4, Zenon DEF Size, Ahead
<1>8. \A u \in Threads : pc'[u] \in PushOwns \union PopOwns \union PushWindow \union PopWindow =>
        u # t /\ pc'[u] = pc[u] /\ pos'[u] = pos[u] /\ val'[u] = val[u]
  BY <1>1, Idle, Zenon DEF Alone
<1>9. \A p : /\ PushOwner(p)' <=> PushOwner(p) /\ p # x
             /\ PopOwner(p)' <=> PopOwner(p)
  <2>1. \A u \in Threads : pc[u] \in PushOwns /\ pos[u] = x => u = t
    BY <1>1, Zenon DEF IInv, OwnersInv
  <2>2. \A u \in Threads : /\ pc'[u] \in PushOwns <=> pc[u] \in PushOwns /\ u # t
                           /\ pc'[u] \in PopOwns <=> pc[u] \in PopOwns
    BY <1>1, <1>8, Idle, Zenon DEF Alone
  <2> HIDE DEF x
  <2>3. x = pos[t]
    BY Zenon DEF x
  <2> QED
    BY <1>1, <1>8, <2>1, <2>2, <2>3, Zenon DEF PushOwner, PopOwner, Alone
<1>10. \A q \in Positions : Ahead(q) < Size \/ Ahead(q) \in Size .. Capacity - 1 => Ahead(q) < Capacity
  BY Types, Sizes DEF IInv, SlotsInv, Positions
<1>11. SlotsInv'
  <2>1. ASSUME NEW p \in Positions, Ahead(p) < Size PROVE Filled(p)'
    <3>1. CASE p = x
      BY <1>5, <1>6, <1>9, <3>1, Zenon DEF Filled
    <3>2. CASE p # x
      <4>1. Filled(p)
        BY <2>1, Zenon DEF IInv, SlotsInv
      <4>2. sequence'[Slot(p)] = sequence[Slot(p)]
        BY <1>6, <1>10, <2>1, <3>2, Zenon
      <4> QED
        BY <1>9, <3>2, <4>1, <4>2, Zenon DEF Filled
    <3> QED
      BY <3>1, <3>2, Zenon
  <2>2. ASSUME NEW p \in Positions, Ahead(p) \in Size .. Capacity - 1 PROVE Free(p)'
    <3>1. Free(p)
      BY <2>2, Zenon DEF IInv, SlotsInv
    <3>2. p # x
      BY <1>5, <2>2, Types DEF IInv, Positions
    <3>3. sequence'[Slot(p)] = sequence[Slot(p)]
      BY <1>6, <1>10, <2>2, <3>2, Zenon
    <3> QED
      BY <1>9, <3>1, <3>3, Zenon DEF Free
  <2> QED
    BY <1>7, <2>1, <2>2, Zenon DEF IInv, SlotsInv
<1>12. OwnersInv'
  BY <1>7, <1>8, Zenon DEF IInv, OwnersInv
<1>13. ClaimsInv'
  BY <1>1, <1>3, <1>4, <1>5, ClaimsSurvive, Zenon
<1>14. WindowInv'
  BY <1>4, <1>8, Zenon DEF IInv, WindowInv, StaleBound
<1>15. ValuesInv'
  <2>1. \A u \in Threads :
          pc'[u] \in {"push_pos"} \union PushWindow \union PushOwns => val'[u] \in Values
    BY <1>1, Idle, Zenon DEF IInv, ValuesInv, Alone
  <2>2. \A u \in Threads : pc'[u] = "push_store" => slot_value[Slot(pos'[u])] = val'[u]
    BY <1>8, Zenon DEF IInv, ValuesInv, PushOwns
  <2>3. \A u \in Threads : pc'[u] \in PushOwns => val'[u] = queue[Ahead(pos'[u]) + 1]
    BY <1>8, Zenon DEF IInv, ValuesInv
  <2>4. ASSUME NEW p \in Positions, Ahead(p) < Size, sequence'[Slot(p)] = Plus(p, 1)
        PROVE  slot_value[Slot(p)] = queue[Ahead(p) + 1]
    <3>1. CASE p = x
      BY <1>1, <3>1, Zenon DEF IInv, ValuesInv
    <3>2. CASE p # x
      <4>1. sequence'[Slot(p)] = sequence[Slot(p)]
        BY <1>6, <1>10, <2>4, <3>2, Zenon
      <4> QED
        BY <2>4, <4>1, Zenon DEF IInv, ValuesInv
    <3> QED
      BY <3>1, <3>2, Zenon
  <2> QED
    BY <1>4, <1>7, <2>1, <2>2, <2>3, <2>4, Zenon DEF IInv, ValuesInv
<1> QED
  BY <1>2, <1>11, <1>12, <1>13, <1>14, <1>15, Zenon DEF IInv

LEMMA PopStoreStep ==
  ASSUME IInv, Capacity > 1, NEW t \in Threads, PopStore(t)
  PROVE  IInv'
<1> DEFINE x == Plus(pos[t], Capacity)
<1> USE DEF PopStore, Return, Goto
<1>1. pc[t] = "pop_store" /\ pc[t] \in PopOwns /\ pc'[t] = "idle" /\ Alone(t)
  BY Zenon DEF IInv, TypeOK, PopOwns, Alone
<1>2. TypeOK'
  <2>1. Plus(pos[t], Capacity) \in Positions /\ Slot(pos[t]) \in Slots
    BY Types, PositionTypes, Sizes, Zenon DEF IInv
  <2> QED
    BY <2>1, OneIsPosition, Zenon DEF IInv, TypeOK
<1>3. /\ x \in Positions /\ Ahead(x) \in Size .. Capacity - 1
      /\ Minus(x, Capacity) = pos[t] /\ Slot(x) = Slot(pos[t])
  BY <1>1, PopOwnerSlot, Zenon
<1>4. sequence' = [sequence EXCEPT ![Slot(x)] = x]
  BY <1>3, Zenon
<1>5. UNCHANGED <<enqueue_pos_, dequeue_pos_, slot_value, queue>>
  BY Zenon
<1> HIDE DEF PopStore, Return, Goto
<1>6. x = Plus(pos[t], Capacity)
  BY Zenon
<1> HIDE DEF x
<1>7. \A q \in Positions : Ahead(q) < Size \/ Ahead(q) \in Size .. Capacity - 1 => Ahead(q) < Capacity
  BY Types, Sizes DEF IInv, SlotsInv, Positions
<1>8. /\ sequence'[Slot(x)] = x
      /\ \A q \in Positions : Ahead(q) < Capacity /\ q # x => sequence'[Slot(q)] = sequence[Slot(q)]
  BY <1>3, <1>4, <1>7, OneSlotChanges, Zenon
<1>9. Size' = Size /\ \A p : Ahead(p)' = Ahead(p)
  BY <1>5, Zenon DEF Size, Ahead
<1>10. \A u \in Threads : pc'[u] \in PushOwns \union PopOwns \union PushWindow \union PopWindow =>
         u # t /\ pc'[u] = pc[u] /\ pos'[u] = pos[u] /\ val'[u] = val[u]
  BY <1>1, Idle, Zenon DEF Alone
<1>11. \A p : /\ PushOwner(p)' <=> PushOwner(p)
              /\ PopOwner(p)' <=> PopOwner(p) /\ p # pos[t]
  <2>1. \A u \in Threads : pc[u] \in PopOwns /\ pos[u] = pos[t] => u = t
    BY <1>1, Zenon DEF IInv, OwnersInv
  <2>2. \A u \in Threads : /\ pc'[u] \in PushOwns <=> pc[u] \in PushOwns
                           /\ pc'[u] \in PopOwns <=> pc[u] \in PopOwns /\ u # t
    BY <1>1, <1>10, Idle, Zenon DEF Alone
  <2> QED
    BY <1>1, <1>10, <2>1, <2>2, Zenon DEF PushOwner, PopOwner, Alone
<1>12. SlotsInv'
  <2>1. ASSUME NEW p \in Positions, Ahead(p) < Size PROVE Filled(p)'
    <3>1. Filled(p)
      BY <2>1, Zenon DEF IInv, SlotsInv
    <3>2. p # x
      BY <1>3, <2>1, Types DEF IInv, Positions
    <3>3. sequence'[Slot(p)] = sequence[Slot(p)]
      BY <1>7, <1>8, <2>1, <3>2, Zenon
    <3> QED
      BY <1>11, <3>1, <3>3, Zenon DEF Filled
  <2>2. ASSUME NEW p \in Positions, Ahead(p) \in Size .. Capacity - 1 PROVE Free(p)'
    <3>1. CASE p = x
      BY <1>3, <1>8, <1>11, <3>1, Zenon DEF Free
    <3>2. CASE p # x
      <4>1. Free(p)
        BY <2>2, Zenon DEF IInv, SlotsInv
      <4>2. sequence'[Slot(p)] = sequence[Slot(p)]
        BY <1>7, <1>8, <2>2, <3>2, Zenon
      <4>3. Minus(p, Capacity) # pos[t]
        BY <1>3, <3>2, PlusMinus, Sizes
      <4> QED
        BY <1>11, <4>1, <4>2, <4>3, Zenon DEF Free
    <3> QED
      BY <3>1, <3>2, Zenon
  <2> QED
    BY <1>9, <2>1, <2>2, Zenon DEF IInv, SlotsInv
<1>13. OwnersInv'
  BY <1>9, <1>10, Zenon DEF IInv, OwnersInv
<1>14. ClaimsInv'
  BY <1>1, <1>3, <1>4, <1>5, <1>6, <1>7, ClaimsSurvive, Zenon
<1>15. WindowInv'
  BY <1>5, <1>10, Zenon DEF IInv, WindowInv, StaleBound
<1>16. ValuesInv'
  <2>1. \A u \in Threads :
          pc'[u] \in {"push_pos"} \union PushWindow \union PushOwns => val'[u] \in Values
    BY <1>1, Idle, Zenon DEF IInv, ValuesInv, Alone
  <2>2. \A u \in Threads : pc'[u] = "push_store" => slot_value[Slot(pos'[u])] = val'[u]
    BY <1>10, Zenon DEF IInv, ValuesInv, PushOwns
  <2>3. \A u \in Threads : pc'[u] \in PushOwns => val'[u] = queue[Ahead(pos'[u]) + 1]
    BY <1>10, Zenon DEF IInv, ValuesInv
  <2>4. ASSUME NEW p \in Positions, Ahead(p) < Size, sequence'[Slot(p)] = Plus(p, 1)
        PROVE  slot_value[Slot(p)] = queue[Ahead(p) + 1]
    <3>1. p # x
      BY <1>3, <2>4, Types DEF IInv, Positions
    <3>2. sequence'[Slot(p)] = sequence[Slot(p)]
      BY <1>7, <1>8, <2>4, <3>1, Zenon
    <3> QED
      BY <2>4, <3>2, Zenon DEF IInv, ValuesInv
  <2> QED
    BY <1>5, <1>9, <2>1, <2>2, <2>3, <2>4, Zenon DEF IInv, ValuesInv
<1> QED
  BY <1>2, <1>12, <1>13, <1>14, <1>15, <1>16, Zenon DEF IInv

-----------------------------------------------------------------------------
(* What the invariant implies. *)
LEMMA RaceFreeState == IInv => NoDataRace
<1> SUFFICES ASSUME IInv, NEW t \in Threads, NEW u \in Threads, t # u,
                    pc[t] = "push_write", pc[u] \in {"push_write", "pop_read"}
             PROVE  Slot(pos[t]) # Slot(pos[u])
  BY Zenon DEF NoDataRace
<1>1. pc[t] \in PushOwns
  BY Zenon DEF PushOwns
<1>2. /\ pos[t] \in Positions /\ Ahead(pos[t]) < Size /\ Size \in Nat
      /\ \A q \in Positions : Ahead(q) < Capacity /\ q # pos[t] => Slot(q) # Slot(pos[t])
  BY <1>1, PushOwnerSlot, Types DEF IInv, Positions
<1>3. CASE pc[u] = "push_write"
  <2>1. pc[u] \in PushOwns
    BY <1>3, Zenon DEF PushOwns
  <2>2. pos[u] # pos[t]
    BY <1>1, <2>1, Zenon DEF IInv, OwnersInv
  <2> QED
    BY <1>2, <2>1, <2>2, PushOwnerSlot, Zenon
<1>4. CASE pc[u] = "pop_read"
  <2> DEFINE n == Plus(pos[u], Capacity)
  <2>1. n \in Positions /\ Ahead(n) \in Size .. Capacity - 1 /\ Slot(n) = Slot(pos[u])
    BY <1>4, PopOwnerSlot, Zenon DEF PopOwns
  <2> HIDE DEF n
  <2>2. Ahead(n) < Capacity /\ n # pos[t]
    BY <1>2, <2>1, Sizes
  <2> QED
    BY <1>2, <2>1, <2>2, Zenon
<1> QED
  BY <1>3, <1>4, Zenon

LEMMA OwnershipState ==
  ASSUME Capacity > 1
  PROVE  IInv => SlotOwnership
<1> SUFFICES ASSUME IInv PROVE SlotOwnership
  BY Zenon
<1> DEFINE Owners(set, p) == {t \in Threads : pc[t] \in set /\ pos[t] = p}
<1>1. Minus(enqueue_pos_, dequeue_pos_) = Size /\ Size = Len(queue) /\ Size <= Capacity
      /\ Size \in Nat /\ dequeue_pos_ \in Positions /\ enqueue_pos_ \in Positions
  BY Types DEF IInv, SlotsInv, ValuesInv, Size, Ahead, Positions
<1>2. \A p : /\ PushOwner(p) => \E t \in Threads : Owners(PushOwns, p) = {t}
             /\ ~ PushOwner(p) => Owners(PushOwns, p) = {}
  <2> SUFFICES ASSUME NEW p
               PROVE  /\ PushOwner(p) => \E t \in Threads : Owners(PushOwns, p) = {t}
                      /\ ~ PushOwner(p) => Owners(PushOwns, p) = {}
    BY Zenon
  <2>1. ASSUME PushOwner(p) PROVE \E t \in Threads : Owners(PushOwns, p) = {t}
    BY <2>1, Zenon DEF IInv, OwnersInv, PushOwner
  <2> QED
    BY <2>1, Zenon DEF PushOwner
<1>3. \A p : /\ PopOwner(p) => \E t \in Threads : Owners(PopOwns, p) = {t}
             /\ ~ PopOwner(p) => Owners(PopOwns, p) = {}
  <2> SUFFICES ASSUME NEW p
               PROVE  /\ PopOwner(p) => \E t \in Threads : Owners(PopOwns, p) = {t}
                      /\ ~ PopOwner(p) => Owners(PopOwns, p) = {}
    BY Zenon
  <2>1. ASSUME PopOwner(p) PROVE \E t \in Threads : Owners(PopOwns, p) = {t}
    BY <2>1, Zenon DEF IInv, OwnersInv, PopOwner
  <2> QED
    BY <2>1, Zenon DEF PopOwner
<1> HIDE DEF Owners
<1>4. ASSUME NEW k \in 0 .. Capacity - 1
      PROVE  LET p == Plus(dequeue_pos_, k)
                 seq == sequence[Slot(p)]
                 prev == Minus(p, Capacity)
             IN  IF k < Size
                 THEN \/ seq = Plus(p, 1) /\ Owners(PushOwns, p) = {}
                      \/ seq = p /\ \E t \in Threads : Owners(PushOwns, p) = {t}
                 ELSE \/ seq = p /\ Owners(PopOwns, prev) = {}
                      \/ seq = Plus(prev, 1) /\ \E t \in Threads : Owners(PopOwns, prev) = {t}
  <2> DEFINE p == Plus(dequeue_pos_, k)
  <2>1. p \in Positions /\ Ahead(p) = k
    <3>1. k \in Positions
      BY Sizes DEF Positions
    <3> QED
      BY <1>1, <3>1, PositionTypes, MinusPlus, Zenon DEF Ahead
  <2> HIDE DEF p
  <2>2. CASE k < Size
    <3>1. Filled(p)
      BY <2>1, <2>2, Zenon DEF IInv, SlotsInv
    <3> QED
      BY <1>2, <2>2, <3>1, Zenon DEF Filled, p
  <2>3. CASE ~ (k < Size)
    <3>1. Free(p)
      BY <1>1, <2>1, <2>3 DEF IInv, SlotsInv
    <3> QED
      BY <1>3, <2>3, <3>1, Zenon DEF Free, p
  <2> QED
    BY <2>2, <2>3, Zenon
<1>5. \A t \in Threads : pc[t] \in PushOwns => Minus(pos[t], dequeue_pos_) < Size
  BY Zenon DEF IInv, OwnersInv, Ahead
<1>6. ASSUME NEW t \in Threads, pc[t] \in PopOwns
      PROVE  Minus(enqueue_pos_, pos[t]) \in Size + 1 .. Capacity
  <2>1. pos[t] \in Positions /\ Minus(Plus(pos[t], Capacity), dequeue_pos_) \in Size .. Capacity - 1
    BY <1>6, PopOwnerSlot, Zenon DEF Ahead
  <2>2. /\ Plus(pos[t], Capacity) \in Positions
        /\ Plus(pos[t], Capacity) = IF pos[t] + Capacity < PosMod THEN pos[t] + Capacity
                                    ELSE pos[t] + Capacity - PosMod
    BY <2>1, Sizes, PlusIs, PositionTypes, Zenon
  <2> DEFINE n == Plus(pos[t], Capacity)
             p == pos[t]
  <2> HIDE DEF n, p
  <2>3. /\ Minus(n, dequeue_pos_) = IF dequeue_pos_ <= n THEN n - dequeue_pos_
                                    ELSE n - dequeue_pos_ + PosMod
        /\ Minus(enqueue_pos_, p) = IF p <= enqueue_pos_ THEN enqueue_pos_ - p
                                    ELSE enqueue_pos_ - p + PosMod
        /\ Size = IF dequeue_pos_ <= enqueue_pos_ THEN enqueue_pos_ - dequeue_pos_
                  ELSE enqueue_pos_ - dequeue_pos_ + PosMod
    BY <1>1, <2>1, <2>2, MinusIs, Zenon DEF n, p
  <2>4. Minus(enqueue_pos_, p) \in Size + 1 .. Capacity
    BY <1>1, <2>1, <2>2, <2>3, Sizes DEF Positions, n, p
  <2> QED
    BY <2>4, Zenon DEF p
<1> QED
  BY <1>1, <1>4, <1>5, <1>6, Zenon DEF SlotOwnership, Owners

-----------------------------------------------------------------------------
(* A call fails only when the queue has no room (no value) for it, or       *)
(* somebody is in the way.                                                  *)
LEMMA SlotInLap ==
  \A x, d \in Positions : \E p \in Positions : Minus(p, d) < Capacity /\ Slot(p) = Slot(x)
<1> SUFFICES ASSUME NEW x \in Positions, NEW d \in Positions
             PROVE  \E p \in Positions : Minus(p, d) < Capacity /\ Slot(p) = Slot(x)
  BY Zenon
<1> DEFINE m == Minus(x, d)
           q == m \div Capacity
           r == Slot(m)
           p == Plus(d, r)
<1>1. m \in Nat /\ d \in Nat /\ x \in Nat /\ (d + m = x \/ d + m = x + PosMod)
  <2>1. m = IF d <= x THEN x - d ELSE x - d + PosMod
    BY MinusIs, Zenon
  <2> HIDE DEF m
  <2> QED
    BY <2>1, Sizes DEF Positions
<1>2. Slot(d + m) = Slot(x)
  BY <1>1, SlotWraps, Zenon
<1> HIDE DEF m
<1>3. q \in Nat /\ r \in Slots /\ m = q * Capacity + r
  BY <1>1, Division, Zenon
<1> HIDE DEF q, r
<1>4. d + r \in Nat /\ d + m = (d + r) + q * Capacity
  <2> DEFINE k == q * Capacity
  <2>1. k \in Nat
    BY <1>3, Sizes
  <2> HIDE DEF k
  <2> QED
    BY <1>1, <1>3, <2>1 DEF Slots, k
<1>5. Slot(d + r) = Slot(x)
  BY <1>2, <1>3, <1>4, SlotAdds, Zenon
<1>6. r \in Positions /\ r < Capacity
  BY <1>3, Sizes DEF Slots, Positions
<1>7. p \in Positions /\ Minus(p, d) = r
  BY <1>6, PositionTypes, MinusPlus, Zenon
<1>8. p \in Nat /\ (d + r = p \/ d + r = p + PosMod)
  BY <1>6, Sizes, PlusIs DEF Positions
<1> HIDE DEF p
<1>9. Slot(p) = Slot(d + r)
  BY <1>8, SlotWraps, Zenon
<1> QED
  BY <1>5, <1>6, <1>7, <1>9, Zenon

LEMMA MinusBothNext ==
  \A p, x \in Positions : Minus(Plus(p, 1), Plus(x, 1)) = Minus(p, x)
<1> SUFFICES ASSUME NEW p \in Positions, NEW x \in Positions
             PROVE  Minus(Plus(p, 1), Plus(x, 1)) = Minus(p, x)
  BY Zenon
<1> DEFINE y == Plus(x, 1)
           z == Minus(Plus(p, 1), y)
<1>1. y \in Positions
  BY OneIsPosition, PositionTypes, Zenon
<1>2. Minus(p, y) = IF p = x THEN PosMod - 1 ELSE Minus(p, x) - 1
  BY MinusNext, Zenon
<1> HIDE DEF y
<1>3. z = IF Minus(p, y) = PosMod - 1 THEN 0 ELSE Minus(p, y) + 1
  BY <1>1, NextMinus, Zenon
<1> HIDE DEF z
<1>4. Minus(p, x) \in 0 .. PosMod - 1 /\ (p = x => Minus(p, x) = 0)
  BY PositionTypes, MinusZero, Zenon DEF Positions
<1>5. z = Minus(p, x)
  BY <1>2, <1>3, <1>4, Sizes
<1> QED
  BY <1>5, Zenon DEF y, z

LEMMA SignedNegative ==
  \A a \in Positions : Signed(a) < 0 <=> a >= PosMod \div 2
  BY Sizes, Halves DEF Positions, Signed

LEMMA PushFails ==
  ASSUME IInv, NEW t \in Threads, pc[t] \in PushWindow,
         Signed(Minus(sequence[Slot(pos[t])], pos[t])) < 0
  PROVE  \/ Len(queue) = Capacity
         \/ \E u \in Threads : pc[u] \in PopOwns /\ Slot(pos[u]) = Slot(pos[t])
<1> SUFFICES ASSUME Size # Capacity,
                    ~ \E u \in Threads : pc[u] \in PopOwns /\ Slot(pos[u]) = Slot(pos[t])
             PROVE  FALSE
  BY Zenon DEF IInv, ValuesInv
<1> DEFINE x == pos[t]
           e == enqueue_pos_
           d == dequeue_pos_
<1>1. /\ x \in Positions /\ e \in Positions /\ d \in Positions
      /\ Size \in Nat /\ Size < Capacity /\ Minus(e, x) <= StaleBound
  BY Types, Sizes DEF IInv, SlotsInv, WindowInv, Positions
<1>2. PICK p \in Positions : Ahead(p) < Capacity /\ Slot(p) = Slot(x)
  BY <1>1, SlotInLap, Zenon DEF Ahead
<1>3. sequence[Slot(p)] \in {p, Plus(p, 1)} /\ (sequence[Slot(p)] = p \/ Ahead(p) < Size)
  <2>1. CASE Ahead(p) < Size
    <3>1. Filled(p)
      BY <2>1, Zenon DEF IInv, SlotsInv
    <3> QED
      BY <2>1, <3>1, Zenon DEF Filled
  <2>2. CASE ~ (Ahead(p) < Size)
    <3>1. Ahead(p) \in Size .. Capacity - 1
      BY <1>1, <1>2, <2>2, Types, Sizes DEF IInv, Positions
    <3>2. Free(p)
      BY <3>1, Zenon DEF IInv, SlotsInv
    <3>3. Slot(Minus(p, Capacity)) = Slot(p)
      BY SlotLap, Zenon
    <3>4. ~ PopOwner(Minus(p, Capacity))
      BY <1>2, <3>3, Zenon DEF PopOwner
    <3> QED
      BY <3>2, <3>4, Zenon DEF Free
  <2> QED
    BY <2>1, <2>2, Zenon
<1>4. p = x \/ Minus(x, p) >= Capacity
  BY <1>1, <1>2, SlotsApart, Zenon
<1> HIDE DEF x, e, d
<1>5. /\ Ahead(p) = IF d <= p THEN p - d ELSE p - d + PosMod
      /\ Size = IF d <= e THEN e - d ELSE e - d + PosMod
      /\ Minus(e, x) = IF x <= e THEN e - x ELSE e - x + PosMod
      /\ Minus(p, x) = IF x <= p THEN p - x ELSE p - x + PosMod
      /\ Minus(x, p) = IF p <= x THEN x - p ELSE x - p + PosMod
  BY <1>1, MinusIs, Zenon DEF Ahead, Size, d, e
<1>6. /\ Minus(p, x) < PosMod \div 2
      /\ Ahead(p) < Size => Minus(p, x) + 1 < PosMod \div 2
  <2>1. p # x => Minus(x, p) >= Capacity
    BY <1>4, Zenon
  <2> QED
    BY <1>1, <1>2, <1>5, <2>1, Sizes, Halves DEF Positions, StaleBound
<1>7. Minus(Plus(p, 1), x) = IF Minus(p, x) = PosMod - 1 THEN 0 ELSE Minus(p, x) + 1
  BY <1>1, NextMinus, Zenon
<1>8. Minus(sequence[Slot(x)], x) < PosMod \div 2
  <2>1. CASE sequence[Slot(p)] = p
    BY <1>2, <1>6, <2>1, Zenon
  <2>2. CASE sequence[Slot(p)] = Plus(p, 1) /\ Ahead(p) < Size
    <3>1. Minus(p, x) \in Nat
      BY <1>1, PositionTypes, PositionsNat, Zenon
    <3>2. Minus(Plus(p, 1), x) < PosMod \div 2
      BY <1>6, <1>7, <2>2, <3>1, Sizes, Halves
    <3> QED
      BY <1>2, <2>2, <3>2, Zenon
  <2> QED
    BY <1>3, <2>1, <2>2, Zenon
<1>9. Minus(sequence[Slot(x)], x) \in Positions
  BY <1>1, Types, PositionTypes, Zenon DEF IInv
<1> QED
  BY <1>8, <1>9, SignedNegative, Sizes, Halves DEF x, Positions

LEMMA PopFails ==
  ASSUME IInv, NEW t \in Threads, pc[t] \in PopWindow,
         Signed(Minus(sequence[Slot(pos[t])], Plus(pos[t], 1))) < 0
  PROVE  Len(queue) = 0 \/ \E u \in Threads : pc[u] \in PushOwns
<1> SUFFICES ASSUME Size # 0, ~ \E u \in Threads : pc[u] \in PushOwns
             PROVE  FALSE
  BY Zenon DEF IInv, ValuesInv
<1> DEFINE x == pos[t]
           d == dequeue_pos_
<1>1. /\ x \in Positions /\ d \in Positions
      /\ Size \in Nat /\ Size > 0 /\ Minus(d, x) <= StaleBound
  BY Types, Sizes DEF IInv, WindowInv, Positions
<1>2. PICK p \in Positions : Ahead(p) < Capacity /\ Slot(p) = Slot(x)
  BY <1>1, SlotInLap, Zenon DEF Ahead
<1>3. \/ sequence[Slot(p)] = Plus(p, 1)
      \/ /\ sequence[Slot(p)] \in {p, Plus(Minus(p, Capacity), 1)}
         /\ Ahead(p) >= Size
  <2>1. CASE Ahead(p) < Size
    <3>1. Filled(p)
      BY <2>1, Zenon DEF IInv, SlotsInv
    <3> QED
      BY <3>1, Zenon DEF Filled, PushOwner
  <2>2. CASE ~ (Ahead(p) < Size)
    <3>1. Ahead(p) \in Size .. Capacity - 1
      BY <1>1, <1>2, <2>2, Types, Sizes DEF IInv, Positions
    <3>2. Free(p)
      BY <3>1, Zenon DEF IInv, SlotsInv
    <3> QED
      BY <3>1, <3>2 DEF Free
  <2> QED
    BY <2>1, <2>2, Zenon
<1>4. p = x \/ Minus(p, x) >= Capacity
  BY <1>1, <1>2, SlotsApart, Zenon
<1> HIDE DEF x, d
<1>5. /\ Ahead(p) = IF d <= p THEN p - d ELSE p - d + PosMod
      /\ Minus(d, x) = IF x <= d THEN d - x ELSE d - x + PosMod
      /\ Minus(p, x) = IF x <= p THEN p - x ELSE p - x + PosMod
  BY <1>1, MinusIs, Zenon DEF Ahead, d
<1>6. /\ Minus(p, x) < PosMod \div 2
      /\ Ahead(p) >= Size => Minus(p, x) >= Capacity
  <2>1. p # x => Minus(p, x) >= Capacity
    BY <1>4, Zenon
  <2> QED
    BY <1>1, <1>2, <1>5, <2>1, Sizes, Halves DEF Positions, StaleBound
<1> DEFINE diff == Minus(sequence[Slot(x)], Plus(x, 1))
<1>7. diff \in {Minus(p, x), Minus(p, x) - 1, Minus(p, x) - Capacity}
      /\ (diff = Minus(p, x) \/ Ahead(p) >= Size)
  <2> DEFINE b == Minus(p, Capacity)
  <2>1. Plus(x, 1) \in Positions /\ b \in Positions /\ Plus(b, 1) \in Positions
        /\ Plus(p, 1) \in Positions /\ Minus(p, x) \in Nat
    BY <1>1, Sizes, OneIsPosition, PositionTypes, PositionsNat, Zenon
  <2>2. Minus(Plus(p, 1), Plus(x, 1)) = Minus(p, x)
    BY <1>1, MinusBothNext, Zenon
  <2>3. p # x => Minus(p, Plus(x, 1)) = Minus(p, x) - 1
    BY <1>1, MinusNext, Zenon
  <2>4. Minus(Plus(b, 1), Plus(x, 1)) = Minus(b, x)
    BY <1>1, <2>1, MinusBothNext, Zenon
  <2> HIDE DEF b
  <2>5. Minus(p, x) >= Capacity => Minus(b, x) = Minus(p, x) - Capacity
    <3>1. /\ b = IF Capacity <= p THEN p - Capacity ELSE p - Capacity + PosMod
          /\ Minus(b, x) = IF x <= b THEN b - x ELSE b - x + PosMod
      BY <1>1, <2>1, Sizes, MinusIs, Zenon DEF b
    <3> QED
      BY <1>1, <1>5, <2>1, <3>1, Sizes DEF Positions
  <2>6. Ahead(p) >= Size => p # x
    <3>1. p = x => Minus(p, x) = 0
      BY <1>1, MinusZero, Zenon
    <3> QED
      BY <1>6, <3>1, Sizes
  <2>7. CASE sequence[Slot(p)] = Plus(p, 1)
    BY <1>2, <2>2, <2>7, Zenon
  <2>8. CASE sequence[Slot(p)] = p /\ Ahead(p) >= Size
    BY <1>2, <2>3, <2>6, <2>8, Zenon
  <2>9. CASE sequence[Slot(p)] = Plus(b, 1) /\ Ahead(p) >= Size
    BY <1>2, <1>6, <2>4, <2>5, <2>9, Zenon
  <2> QED
    BY <1>3, <2>7, <2>8, <2>9, Zenon DEF b
<1> HIDE DEF diff
<1>8. diff < PosMod \div 2 /\ diff >= 0
  <2>1. Minus(p, x) \in Nat
    BY <1>1, PositionTypes, PositionsNat, Zenon
  <2> QED
    BY <1>6, <1>7, <2>1, Sizes, Halves
<1>9. diff \in Positions
  BY <1>1, Types, OneIsPosition, PositionTypes, Zenon DEF IInv, diff
<1> QED
  BY <1>8, <1>9, SignedNegative, Sizes, Halves DEF x, diff, Positions
=============================================================================
