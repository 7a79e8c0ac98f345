--------------------------- MODULE MpmcRingProofs ---------------------------
(***************************************************************************)
(* Proofs about MpmcRing.tla from the invariant of MpmcRingInv.tla: the    *)
(* compare-and-swaps that claim a position preserve it too, it implies the *)
(* properties, and the ring implements the bounded queue.  All of it holds *)
(* for any threads and values, every capacity above one and every width of *)
(* the counters that MpmcAssumption admits, 2^64 included.  A capacity of  *)
(* one is the exception: there the sequence number of a full slot is also  *)
(* the one of an empty slot of the next lap (NeverOverfull fails).  Then,  *)
(* about HarvestMpmc.tla: completions delivered through the ring are       *)
(* neither lost nor duplicated, and dropped only behind a stalled pop.     *)
(***************************************************************************)
EXTENDS MpmcRingInv, HarvestMpmc

LEMMA QueueAppend ==
  ASSUME NEW q \in Seq(Values), NEW v \in Values
  PROVE  /\ Append(q, v) \in Seq(Values) /\ Len(q) \in Nat /\ Len(Append(q, v)) = Len(q) + 1
         /\ Append(q, v)[Len(q) + 1] = v
         /\ \A k \in 1 .. Len(q) : Append(q, v)[k] = q[k]
  OBVIOUS

LEMMA QueueTail ==
  ASSUME NEW q \in Seq(Values), Len(q) > 0
  PROVE  /\ Tail(q) \in Seq(Values) /\ Len(Tail(q)) = Len(q) - 1
         /\ q # <<>> /\ Head(q) = q[1] /\ q[1] \in Values
         /\ \A k \in 1 .. Len(q) - 1 : Tail(q)[k] = q[k + 1]
<1>1. q # <<>> /\ Len(q) \in Nat
  OBVIOUS
<1>2. Head(q) = q[1] /\ q[1] \in Values
  OBVIOUS
<1>3. Tail(q) \in Seq(Values) /\ Len(Tail(q)) = Len(q) - 1
  BY <1>1
<1>4. \A k \in 1 .. Len(q) - 1 : Tail(q)[k] = q[k + 1]
  BY <1>1
<1> QED
  BY <1>1, <1>2, <1>3, <1>4, Zenon

(* The cursor of another thread does not come round: its copy would have to *)
(* be older than StaleBound.                                                *)
LEMMA NoWrapAround ==
  \A e, p \in Positions : Minus(e, p) < StaleBound =>
    /\ Plus(e, 1) # p
    /\ Minus(Plus(e, 1), p) <= StaleBound
<1> SUFFICES ASSUME NEW e \in Positions, NEW p \in Positions, Minus(e, p) < StaleBound
             PROVE  Plus(e, 1) # p /\ Minus(Plus(e, 1), p) <= StaleBound
  BY Zenon
<1>1. StaleBound \in Nat /\ StaleBound < PosMod - 1
  BY Sizes, Halves DEF StaleBound
<1>2. Minus(e, p) \in Nat
  BY PositionTypes DEF Positions
<1>3. Minus(Plus(e, 1), p) = Minus(e, p) + 1
  BY <1>1, <1>2, NextMinus, Sizes
<1>4. Minus(p, p) = 0
  BY MinusZero, Zenon
<1> QED
  BY <1>1, <1>2, <1>3, <1>4

LEMMA PushClaimStep ==
  ASSUME IInv, Capacity > 1, NEW t \in Threads, PushClaim(t)
  PROVE  IInv'
<1> DEFINE x == enqueue_pos_
<1> USE DEF PushClaim, Goto
<1>1. /\ pc[t] = "push_cas" /\ x = pos[t] /\ pc'[t] = "push_write" /\ Alone(t)
      /\ pc[t] \notin PushOwns \union PopOwns /\ pc'[t] \in PushOwns
      /\ pc'[t] \notin PopOwns \union PushWindow \union PopWindow
      /\ pc'[t] # "push_store" /\ pc'[t] # "push_cas" /\ pc'[t] # "pop_cas"
  BY Zenon DEF IInv, TypeOK, PushOwns, PopOwns, PushWindow, PopWindow, Alone
<1>2. /\ UNCHANGED <<dequeue_pos_, sequence, slot_value, pos, val>>
      /\ enqueue_pos_' = Plus(x, 1) /\ queue' = Append(queue, val[t]) /\ PushInWindow(t)
  BY Zenon
<1>3. val[t] \in Values
  BY Zenon DEF IInv, ValuesInv, PushWindow
<1>4. TypeOK'
  <2>1. Plus(pos[t], 1) \in Positions
    BY Types, PositionTypes, OneIsPosition, Zenon DEF IInv
  <2> QED
    BY <1>3, <2>1, QueueAppend, Zenon DEF IInv, TypeOK, PushOwns
<1> HIDE DEF PushClaim, Goto
<1>5. x \in Positions /\ Size \in Nat /\ Ahead(x) = Size /\ \A p \in Positions : Ahead(p) \in Nat
  BY Types DEF IInv, Positions, Size
<1>6. Size < Capacity /\ sequence[Slot(x)] = x /\ ~ PopOwner(Minus(x, Capacity))
  BY <1>1, PushClaimable, Zenon
<1>7. /\ Size' = Size + 1
      /\ \A p : Ahead(p)' = Ahead(p)
  <2>1. \A p : Ahead(p)' = Ahead(p)
    BY <1>2, Zenon DEF Ahead
  <2>2. Size' = Ahead(Plus(x, 1))
    BY <1>2, <2>1, Zenon DEF Size, Ahead
  <2>3. Ahead(Plus(x, 1)) = Size + 1
    <3>1. Minus(x, dequeue_pos_) = Size /\ dequeue_pos_ \in Positions
      BY <1>5, Types, Zenon DEF IInv, Ahead
    <3>2. Size # PosMod - 1
      BY <1>5, <1>6, Sizes
    <3> HIDE DEF x
    <3> QED
      BY <1>5, <3>1, <3>2, NextMinus, Zenon DEF Ahead
  <2> QED
    BY <2>1, <2>2, <2>3, Zenon
<1>8. \A p \in Positions : Ahead(p) = Size => p = x
  BY <1>5, SameMinus, Types, Zenon DEF IInv, Ahead, Size
<1>9. \A u \in Threads : u # t => pc'[u] = pc[u]
  BY <1>1, Zenon DEF Alone
<1>10. \A p : /\ PushOwner(p)' <=> PushOwner(p) \/ p = x
              /\ PopOwner(p)' <=> PopOwner(p)
  BY <1>1, <1>2, <1>9, Zenon DEF PushOwner, PopOwner
<1>11. ~ PushOwner(x)
  BY <1>5 DEF IInv, OwnersInv, PushOwner
<1> HIDE DEF x
<1>12. SlotsInv'
  <2>1. ASSUME NEW p \in Positions, Ahead(p) < Size + 1 PROVE Filled(p)'
    <3>1. CASE p = x
      BY <1>2, <1>6, <1>10, <3>1, Zenon DEF Filled
    <3>2. CASE p # x
      <4>1. Ahead(p) < Size
        BY <1>5, <1>8, <2>1, <3>2
      <4>2. Filled(p)
        BY <4>1, Zenon DEF IInv, SlotsInv
      <4> QED
        BY <1>2, <1>10, <3>2, <4>2, Zenon DEF Filled
    <3> QED
      BY <3>1, <3>2, Zenon
  <2>2. ASSUME NEW p \in Positions, Ahead(p) \in Size + 1 .. Capacity - 1 PROVE Free(p)'
    <3>1. Ahead(p) \in Size .. Capacity - 1
      BY <1>5, <2>2
    <3>2. Free(p)
      BY <3>1, Zenon DEF IInv, SlotsInv
    <3> QED
      BY <1>2, <1>10, <3>2, Zenon DEF Free
  <2>3. Size + 1 <= Capacity
    BY <1>5, <1>6, Sizes
  <2> QED
    BY <1>7, <2>1, <2>2, <2>3, Zenon DEF SlotsInv
<1>13. OwnersInv'
  <2>1. \A u \in Threads : pc'[u] \in PushOwns => Ahead(pos[u]) < Size + 1
    <3> SUFFICES ASSUME NEW u \in Threads, pc'[u] \in PushOwns
                 PROVE  Ahead(pos[u]) < Size + 1
      BY Zenon
    <3>1. CASE u = t
      BY <1>1, <1>5, <3>1
    <3>2. CASE u # t
      <4>1. Ahead(pos[u]) < Size /\ Ahead(pos[u]) \in Nat
        BY <1>5, <1>9, <3>2, Types, Zenon DEF IInv, OwnersInv
      <4> QED
        BY <1>5, <4>1
    <3> QED
      BY <3>1, <3>2, Zenon
  <2>2. \A u \in Threads : pc'[u] \in PopOwns =>
          Ahead(Plus(pos[u], Capacity)) \in Size + 1 .. Capacity - 1
    <3> SUFFICES ASSUME NEW u \in Threads, pc'[u] \in PopOwns
                 PROVE  Ahead(Plus(pos[u], Capacity)) \in Size + 1 .. Capacity - 1
      BY Zenon
    <3>1. pc[u] \in PopOwns
      BY <1>1, <1>9, Zenon
    <3>2. /\ Plus(pos[u], Capacity) \in Positions
          /\ Ahead(Plus(pos[u], Capacity)) \in Size .. Capacity - 1
          /\ Minus(Plus(pos[u], Capacity), Capacity) = pos[u]
      BY <3>1, PopOwnerSlot, Zenon
    <3>3. Plus(pos[u], Capacity) # x
      BY <1>6, <3>1, <3>2, Zenon DEF PopOwner
    <3> QED
      BY <1>5, <1>8, <3>2, <3>3
  <2>3. \A u, w \in Threads :
          pc'[u] \in PushOwns /\ pc'[w] \in PushOwns /\ pos[u] = pos[w] => u = w
    BY <1>1, <1>9, <1>11, Zenon DEF IInv, OwnersInv, PushOwner
  <2>4. \A u, w \in Threads :
          pc'[u] \in PopOwns /\ pc'[w] \in PopOwns /\ pos[u] = pos[w] => u = w
    BY <1>1, <1>9, Zenon DEF IInv, OwnersInv
  <2> QED
    BY <1>2, <1>7, <2>1, <2>2, <2>3, <2>4, Zenon DEF OwnersInv
<1>14. \A u \in Threads : pc'[u] \in PushWindow => Minus(x, pos[u]) < StaleBound /\ pos[u] \in Positions
  BY <1>1, <1>2, <1>9, Types, Zenon DEF IInv, PushInWindow, x
<1>15. ClaimsInv'
  <2>1. \A u \in Threads : pc'[u] = "push_cas" => pos[u] # Plus(x, 1)
    BY <1>5, <1>14, NoWrapAround, Zenon DEF PushWindow
  <2> QED
    BY <1>1, <1>2, <1>9, <2>1, Zenon DEF IInv, ClaimsInv
<1>16. WindowInv'
  <2>1. \A u \in Threads : pc'[u] \in PushWindow => Minus(Plus(x, 1), pos[u]) <= StaleBound
    BY <1>5, <1>14, NoWrapAround, Zenon
  <2>2. \A u \in Threads : pc'[u] \in PopWindow => Minus(dequeue_pos_, pos[u]) <= StaleBound
    BY <1>1, <1>9, Zenon DEF IInv, WindowInv
  <2> QED
    BY <1>2, <2>1, <2>2, Zenon DEF WindowInv, StaleBound
<1>17. ValuesInv'
  <2>1. /\ Len(queue) = Size /\ Len(queue') = Size + 1 /\ queue'[Size + 1] = val[t]
        /\ \A k \in 1 .. Size : queue'[k] = queue[k]
    BY <1>2, <1>3, QueueAppend, Zenon DEF IInv, TypeOK, ValuesInv
  <2>2. \A p \in Positions : Ahead(p) < Size => queue'[Ahead(p) + 1] = queue[Ahead(p) + 1]
    BY <1>5, <2>1
  <2>3. \A u \in Threads :
          pc'[u] \in {"push_pos"} \union PushWindow \union PushOwns => val[u] \in Values
    BY <1>3, <1>9, Zenon DEF IInv, ValuesInv
  <2>4. \A u \in Threads : pc'[u] \in PushOwns => val[u] = queue'[Ahead(pos[u]) + 1]
    <3> SUFFICES ASSUME NEW u \in Threads, pc'[u] \in PushOwns
                 PROVE  val[u] = queue'[Ahead(pos[u]) + 1]
      BY Zenon
    <3>1. CASE u = t
      BY <1>1, <1>5, <2>1, <3>1, Zenon
    <3>2. CASE u # t
      <4>1. pc[u] \in PushOwns
        BY <1>9, <3>2, Zenon
      <4>2. Ahead(pos[u]) < Size /\ pos[u] \in Positions /\ val[u] = queue[Ahead(pos[u]) + 1]
        BY <4>1, PushOwnerSlot, Zenon DEF IInv, ValuesInv
      <4> QED
        BY <2>2, <4>2, Zenon
    <3> QED
      BY <3>1, <3>2, Zenon
  <2>5. \A u \in Threads : pc'[u] = "push_store" => slot_value[Slot(pos[u])] = val[u]
    BY <1>1, <1>9, Zenon DEF IInv, ValuesInv
  <2>6. ASSUME NEW p \in Positions, Ahead(p) < Size + 1, sequence[Slot(p)] = Plus(p, 1)
        PROVE  slot_value[Slot(p)] = queue'[Ahead(p) + 1]
    <3>1. p # x
      BY <1>6, <2>6, NextDiffers, Zenon
    <3>2. Ahead(p) < Size
      BY <1>5, <1>8, <2>6, <3>1
    <3> QED
      BY <2>2, <2>6, <3>2, Zenon DEF IInv, ValuesInv
  <2> QED
    BY <1>2, <1>7, <2>1, <2>3, <2>4, <2>5, <2>6, Zenon DEF ValuesInv
<1> QED
  BY <1>4, <1>12, <1>13, <1>15, <1>16, <1>17, Zenon DEF IInv

LEMMA PopClaimStep ==
  ASSUME IInv, Capacity > 1, NEW t \in Threads, PopClaim(t)
  PROVE  IInv'
<1> DEFINE x == dequeue_pos_
           n == Plus(x, Capacity)
<1> USE DEF PopClaim, Goto
<1>1. /\ pc[t] = "pop_cas" /\ x = pos[t] /\ pc'[t] = "pop_read" /\ Alone(t)
      /\ pc[t] \notin PushOwns \union PopOwns /\ pc'[t] \in PopOwns
      /\ pc'[t] \notin {"push_pos"} \union PushOwns \union PushWindow \union PopWindow
      /\ pc'[t] # "push_store" /\ pc'[t] # "push_cas" /\ pc'[t] # "pop_cas"
  BY Zenon DEF IInv, TypeOK, PushOwns, PopOwns, PushWindow, PopWindow, Alone
<1>2. /\ UNCHANGED <<enqueue_pos_, sequence, slot_value, pos, val>>
      /\ dequeue_pos_' = Plus(x, 1) /\ queue' = Tail(queue) /\ PopInWindow(t)
  BY Zenon
<1>3. Size > 0 /\ Ahead(x) = 0 /\ sequence[Slot(x)] = Plus(x, 1) /\ ~ PushOwner(x)
  BY <1>1, PopClaimable, Zenon
<1>4. TypeOK'
  <2>1. Plus(pos[t], 1) \in Positions
    BY Types, PositionTypes, OneIsPosition, Zenon DEF IInv
  <2>2. Tail(queue) \in Seq(Values)
    BY <1>3, QueueTail, Zenon DEF IInv, TypeOK, ValuesInv
  <2> QED
    BY <2>1, <2>2, Zenon DEF IInv, TypeOK, PopOwns
<1> HIDE DEF PopClaim, Goto
<1>5. /\ x \in Positions /\ enqueue_pos_ \in Positions /\ Size \in Nat /\ Size <= Capacity
      /\ \A p \in Positions : Ahead(p) \in Nat
  BY Types DEF IInv, Positions, SlotsInv
<1>6. /\ n \in Positions /\ Ahead(n) = Capacity /\ Minus(n, Capacity) = x /\ Slot(n) = Slot(x)
      /\ n # Plus(x, 1) /\ \A p \in Positions : Minus(p, Capacity) = x => p = n
  <2>1. n \in Positions /\ Minus(n, Capacity) = x /\ Slot(n) = Slot(x)
    BY <1>5, Sizes, PositionTypes, PlusMinus, SlotLap, Zenon
  <2>2. Ahead(n) = Capacity
    BY <1>5, Sizes, MinusPlus, Zenon DEF Ahead
  <2>3. n # Plus(x, 1)
    BY <1>5, NextDiffers, Zenon
  <2>4. \A p \in Positions : Minus(p, Capacity) = x => p = n
    BY Sizes, PlusMinus, Zenon
  <2> QED
    BY <2>1, <2>2, <2>3, <2>4, Zenon
<1>7. \A p \in Positions : Ahead(p)' = IF p = x THEN PosMod - 1 ELSE Ahead(p) - 1
  BY <1>2, <1>5, MinusNext, Zenon DEF Ahead
<1>8. Size' = Size - 1
  <2>1. Size' = (Ahead(enqueue_pos_))'
    BY Zenon DEF Size
  <2>2. (Ahead(enqueue_pos_))' = Minus(enqueue_pos_, Plus(x, 1))
    BY <1>2, Zenon DEF Ahead
  <2>3. enqueue_pos_ # x
    BY <1>3 DEF Size
  <2>4. Minus(enqueue_pos_, Plus(x, 1)) = Minus(enqueue_pos_, x) - 1
    BY <1>5, <2>3, MinusNext, Zenon
  <2> QED
    BY <2>1, <2>2, <2>4, Zenon DEF Size, Ahead
<1>9. \A u \in Threads : u # t => pc'[u] = pc[u]
  BY <1>1, Zenon DEF Alone
<1>10. \A p : /\ PushOwner(p)' <=> PushOwner(p)
              /\ PopOwner(p)' <=> PopOwner(p) \/ p = x
  BY <1>1, <1>2, <1>9, Zenon DEF PushOwner, PopOwner
<1> HIDE DEF x, n
<1>11. \A p \in Positions : Ahead(p) = Capacity => p = n
  BY <1>5, <1>6, SameMinus, Zenon DEF Ahead, x
<1>12. SlotsInv'
  <2>1. ASSUME NEW p \in Positions, (Ahead(p))' < Size - 1 PROVE Filled(p)'
    <3>1. Ahead(p) < Size
      BY <1>3, <1>5, <1>7, <2>1, Sizes
    <3>2. Filled(p)
      BY <3>1, Zenon DEF IInv, SlotsInv
    <3> QED
      BY <1>2, <1>10, <3>2, Zenon DEF Filled
  <2>2. ASSUME NEW p \in Positions, (Ahead(p))' \in Size - 1 .. Capacity - 1 PROVE Free(p)'
    <3>1. Ahead(p) \in Size .. Capacity /\ p # x
      BY <1>3, <1>5, <1>7, <2>2, Sizes
    <3>2. CASE Ahead(p) = Capacity
      <4>1. p = n
        BY <1>11, <3>2, Zenon
      <4>2. sequence'[Slot(p)] = Plus(x, 1) /\ Minus(p, Capacity) = x /\ p # Plus(x, 1)
        BY <1>2, <1>3, <1>6, <4>1, Zenon
      <4> QED
        BY <1>10, <4>2, Zenon DEF Free
    <3>3. CASE Ahead(p) # Capacity
      <4>1. Ahead(p) \in Size .. Capacity - 1
        BY <1>5, <3>1, <3>3, Sizes
      <4>2. Free(p)
        BY <4>1, Zenon DEF IInv, SlotsInv
      <4>3. Minus(p, Capacity) # x
        BY <1>6, <3>3, Zenon
      <4> QED
        BY <1>2, <1>10, <4>2, <4>3, Zenon DEF Free
    <3> QED
      BY <3>2, <3>3, Zenon
  <2>3. Size - 1 <= Capacity
    BY <1>5, Sizes
  <2> QED
    BY <1>8, <2>1, <2>2, <2>3, Zenon DEF SlotsInv
<1>13. OwnersInv'
  <2>1. ASSUME NEW u \in Threads, pc'[u] \in PushOwns
        PROVE  (Ahead(pos[u]))' < Size - 1
    <3>1. pc[u] \in PushOwns
      BY <1>1, <1>9, <2>1, Zenon
    <3>2. pos[u] \in Positions /\ Ahead(pos[u]) < Size /\ pos[u] # x
      BY <1>3, <3>1, PushOwnerSlot, Zenon DEF PushOwner
    <3>3. (Ahead(pos[u]))' = Ahead(pos[u]) - 1
      BY <1>2, <1>7, <3>2, Zenon DEF Ahead
    <3> QED
      BY <1>5, <3>2, <3>3
  <2>2. ASSUME NEW u \in Threads, pc'[u] \in PopOwns
        PROVE  (Ahead(Plus(pos[u], Capacity)))' \in Size - 1 .. Capacity - 1
    <3>1. CASE u = t
      <4>1. (Ahead(Plus(pos[u], Capacity)))' = Minus(n, Plus(x, 1))
        BY <1>1, <1>2, <3>1, Zenon DEF n, Ahead
      <4>2. n # x
        BY <1>3, <1>6, Sizes
      <4>3. Minus(n, Plus(x, 1)) = Capacity - 1
        BY <1>5, <1>6, <4>2, MinusNext, Zenon DEF Ahead, x
      <4> QED
        BY <1>5, <4>1, <4>3, Sizes
    <3>2. CASE u # t
      <4> DEFINE m == Plus(pos[u], Capacity)
      <4>1. pc[u] \in PopOwns
        BY <1>9, <2>2, <3>2, Zenon
      <4>2. m \in Positions /\ Ahead(m) \in Size .. Capacity - 1
        BY <4>1, PopOwnerSlot, Zenon
      <4>3. m # x
        BY <1>3, <1>5, <4>2
      <4>4. (Ahead(m))' = Minus(m, Plus(x, 1))
        BY <1>2, Zenon DEF Ahead
      <4> HIDE DEF m
      <4>5. Minus(m, Plus(x, 1)) = Ahead(m) - 1
        BY <1>5, <4>2, <4>3, MinusNext, Zenon DEF Ahead, x
      <4>6. Ahead(m) - 1 \in Size - 1 .. Capacity - 1
        BY <1>5, <4>2, Sizes
      <4> QED
        BY <4>4, <4>5, <4>6, Zenon DEF m
    <3> QED
      BY <3>1, <3>2, Zenon
  <2>3. \A u, w \in Threads :
          pc'[u] \in PushOwns /\ pc'[w] \in PushOwns /\ pos[u] = pos[w] => u = w
    BY <1>1, <1>9, Zenon DEF IInv, OwnersInv
  <2>4. \A u \in Threads : pc[u] \in PopOwns => pos[u] # x
    <3> SUFFICES ASSUME NEW u \in Threads, pc[u] \in PopOwns, pos[u] = x PROVE FALSE
      BY Zenon
    <3>1. Ahead(n) \in Size .. Capacity - 1
      BY PopOwnerSlot, Zenon DEF n
    <3> QED
      BY <1>5, <1>6, <3>1, Sizes
  <2>5. \A u, w \in Threads :
          pc'[u] \in PopOwns /\ pc'[w] \in PopOwns /\ pos[u] = pos[w] => u = w
    BY <1>1, <1>9, <2>4, Zenon DEF IInv, OwnersInv
  <2> QED
    BY <1>2, <1>8, <2>1, <2>2, <2>3, <2>5, Zenon DEF OwnersInv
<1>14. \A u \in Threads : pc'[u] \in PopWindow => Minus(x, pos[u]) < StaleBound /\ pos[u] \in Positions
  BY <1>1, <1>2, <1>9, Types, Zenon DEF IInv, PopInWindow, x
<1>15. ClaimsInv'
  <2>1. \A u \in Threads : pc'[u] = "pop_cas" => pos[u] # Plus(x, 1)
    BY <1>5, <1>14, NoWrapAround, Zenon DEF PopWindow
  <2> QED
    BY <1>1, <1>2, <1>9, <2>1, Zenon DEF IInv, ClaimsInv
<1>16. WindowInv'
  <2>1. \A u \in Threads : pc'[u] \in PopWindow => Minus(Plus(x, 1), pos[u]) <= StaleBound
    BY <1>5, <1>14, NoWrapAround, Zenon
  <2>2. \A u \in Threads : pc'[u] \in PushWindow => Minus(enqueue_pos_, pos[u]) <= StaleBound
    BY <1>1, <1>9, Zenon DEF IInv, WindowInv
  <2> QED
    BY <1>2, <2>1, <2>2, Zenon DEF WindowInv, StaleBound
<1>17. ValuesInv'
  <2>1. /\ Len(queue) = Size /\ Len(queue') = Size - 1
        /\ \A k \in 1 .. Size - 1 : queue'[k] = queue[k + 1]
    BY <1>2, <1>3, QueueTail, Zenon DEF IInv, TypeOK, ValuesInv
  <2>2. ASSUME NEW p \in Positions, Ahead(p) < Size, p # x
        PROVE  (Ahead(p))' = Ahead(p) - 1 /\ queue'[(Ahead(p))' + 1] = queue[Ahead(p) + 1]
    <3>1. Ahead(p) # 0
      BY <1>5, <2>2, MinusZero, Zenon DEF Ahead, x
    <3>2. (Ahead(p))' = Ahead(p) - 1
      BY <1>7, <2>2, Zenon
    <3>3. Ahead(p) - 1 + 1 \in 1 .. Size - 1 /\ Ahead(p) - 1 + 1 = Ahead(p)
      BY <1>5, <2>2, <3>1
    <3> QED
      BY <2>1, <3>2, <3>3
  <2>3. \A u \in Threads :
          pc'[u] \in {"push_pos"} \union PushWindow \union PushOwns => val[u] \in Values
    BY <1>1, <1>9, Zenon DEF IInv, ValuesInv
  <2>4. ASSUME NEW u \in Threads, pc'[u] \in PushOwns
        PROVE  val[u] = queue'[(Ahead(pos[u]))' + 1]
    <3>1. pc[u] \in PushOwns
      BY <1>1, <1>9, <2>4, Zenon
    <3>2. pos[u] \in Positions /\ Ahead(pos[u]) < Size /\ pos[u] # x
      BY <1>3, <3>1, PushOwnerSlot, Zenon DEF PushOwner
    <3>3. val[u] = queue[Ahead(pos[u]) + 1]
      BY <3>1, Zenon DEF IInv, ValuesInv
    <3>4. PICK p \in Positions : p = pos[u]
      BY <3>2, Zenon
    <3>5. queue'[(Ahead(p))' + 1] = queue[Ahead(p) + 1]
      BY <2>2, <3>2, <3>4, Zenon
    <3>6. (Ahead(pos[u]))' = (Ahead(p))'
      BY <1>2, <3>4, Zenon DEF Ahead
    <3> QED
      BY <3>3, <3>4, <3>5, <3>6, Zenon
  <2>5. \A u \in Threads : pc'[u] = "push_store" => slot_value[Slot(pos[u])] = val[u]
    BY <1>1, <1>9, Zenon DEF IInv, ValuesInv
  <2>6. ASSUME NEW p \in Positions, (Ahead(p))' < Size - 1, sequence[Slot(p)] = Plus(p, 1)
        PROVE  slot_value[Slot(p)] = queue'[(Ahead(p))' + 1]
    <3>1. p # x /\ Ahead(p) < Size
      BY <1>3, <1>5, <1>7, <2>6, Sizes
    <3> QED
      BY <2>2, <2>6, <3>1, Zenon DEF IInv, ValuesInv
  <2> QED
    BY <1>2, <1>8, <2>1, <2>3, <2>4, <2>5, <2>6, Zenon DEF ValuesInv
<1> QED
  BY <1>4, <1>12, <1>13, <1>15, <1>16, <1>17, Zenon DEF IInv

-----------------------------------------------------------------------------
LEMMA NextIInv ==
  ASSUME Capacity > 1
  PROVE  IInv /\ [Next]_vars => IInv'
<1> SUFFICES ASSUME IInv, [Next]_vars PROVE IInv'
  BY Zenon
<1>1. CASE UNCHANGED vars
  <2>1. /\ UNCHANGED <<enqueue_pos_, dequeue_pos_, sequence, slot_value, queue>>
        /\ UNCHANGED <<pc, pos, val>>
    BY <1>1, Zenon DEF vars
  <2>2. TypeOK' /\ ClaimsInv' /\ WindowInv'
    BY <2>1, Zenon DEF IInv, TypeOK, ClaimsInv, WindowInv, StaleBound
  <2>3. Size' = Size /\ \A p : Ahead(p)' = Ahead(p)
    BY <2>1, Zenon DEF Size, Ahead
  <2>4. \A p : (Filled(p)' <=> Filled(p)) /\ (Free(p)' <=> Free(p))
    BY <2>1, Zenon DEF Filled, Free, PushOwner, PopOwner
  <2>5. SlotsInv'
    BY <2>3, <2>4, Zenon DEF IInv, SlotsInv
  <2>6. OwnersInv' /\ ValuesInv'
    BY <2>1, <2>3, Zenon DEF IInv, OwnersInv, ValuesInv
  <2> QED
    BY <2>2, <2>5, <2>6, Zenon DEF IInv
<1>2. ASSUME NEW t \in Threads, NEW v \in Values, CallPush(t, v) PROVE IInv'
  BY <1>2, CallPushStep, Zenon
<1>3. ASSUME NEW t \in Threads, PushStep(t) PROVE IInv'
  <2>1. CASE PushPos(t) \/ PushRetry(t)
    BY <2>1, PushLoadStep, Zenon
  <2>2. CASE PushSeq(t)
    BY <2>2, PushSeqStep, Zenon
  <2>3. CASE PushClaim(t)
    BY <2>3, PushClaimStep, Zenon
  <2>4. CASE PushWrite(t)
    BY <2>4, PushWriteStep, Zenon
  <2>5. CASE PushStore(t)
    BY <2>5, PushStoreStep, Zenon
  <2> QED
    BY <1>3, <2>1, <2>2, <2>3, <2>4, <2>5, Zenon DEF PushStep
<1>4. ASSUME NEW t \in Threads, CallPop(t) PROVE IInv'
  BY <1>4, CallPopStep, Zenon
<1>5. ASSUME NEW t \in Threads, PopStep(t) PROVE IInv'
  <2>1. CASE PopPos(t) \/ PopRetry(t)
    BY <2>1, PopLoadStep, Zenon
  <2>2. CASE PopSeq(t)
    BY <2>2, PopSeqStep, Zenon
  <2>3. CASE PopClaim(t)
    BY <2>3, PopClaimStep, Zenon
  <2>4. CASE PopRead(t)
    BY <2>4, PopReadStep, Zenon
  <2>5. CASE PopStore(t)
    BY <2>5, PopStoreStep, Zenon
  <2> QED
    BY <1>5, <2>1, <2>2, <2>3, <2>4, <2>5, Zenon DEF PopStep
<1> QED
  BY <1>1, <1>2, <1>3, <1>4, <1>5, Zenon DEF Next, Threads

(* The inductive invariant holds in every reachable state of a ring of more *)
(* than one slot.                                                           *)
THEOREM Inductive ==
  ASSUME Capacity > 1
  PROVE  Spec => []IInv
<1>1. IInv /\ [Next]_vars => IInv'
  BY NextIInv, Zenon
<1> QED
  BY <1>1, InitIInv, PTL DEF Spec

(* Every variable keeps a value of its type. *)
THEOREM TypeCorrect ==
  ASSUME Capacity > 1
  PROVE  Spec => []TypeOK
<1>1. IInv => TypeOK
  BY Zenon DEF IInv
<1> QED
  BY <1>1, Inductive, PTL

(* Slot values are never accessed by two threads at once, one of them       *)
(* writing: the sequence numbers make the plain accesses of try_push and    *)
(* try_pop race-free, whatever is retried and however often the counters    *)
(* wrap around.                                                             *)
THEOREM RaceFree ==
  ASSUME Capacity > 1
  PROVE  Spec => []NoDataRace
  BY Inductive, RaceFreeState, PTL

(* A ring of more than one slot never holds more than Capacity values.      *)
THEOREM HoldsCapacity ==
  ASSUME Capacity > 1
  PROVE  Spec => []NeverOverfull
<1>1. IInv => NeverOverfull
  BY Zenon DEF IInv, SlotsInv, ValuesInv, NeverOverfull
<1> QED
  BY <1>1, Inductive, PTL

(* Every slot of the ring, on every lap, is in the hands of at most one     *)
(* push or pop, and its sequence number says which call comes next.         *)
THEOREM SlotsOwnedOnce ==
  ASSUME Capacity > 1
  PROVE  Spec => []SlotOwnership
<1>1. IInv => SlotOwnership
  BY OwnershipState, Zenon
<1> QED
  BY <1>1, Inductive, PTL

-----------------------------------------------------------------------------
(* The variables of the queue. *)
ModeBar == IF SignedWraps THEN "overlap" ELSE "any"
OpBar == [t \in Threads |-> OpOf(pc[t])]
ValBar == [t \in Threads |-> IF pc[t] = "pop_read"
                             THEN slot_value[Slot(pos[t])] ELSE val[t]]

LEMMA OpOfIs ==
  /\ OpOf("idle") = "none"
  /\ OpOf("push_pos") = "push" /\ \A l \in PushWindow : OpOf(l) = "push"
  /\ OpOf("pop_pos") = "pop" /\ \A l \in PopWindow : OpOf(l) = "pop"
  /\ \A l \in PushOwns : OpOf(l) = "pushed"
  /\ \A l \in PopOwns : OpOf(l) = "popped"
  BY Zenon DEF OpOf, PushWindow, PopWindow, PushOwns, PopOwns

(* What one thread's step does to them. *)
LEMMA OpMoves ==
  ASSUME NEW t \in Threads, NEW l, pc = [u \in Threads |-> pc[u]], Goto(t, l)
  PROVE  /\ OpBar[t] = OpOf(pc[t])
         /\ OpBar' = [OpBar EXCEPT ![t] = OpOf(l)]
         /\ OpOf(l) = OpOf(pc[t]) => OpBar' = OpBar
<1>1. OpBar[t] = OpOf(pc[t])
  BY Zenon DEF OpBar
<1>2. \A u \in Threads : OpBar'[u] = IF u = t THEN OpOf(l) ELSE OpBar[u]
  BY Zenon DEF OpBar, Goto
<1>3. OpBar = [u \in Threads |-> OpBar[u]] /\ OpBar' = [u \in Threads |-> OpBar'[u]]
  BY Zenon DEF OpBar
<1> HIDE DEF OpBar
<1>4. OpBar' = [OpBar EXCEPT ![t] = OpOf(l)]
  BY <1>2, <1>3, Zenon
<1>5. OpOf(l) = OpOf(pc[t]) => OpBar' = OpBar
  BY <1>1, <1>2, <1>3, Zenon
<1> QED
  BY <1>1, <1>4, <1>5, Zenon

LEMMA ValMoves ==
  ASSUME NEW t \in Threads, Alone(t), UNCHANGED slot_value
  PROVE  /\ ValBar' = [ValBar EXCEPT ![t] = ValBar'[t]]
         /\ ValBar'[t] = ValBar[t] => ValBar' = ValBar
<1>1. \A u \in Threads : u # t => ValBar'[u] = ValBar[u]
  BY Zenon DEF ValBar, Alone
<1>2. ValBar = [u \in Threads |-> ValBar[u]] /\ ValBar' = [u \in Threads |-> ValBar'[u]]
  BY Zenon DEF ValBar
<1> HIDE DEF ValBar
<1> QED
  BY <1>1, <1>2, Zenon

(* A push that writes its slot disturbs no pop that is reading another, and *)
(* a pop that claims a slot finds the first value of the queue in it.       *)
LEMMA WriteKeepsValues ==
  ASSUME IInv, Capacity > 1, NEW t \in Threads, PushWrite(t)
  PROVE  ValBar' = ValBar
<1>1. /\ pc = [u \in Threads |-> pc[u]] /\ pc[t] = "push_write" /\ Goto(t, "push_store")
      /\ Alone(t) /\ slot_value' = [slot_value EXCEPT ![Slot(pos[t])] = val[t]]
      /\ UNCHANGED <<pos, val>>
  BY Zenon DEF PushWrite, Goto, Alone, IInv, TypeOK
<1>2. ASSUME NEW u \in Threads PROVE ValBar'[u] = ValBar[u]
  <2>1. CASE u = t
    BY <1>1, <2>1, Zenon DEF ValBar, Goto
  <2>2. CASE u # t /\ pc[u] = "pop_read"
    <3>1. Slot(pos[t]) # Slot(pos[u])
      BY <1>1, <2>2, RaceFreeState, Zenon DEF NoDataRace
    <3>2. slot_value'[Slot(pos[u])] = slot_value[Slot(pos[u])]
      BY <1>1, <3>1, Types, Zenon DEF IInv, TypeOK
    <3> QED
      BY <1>1, <2>2, <3>2, Zenon DEF ValBar, Alone
  <2>3. CASE u # t /\ pc[u] # "pop_read"
    BY <1>1, <2>3, Zenon DEF ValBar, Alone
  <2> QED
    BY <2>1, <2>2, <2>3, Zenon
<1>3. ValBar = [u \in Threads |-> ValBar[u]] /\ ValBar' = [u \in Threads |-> ValBar'[u]]
  BY Zenon DEF ValBar
<1> QED
  BY <1>2, <1>3, Zenon

LEMMA ClaimTakesHead ==
  ASSUME IInv, NEW t \in Threads, PopClaim(t)
  PROVE  queue # <<>> /\ ValBar' = [ValBar EXCEPT ![t] = Head(queue)]
<1>1. /\ pc = [u \in Threads |-> pc[u]] /\ pc[t] = "pop_cas" /\ Goto(t, "pop_read")
      /\ Alone(t) /\ dequeue_pos_ = pos[t] /\ UNCHANGED <<pos, slot_value>>
  BY Zenon DEF PopClaim, Goto, Alone, IInv, TypeOK
<1>2. /\ Size > 0 /\ Ahead(pos[t]) = 0
      /\ sequence[Slot(pos[t])] = Plus(pos[t], 1)
  BY <1>1, PopClaimable, Zenon
<1>3. slot_value[Slot(pos[t])] = queue[Ahead(pos[t]) + 1]
  <2>1. Ahead(pos[t]) < Size /\ pos[t] \in Positions
    BY <1>2, Types, Zenon DEF IInv
  <2> QED
    BY <1>2, <2>1, Zenon DEF IInv, ValuesInv
<1>4. queue # <<>> /\ Head(queue) = queue[1]
  <2>1. queue \in Seq(Values) /\ Len(queue) > 0
    BY <1>2, Zenon DEF IInv, TypeOK, ValuesInv
  <2> QED
    BY <2>1
<1>5. ValBar'[t] = Head(queue)
  <2>1. ValBar'[t] = slot_value[Slot(pos[t])]
    BY <1>1, Zenon DEF ValBar, Goto
  <2> QED
    BY <1>2, <1>3, <1>4, <2>1
<1>6. ValBar' = [ValBar EXCEPT ![t] = Head(queue)]
  BY <1>1, <1>5, ValMoves, Zenon
<1> QED
  BY <1>4, <1>6, Zenon

(* The steps of the queue, in the variables above. *)
LEMMA QueueSteps ==
  ASSUME NEW t \in Threads
  PROVE  /\ \A v \in Values :
              /\ OpBar[t] = "none" /\ OpBar' = [OpBar EXCEPT ![t] = "push"]
              /\ ValBar' = [ValBar EXCEPT ![t] = v] /\ queue' = queue
              => Fifo!Next
         /\ /\ OpBar[t] = "push" /\ OpBar' = [OpBar EXCEPT ![t] = "pushed"]
            /\ Len(queue) < Capacity /\ queue' = Append(queue, ValBar[t])
            /\ ValBar' = ValBar
            => Fifo!Next
         /\ /\ OpBar[t] = "pushed" /\ OpBar' = [OpBar EXCEPT ![t] = "none"]
            /\ ValBar' = [ValBar EXCEPT ![t] = None] /\ queue' = queue
            => Fifo!Next
         /\ /\ OpBar[t] = "push" /\ OpBar' = [OpBar EXCEPT ![t] = "none"]
            /\ \/ Len(queue) = Capacity
               \/ ModeBar = "overlap" /\ \E u \in Threads : OpBar[u] = "popped"
               \/ ModeBar = "any"
            /\ ValBar' = [ValBar EXCEPT ![t] = None] /\ queue' = queue
            => Fifo!Next
         /\ /\ OpBar[t] = "none" /\ OpBar' = [OpBar EXCEPT ![t] = "pop"]
            /\ ValBar' = [ValBar EXCEPT ![t] = None] /\ queue' = queue
            => Fifo!Next
         /\ /\ OpBar[t] = "pop" /\ OpBar' = [OpBar EXCEPT ![t] = "popped"]
            /\ queue # <<>> /\ queue' = Tail(queue)
            /\ ValBar' = [ValBar EXCEPT ![t] = Head(queue)]
            => Fifo!Next
         /\ /\ OpBar[t] = "popped" /\ OpBar' = [OpBar EXCEPT ![t] = "none"]
            /\ ValBar' = ValBar /\ queue' = queue
            => Fifo!Next
         /\ /\ OpBar[t] = "pop" /\ OpBar' = [OpBar EXCEPT ![t] = "none"]
            /\ \/ queue = <<>>
               \/ ModeBar = "overlap" /\ \E u \in Threads : OpBar[u] = "pushed"
               \/ ModeBar = "any"
            /\ ValBar' = ValBar /\ queue' = queue
            => Fifo!Next
<1>1. ASSUME NEW v \in Values, OpBar[t] = "none", OpBar' = [OpBar EXCEPT ![t] = "push"],
             ValBar' = [ValBar EXCEPT ![t] = v], queue' = queue
      PROVE  Fifo!Next
  BY <1>1, Zenon DEF Fifo!Next, Fifo!CallPush, OpBar, ValBar
<1>2. ASSUME OpBar[t] = "push", OpBar' = [OpBar EXCEPT ![t] = "pushed"],
             Len(queue) < Capacity, queue' = Append(queue, ValBar[t]), ValBar' = ValBar
      PROVE  Fifo!Next
  BY <1>2, Zenon DEF Fifo!Next, Fifo!PushEffect, OpBar, ValBar
<1>3. ASSUME OpBar[t] = "pushed", OpBar' = [OpBar EXCEPT ![t] = "none"],
             ValBar' = [ValBar EXCEPT ![t] = None], queue' = queue
      PROVE  Fifo!Next
  BY <1>3, Zenon DEF Fifo!Next, Fifo!PushReturn, OpBar, ValBar
<1>4. ASSUME OpBar[t] = "push", OpBar' = [OpBar EXCEPT ![t] = "none"],
             \/ Len(queue) = Capacity
             \/ ModeBar = "overlap" /\ \E u \in Threads : OpBar[u] = "popped"
             \/ ModeBar = "any",
             ValBar' = [ValBar EXCEPT ![t] = None], queue' = queue
      PROVE  Fifo!Next
  BY <1>4, Zenon DEF Fifo!Next, Fifo!PushFull, OpBar, ValBar, ModeBar
<1>5. ASSUME OpBar[t] = "none", OpBar' = [OpBar EXCEPT ![t] = "pop"],
             ValBar' = [ValBar EXCEPT ![t] = None], queue' = queue
      PROVE  Fifo!Next
  BY <1>5, Zenon DEF Fifo!Next, Fifo!CallPop, OpBar, ValBar
<1>6. ASSUME OpBar[t] = "pop", OpBar' = [OpBar EXCEPT ![t] = "popped"],
             queue # <<>>, queue' = Tail(queue), ValBar' = [ValBar EXCEPT ![t] = Head(queue)]
      PROVE  Fifo!Next
  BY <1>6, Zenon DEF Fifo!Next, Fifo!PopEffect, OpBar, ValBar
<1>7. ASSUME OpBar[t] = "popped", OpBar' = [OpBar EXCEPT ![t] = "none"],
             ValBar' = ValBar, queue' = queue
      PROVE  Fifo!Next
  BY <1>7, Zenon DEF Fifo!Next, Fifo!PopReturn, OpBar, ValBar
<1>8. ASSUME OpBar[t] = "pop", OpBar' = [OpBar EXCEPT ![t] = "none"],
             \/ queue = <<>>
             \/ ModeBar = "overlap" /\ \E u \in Threads : OpBar[u] = "pushed"
             \/ ModeBar = "any",
             ValBar' = ValBar, queue' = queue
      PROVE  Fifo!Next
  BY <1>8, Zenon DEF Fifo!Next, Fifo!PopEmpty, OpBar, ValBar, ModeBar
<1> QED
  BY <1>1, <1>2, <1>3, <1>4, <1>5, <1>6, <1>7, <1>8, Zenon

LEMMA QueueStutters ==
  ASSUME OpBar' = OpBar, ValBar' = ValBar, queue' = queue
  PROVE  UNCHANGED Fifo!vars
  BY Zenon DEF Fifo!vars, OpBar, ValBar

LEMMA InitRefines == Init => Fifo!Init
<1> SUFFICES ASSUME Init PROVE Fifo!Init
  BY Zenon
<1>1. OpBar = [t \in Threads |-> "none"] /\ ValBar = [t \in Threads |-> None]
  BY OpOfIs, Zenon DEF Init, OpBar, ValBar
<1>2. ModeBar \in {"exact", "overlap", "any"} /\ queue = <<>>
  BY Zenon DEF ModeBar, Init
<1> QED
  BY <1>1, <1>2, Zenon DEF Fifo!Init, OpBar, ValBar, ModeBar

LEMMA LocalRefines ==
  ASSUME NEW t \in Threads, NEW l, pc = [u \in Threads |-> pc[u]], Goto(t, l), Alone(t),
         UNCHANGED <<val, slot_value, queue>>,
         pc[t] # "pop_read", l # "pop_read", OpOf(l) = OpOf(pc[t])
  PROVE  UNCHANGED Fifo!vars
<1>1. OpBar' = OpBar
  BY OpMoves, Zenon
<1>2. ValBar'[t] = ValBar[t]
  BY Zenon DEF ValBar, Goto
<1> QED
  BY <1>1, <1>2, ValMoves, QueueStutters, Zenon

(* Every step of a thread is a step of the queue or changes nothing of it.  *)
LEMMA PushRefines ==
  ASSUME IInv, Capacity > 1, NEW t \in Threads,
         PushStep(t) \/ \E v \in Values : CallPush(t, v)
  PROVE  Fifo!Next \/ UNCHANGED Fifo!vars
<1>1. pc = [u \in Threads |-> pc[u]]
  BY Zenon DEF IInv, TypeOK
<1>2. ASSUME NEW v \in Values, CallPush(t, v) PROVE Fifo!Next
  <2>1. /\ pc[t] = "idle" /\ Goto(t, "push_pos") /\ queue' = queue
        /\ Alone(t) /\ UNCHANGED slot_value
    BY <1>2, Zenon DEF CallPush, Goto, Alone, IInv, TypeOK
  <2>2. OpBar[t] = "none" /\ OpBar' = [OpBar EXCEPT ![t] = "push"]
    BY <1>1, <2>1, OpMoves, OpOfIs
  <2>3. ValBar'[t] = v
    BY <1>1, <1>2, Zenon DEF CallPush, Goto, ValBar, IInv, TypeOK
  <2>4. ValBar' = [ValBar EXCEPT ![t] = v]
    BY <2>1, <2>3, ValMoves, Zenon
  <2> QED
    BY <2>1, <2>2, <2>4, QueueSteps, Zenon
<1>3. CASE PushPos(t) \/ PushRetry(t)
  <2>1. /\ pc[t] \in {"push_pos", "push_cas"} /\ Goto(t, "push_seq")
        /\ Alone(t) /\ UNCHANGED <<val, slot_value, queue>>
    BY <1>3, Zenon DEF PushPos, PushRetry, Goto, Alone, IInv, TypeOK
  <2>2. OpOf("push_seq") = OpOf(pc[t])
    BY <2>1, OpOfIs, Zenon DEF PushWindow
  <2> QED
    BY <1>1, <2>1, <2>2, LocalRefines, Zenon
<1>4. CASE PushSeq(t)
  <2>1. pc[t] = "push_seq" /\ Alone(t) /\ UNCHANGED <<slot_value, queue>>
    BY <1>4, Zenon DEF PushSeq, Goto, Return, Alone, IInv, TypeOK
  <2>2. PICK diff \in Diffs(sequence[Slot(pos[t])], pos[t]) :
          \/ diff = 0 /\ Goto(t, "push_cas") /\ UNCHANGED <<pos, val>>
          \/ diff < 0 /\ Return(t) /\ val' = [val EXCEPT ![t] = None]
          \/ diff > 0 /\ Goto(t, "push_pos") /\ UNCHANGED <<pos, val>>
    BY <1>4, Zenon DEF PushSeq
  <2>3. CASE Goto(t, "push_cas") /\ UNCHANGED <<pos, val>>
    <3>1. OpOf("push_cas") = OpOf(pc[t])
      BY <2>1, OpOfIs, Zenon DEF PushWindow
    <3> QED
      BY <1>1, <2>1, <2>3, <3>1, LocalRefines, Zenon
  <2>4. CASE Goto(t, "push_pos") /\ UNCHANGED <<pos, val>>
    <3>1. OpOf("push_pos") = OpOf(pc[t])
      BY <2>1, OpOfIs, Zenon DEF PushWindow
    <3> QED
      BY <1>1, <2>1, <2>4, <3>1, LocalRefines, Zenon
  <2>5. CASE diff < 0 /\ Return(t) /\ val' = [val EXCEPT ![t] = None]
    <3>1. pc[t] \in PushWindow
      BY <2>1, Zenon DEF PushWindow
    <3>2. OpBar[t] = "push" /\ OpBar' = [OpBar EXCEPT ![t] = "none"]
      BY <1>1, <2>5, <3>1, OpMoves, OpOfIs DEF Return
    <3>3. ValBar'[t] = None
      BY <1>1, <2>5, Zenon DEF Return, Goto, ValBar, IInv, TypeOK
    <3>4. ValBar' = [ValBar EXCEPT ![t] = None]
      BY <2>1, <3>3, ValMoves, Zenon
    <3>5. \/ Len(queue) = Capacity
          \/ ModeBar = "overlap" /\ \E u \in Threads : OpBar[u] = "popped"
          \/ ModeBar = "any"
      <4>1. CASE SignedWraps
        <5>1. Signed(Minus(sequence[Slot(pos[t])], pos[t])) < 0
          BY <2>5, <4>1, Zenon DEF Diffs
        <5>2. Len(queue) = Capacity \/ \E u \in Threads : pc[u] \in PopOwns
          BY <3>1, <5>1, PushFails, Zenon
        <5> QED
          BY <4>1, <5>2, OpOfIs, Zenon DEF ModeBar, OpBar
      <4>2. CASE ~ SignedWraps
        BY <4>2, Zenon DEF ModeBar
      <4> QED
        BY <4>1, <4>2, Zenon
    <3> QED
      BY <2>1, <3>2, <3>4, <3>5, QueueSteps, Zenon
  <2> QED
    BY <2>2, <2>3, <2>4, <2>5, Zenon
<1>5. CASE PushClaim(t)
  <2>1. /\ pc[t] = "push_cas" /\ Goto(t, "push_write") /\ Alone(t)
        /\ enqueue_pos_ = pos[t] /\ queue' = Append(queue, val[t])
        /\ UNCHANGED <<val, slot_value>>
    BY <1>5, Zenon DEF PushClaim, Goto, Alone, IInv, TypeOK
  <2>2. OpBar[t] = "push" /\ OpBar' = [OpBar EXCEPT ![t] = "pushed"]
    <3>1. pc[t] \in PushWindow /\ "push_write" \in PushOwns
      BY <2>1, Zenon DEF PushWindow, PushOwns
    <3> QED
      BY <1>1, <2>1, <3>1, OpMoves, OpOfIs
  <2>3. ValBar[t] = val[t] /\ ValBar'[t] = val[t]
    BY <1>1, <2>1, Zenon DEF ValBar, Goto
  <2>4. ValBar' = ValBar
    BY <2>1, <2>3, ValMoves, Zenon
  <2>5. Len(queue) < Capacity
    <3>1. Size < Capacity
      BY <2>1, PushClaimable, Zenon
    <3> QED
      BY <3>1, Zenon DEF IInv, ValuesInv
  <2> QED
    BY <2>1, <2>2, <2>3, <2>4, <2>5, QueueSteps, Zenon
<1>6. CASE PushWrite(t)
  <2>1. /\ pc[t] = "push_write" /\ Goto(t, "push_store") /\ Alone(t)
        /\ slot_value' = [slot_value EXCEPT ![Slot(pos[t])] = val[t]]
        /\ UNCHANGED <<pos, val, queue>>
    BY <1>6, Zenon DEF PushWrite, Goto, Alone, IInv, TypeOK
  <2>2. OpBar' = OpBar
    <3>1. OpOf("push_store") = OpOf(pc[t])
      BY <2>1, OpOfIs, Zenon DEF PushOwns
    <3> QED
      BY <1>1, <2>1, <3>1, OpMoves, Zenon
  <2>3. ValBar' = ValBar
    BY <1>6, WriteKeepsValues, Zenon
  <2> QED
    BY <2>1, <2>2, <2>3, QueueStutters, Zenon
<1>7. CASE PushStore(t)
  <2>1. /\ pc[t] = "push_store" /\ Goto(t, "idle") /\ Alone(t)
        /\ val' = [val EXCEPT ![t] = None] /\ UNCHANGED <<slot_value, queue>>
    BY <1>7, Zenon DEF PushStore, Goto, Return, Alone, IInv, TypeOK
  <2>2. OpBar[t] = "pushed" /\ OpBar' = [OpBar EXCEPT ![t] = "none"]
    <3>1. pc[t] \in PushOwns
      BY <2>1, Zenon DEF PushOwns
    <3> QED
      BY <1>1, <2>1, <3>1, OpMoves, OpOfIs
  <2>3. ValBar'[t] = None
    BY <1>1, <2>1, Zenon DEF Goto, ValBar, IInv, TypeOK
  <2>4. ValBar' = [ValBar EXCEPT ![t] = None]
    BY <2>1, <2>3, ValMoves, Zenon
  <2> QED
    BY <2>1, <2>2, <2>4, QueueSteps, Zenon
<1> QED
  BY <1>2, <1>3, <1>4, <1>5, <1>6, <1>7, Zenon DEF PushStep

LEMMA PopRefines ==
  ASSUME IInv, NEW t \in Threads, PopStep(t) \/ CallPop(t)
  PROVE  Fifo!Next \/ UNCHANGED Fifo!vars
<1>1. pc = [u \in Threads |-> pc[u]]
  BY Zenon DEF IInv, TypeOK
<1>2. CASE CallPop(t)
  <2>1. /\ pc[t] = "idle" /\ Goto(t, "pop_pos") /\ queue' = queue
        /\ Alone(t) /\ UNCHANGED slot_value
    BY <1>2, Zenon DEF CallPop, Goto, Alone, IInv, TypeOK
  <2>2. OpBar[t] = "none" /\ OpBar' = [OpBar EXCEPT ![t] = "pop"]
    BY <1>1, <2>1, OpMoves, OpOfIs
  <2>3. ValBar'[t] = None
    BY <1>1, <1>2, Zenon DEF CallPop, Goto, ValBar, IInv, TypeOK
  <2>4. ValBar' = [ValBar EXCEPT ![t] = None]
    BY <2>1, <2>3, ValMoves, Zenon
  <2> QED
    BY <2>1, <2>2, <2>4, QueueSteps, Zenon
<1>3. CASE PopPos(t) \/ PopRetry(t)
  <2>1. /\ pc[t] \in {"pop_pos", "pop_cas"} /\ Goto(t, "pop_seq")
        /\ Alone(t) /\ UNCHANGED <<val, slot_value, queue>>
    BY <1>3, Zenon DEF PopPos, PopRetry, Goto, Alone, IInv, TypeOK
  <2>2. OpOf("pop_seq") = OpOf(pc[t])
    BY <2>1, OpOfIs, Zenon DEF PopWindow
  <2> QED
    BY <1>1, <2>1, <2>2, LocalRefines, Zenon
<1>4. CASE PopSeq(t)
  <2>1. pc[t] = "pop_seq" /\ Alone(t) /\ UNCHANGED <<val, slot_value, queue>>
    BY <1>4, Zenon DEF PopSeq, Goto, Return, Alone, IInv, TypeOK
  <2>2. PICK diff \in Diffs(sequence[Slot(pos[t])], Plus(pos[t], 1)) :
          \/ diff = 0 /\ Goto(t, "pop_cas") /\ UNCHANGED pos
          \/ diff < 0 /\ Return(t)
          \/ diff > 0 /\ Goto(t, "pop_pos") /\ UNCHANGED pos
    BY <1>4, Zenon DEF PopSeq
  <2>3. CASE Goto(t, "pop_cas")
    <3>1. OpOf("pop_cas") = OpOf(pc[t])
      BY <2>1, OpOfIs, Zenon DEF PopWindow
    <3> QED
      BY <1>1, <2>1, <2>3, <3>1, LocalRefines, Zenon
  <2>4. CASE Goto(t, "pop_pos")
    <3>1. OpOf("pop_pos") = OpOf(pc[t])
      BY <2>1, OpOfIs, Zenon DEF PopWindow
    <3> QED
      BY <1>1, <2>1, <2>4, <3>1, LocalRefines, Zenon
  <2>5. CASE diff < 0 /\ Return(t)
    <3>1. pc[t] \in PopWindow
      BY <2>1, Zenon DEF PopWindow
    <3>2. OpBar[t] = "pop" /\ OpBar' = [OpBar EXCEPT ![t] = "none"]
      BY <1>1, <2>5, <3>1, OpMoves, OpOfIs DEF Return
    <3>3. ValBar'[t] = ValBar[t]
      BY <1>1, <2>1, <2>5, Zenon DEF Return, Goto, ValBar
    <3>4. ValBar' = ValBar
      BY <2>1, <3>3, ValMoves, Zenon
    <3>5. \/ queue = <<>>
          \/ ModeBar = "overlap" /\ \E u \in Threads : OpBar[u] = "pushed"
          \/ ModeBar = "any"
      <4>1. CASE SignedWraps
        <5>1. Signed(Minus(sequence[Slot(pos[t])], Plus(pos[t], 1))) < 0
          BY <2>5, <4>1, Zenon DEF Diffs
        <5>2. Len(queue) = 0 \/ \E u \in Threads : pc[u] \in PushOwns
          BY <3>1, <5>1, PopFails, Zenon
        <5>3. Len(queue) = 0 => queue = <<>>
          BY DEF IInv, TypeOK
        <5> QED
          BY <4>1, <5>2, <5>3, OpOfIs, Zenon DEF ModeBar, OpBar
      <4>2. CASE ~ SignedWraps
        BY <4>2, Zenon DEF ModeBar
      <4> QED
        BY <4>1, <4>2, Zenon
    <3> QED
      BY <2>1, <3>2, <3>4, <3>5, QueueSteps, Zenon
  <2> QED
    BY <2>2, <2>3, <2>4, <2>5, Zenon
<1>5. CASE PopClaim(t)
  <2>1. /\ pc[t] = "pop_cas" /\ Goto(t, "pop_read") /\ Alone(t)
        /\ dequeue_pos_ = pos[t] /\ queue' = Tail(queue)
        /\ UNCHANGED <<pos, slot_value>>
    BY <1>5, Zenon DEF PopClaim, Goto, Alone, IInv, TypeOK
  <2>2. OpBar[t] = "pop" /\ OpBar' = [OpBar EXCEPT ![t] = "popped"]
    <3>1. pc[t] \in PopWindow /\ "pop_read" \in PopOwns
      BY <2>1, Zenon DEF PopWindow, PopOwns
    <3> QED
      BY <1>1, <2>1, <3>1, OpMoves, OpOfIs
  <2>3. queue # <<>> /\ ValBar' = [ValBar EXCEPT ![t] = Head(queue)]
    BY <1>5, ClaimTakesHead, Zenon
  <2> QED
    BY <2>1, <2>2, <2>3, QueueSteps, Zenon
<1>6. CASE PopRead(t)
  <2>1. /\ pc[t] = "pop_read" /\ Goto(t, "pop_store") /\ Alone(t)
        /\ val' = [val EXCEPT ![t] = slot_value[Slot(pos[t])]]
        /\ UNCHANGED <<pos, slot_value, queue>>
    BY <1>6, Zenon DEF PopRead, Goto, Alone, IInv, TypeOK
  <2>2. OpBar' = OpBar
    <3>1. OpOf("pop_store") = OpOf(pc[t])
      BY <2>1, OpOfIs, Zenon DEF PopOwns
    <3> QED
      BY <1>1, <2>1, <3>1, OpMoves, Zenon
  <2>3. ValBar'[t] = ValBar[t]
    BY <1>1, <2>1, Zenon DEF Goto, ValBar, IInv, TypeOK
  <2> QED
    BY <2>1, <2>2, <2>3, ValMoves, QueueStutters, Zenon
<1>7. CASE PopStore(t)
  <2>1. /\ pc[t] = "pop_store" /\ Goto(t, "idle") /\ Alone(t)
        /\ UNCHANGED <<val, slot_value, queue>>
    BY <1>7, Zenon DEF PopStore, Goto, Return, Alone, IInv, TypeOK
  <2>2. OpBar[t] = "popped" /\ OpBar' = [OpBar EXCEPT ![t] = "none"]
    <3>1. pc[t] \in PopOwns
      BY <2>1, Zenon DEF PopOwns
    <3> QED
      BY <1>1, <2>1, <3>1, OpMoves, OpOfIs
  <2>3. ValBar'[t] = ValBar[t]
    BY <1>1, <2>1, Zenon DEF Goto, ValBar
  <2>4. ValBar' = ValBar
    BY <2>1, <2>3, ValMoves, Zenon
  <2> QED
    BY <2>1, <2>2, <2>4, QueueSteps, Zenon
<1> QED
  BY <1>2, <1>3, <1>4, <1>5, <1>6, <1>7, Zenon DEF PopStep

LEMMA NextRefines ==
  ASSUME Capacity > 1
  PROVE  IInv /\ [Next]_vars => [Fifo!Next]_(Fifo!vars)
<1> SUFFICES ASSUME IInv, [Next]_vars PROVE Fifo!Next \/ UNCHANGED Fifo!vars
  BY Zenon
<1>1. CASE UNCHANGED vars
  <2>1. UNCHANGED <<pc, pos, val, slot_value, queue>>
    BY <1>1, Zenon DEF vars
  <2>2. OpBar' = OpBar /\ ValBar' = ValBar
    BY <2>1, Zenon DEF OpBar, ValBar
  <2> QED
    BY <2>1, <2>2, QueueStutters, Zenon
<1>2. ASSUME NEW t \in Producers, PushStep(t) \/ \E v \in Values : CallPush(t, v)
      PROVE  Fifo!Next \/ UNCHANGED Fifo!vars
  BY <1>2, PushRefines, Zenon DEF Threads
<1>3. ASSUME NEW t \in Consumers, PopStep(t) \/ CallPop(t)
      PROVE  Fifo!Next \/ UNCHANGED Fifo!vars
  BY <1>3, PopRefines, Zenon DEF Threads
<1> QED
  BY <1>1, <1>2, <1>3, Zenon DEF Next

(* Any number of producers and consumers share one first-in first-out queue *)
(* of Capacity values: every value pushed is popped once and in the order   *)
(* the pushes claimed their positions, and a call that fails found the      *)
(* queue full (empty) or a call of the other side unfinished.               *)
THEOREM Refinement ==
  ASSUME Capacity > 1
  PROVE  Spec => ImplementsBoundedFifo
<1>1. IInv /\ [Next]_vars => [Fifo!Next]_(Fifo!vars)
  BY NextRefines, Zenon
<1> QED
  BY <1>1, InitRefines, Inductive, PTL DEF Spec, ImplementsBoundedFifo, Fifo!Spec

-----------------------------------------------------------------------------
(* harvest_completions over the ring. *)
(* The first entry of the completion queue that is still to be delivered,   *)
(* the pops that have claimed a value, and the value each will return.      *)
Walk == IF pc[Engine] \in PushOwns THEN walked + 1 ELSE walked
Poppers == {c \in Consumers : pc[c] \in PopOwns}

(* The tokens that are on their way. *)
Walking == {cq[k] : k \in Walk + 1 .. Len(cq)}
Queued == {queue[k] : k \in 1 .. Len(queue)}
Popped == {ValBar[c] : c \in Poppers}

(* The types, who calls what, and the engine's argument of try_push. *)
HTypes ==
  /\ active \subseteq Consumers
  /\ held \subseteq Values /\ inflight \subseteq Values /\ dropped \subseteq Values
  /\ cq \in Seq(Values) /\ walked \in Nat /\ walked <= Len(cq)
  /\ \A c \in Poppers : ValBar[c] \in Values

Callers ==
  /\ pc[Engine] \in {"idle", "push_pos"} \union PushWindow \union PushOwns
  /\ pc[Engine] # "idle" => walked < Len(cq) /\ val[Engine] = cq[walked + 1]
  /\ \A t \in Threads \ {Engine} :
       /\ pc[t] \in {"idle", "pop_pos"} \union PopWindow \union PopOwns
       /\ pc[t] # "idle" => t \in active

(* One thread pushes: its copy of enqueue_pos_ is current.  One thread      *)
(* pops: no pop is ahead of the one it has claimed.                         *)
OneEach ==
  /\ pc[Engine] \in PushWindow => pos[Engine] = enqueue_pos_
  /\ \A c \in Consumers : active = {c} /\ pc[c] \in PopOwns =>
       dequeue_pos_ = Plus(pos[c], 1)

(* No token is twice in one place ... *)
Distinct ==
  /\ \A j, k \in Walk + 1 .. Len(cq) : cq[j] = cq[k] => j = k
  /\ \A j, k \in 1 .. Len(queue) : queue[j] = queue[k] => j = k
  /\ \A c, d \in Poppers : ValBar[c] = ValBar[d] => c = d

(* ... and each one is in exactly one place. *)
In(x, S) == IF x \in S THEN 1 ELSE 0
Tokens ==
  \A b \in Values :
    In(b, held) + In(b, inflight) + In(b, Walking) + In(b, Queued)
      + In(b, Popped) + In(b, dropped) = 1

HInv ==
  /\ IInv
  /\ HTypes
  /\ Callers
  /\ OneEach
  /\ Distinct
  /\ Tokens

-----------------------------------------------------------------------------
LEMMA InType == \A x, S : In(x, S) \in 0 .. 1 /\ (In(x, S) = 1 <=> x \in S)
  BY DEF In

LEMMA Moved ==
  ASSUME NEW A, NEW B, NEW x \in A, x \notin B, NEW b
  PROVE  In(b, A \ {x}) + In(b, B \union {x}) = In(b, A) + In(b, B)
  BY DEF In

LEMMA Apart ==
  ASSUME Tokens, NEW b \in Values
  PROVE  /\ b \in held => b \notin inflight
         /\ b \in inflight => b \notin Walking
         /\ b \in Walking => b \notin Queued /\ b \notin dropped
         /\ b \in Queued => b \notin Popped
         /\ b \in Popped => b \notin held
<1>1. In(b, held) + In(b, inflight) + In(b, Walking) + In(b, Queued)
        + In(b, Popped) + In(b, dropped) = 1
  BY Zenon DEF Tokens
<1> QED
  BY <1>1, InType

(* A step that moves no token. *)
LEMMA TokensStay ==
  ASSUME HTypes, Distinct, Tokens, UNCHANGED <<held, inflight, dropped, cq, queue>>,
         Walk' = Walk, Poppers' = Poppers, \A c \in Poppers : ValBar'[c] = ValBar[c]
  PROVE  Distinct' /\ Tokens' /\ \A c \in Poppers' : ValBar'[c] \in Values
<1>1. Walking' = Walking /\ Queued' = Queued
  BY Zenon DEF Walking, Queued
<1>2. Popped' = Popped
  BY Zenon DEF Popped
<1>3. Tokens'
  BY <1>1, <1>2, Zenon DEF Tokens
<1>4. Distinct'
  BY DEF Distinct
<1> QED
  BY <1>3, <1>4, Zenon DEF HTypes

(* The steps outside the ring. *)
LEMMA SubmitStep ==
  ASSUME HInv, NEW b \in Values, Submit(b)
  PROVE  HTypes' /\ Callers' /\ OneEach' /\ Distinct' /\ Tokens'
<1>1. UNCHANGED <<Walk, Poppers, ValBar>> /\ UNCHANGED <<vars, active, cq, walked, dropped>>
  BY Zenon DEF Submit, Walk, Poppers, ValBar, vars
<1>2. UNCHANGED <<Walking, Queued, Popped>>
  BY <1>1, Zenon DEF Walking, Queued, Popped, vars
<1>3. HTypes' /\ Callers' /\ OneEach' /\ Distinct'
  BY <1>1 DEF HInv, HTypes, Callers, OneEach, Distinct, Submit, vars
<1>4. Tokens'
  <2> SUFFICES ASSUME NEW a \in Values
               PROVE  In(a, held') + In(a, inflight') + In(a, Walking) + In(a, Queued)
                        + In(a, Popped) + In(a, dropped) = 1
    BY <1>1, <1>2, Zenon DEF Tokens
  <2>1. b \in held /\ b \notin inflight
    BY Apart, Zenon DEF Submit, HInv
  <2>2. In(a, held') + In(a, inflight') = In(a, held) + In(a, inflight)
    BY <2>1, Moved DEF Submit
  <2>3. In(a, held) + In(a, inflight) + In(a, Walking) + In(a, Queued)
          + In(a, Popped) + In(a, dropped) = 1
    BY Zenon DEF HInv, Tokens
  <2> QED
    BY <2>2, <2>3, InType, Zenon
<1> QED
  BY <1>3, <1>4, Zenon

LEMMA CompleteStep ==
  ASSUME HInv, NEW b \in Values, Complete(b)
  PROVE  HTypes' /\ Callers' /\ OneEach' /\ Distinct' /\ Tokens'
<1>1. /\ UNCHANGED <<Walk, Poppers, ValBar>> /\ UNCHANGED <<vars, active, held, walked, dropped>>
      /\ UNCHANGED <<pc, pos, val, queue, enqueue_pos_, dequeue_pos_>>
      /\ cq' = Append(cq, b) /\ inflight' = inflight \ {b} /\ b \in inflight
  BY Zenon DEF Complete, Walk, Poppers, ValBar, vars
<1>2. UNCHANGED <<Queued, Popped>>
  BY <1>1, Zenon DEF Queued, Popped, vars
<1>3. /\ cq \in Seq(Values) /\ Len(cq) \in Nat /\ walked \in Nat /\ Walk \in Nat /\ Walk <= Len(cq)
      /\ walked <= Len(cq)
  <2>1. cq \in Seq(Values) /\ Len(cq) \in Nat /\ walked \in Nat /\ walked <= Len(cq)
    BY DEF HInv, HTypes
  <2>2. pc[Engine] \in PushOwns => walked < Len(cq)
    BY Zenon DEF HInv, Callers, PushOwns
  <2> QED
    BY <2>1, <2>2 DEF Walk
<1>4. /\ cq' \in Seq(Values) /\ Len(cq') = Len(cq) + 1 /\ cq'[Len(cq) + 1] = b
      /\ \A k \in 1 .. Len(cq) : cq'[k] = cq[k]
  BY <1>1, <1>3, QueueAppend, Zenon
<1>5. b \notin Walking
  BY <1>1, Apart, Zenon DEF HInv
<1>6. Walking' = Walking \union {b}
  <2>1. Walking' = {cq'[k] : k \in Walk + 1 .. Len(cq) + 1}
    BY <1>1, <1>4, Zenon DEF Walking
  <2>2. \A k \in Walk + 1 .. Len(cq) : cq'[k] = cq[k]
    BY <1>3, <1>4
  <2>3. \A k : k \in Walk + 1 .. Len(cq) + 1 <=> k \in Walk + 1 .. Len(cq) \/ k = Len(cq) + 1
    BY <1>3
  <2> QED
    BY <1>4, <2>1, <2>2, <2>3, Zenon DEF Walking
<1>7. HTypes' /\ OneEach'
  BY <1>1, <1>3, <1>4 DEF HInv, HTypes, OneEach
<1>8. Callers'
  BY <1>1, <1>3, <1>4 DEF HInv, Callers
<1>9. Distinct'
  <2>1. ASSUME NEW j \in Walk + 1 .. Len(cq) + 1, NEW k \in Walk + 1 .. Len(cq) + 1, cq'[j] = cq'[k]
        PROVE  j = k
    <3>1. \A i \in Walk + 1 .. Len(cq) : cq'[i] = cq[i] /\ cq[i] # b
      BY <1>3, <1>4, <1>5 DEF Walking
    <3>2. \A i \in Walk + 1 .. Len(cq) + 1 : i \in Walk + 1 .. Len(cq) \/ i = Len(cq) + 1
      BY <1>3
    <3> QED
      BY <1>4, <2>1, <3>1, <3>2, Zenon DEF HInv, Distinct
  <2> QED
    BY <1>1, <1>4, <2>1, Zenon DEF HInv, Distinct
<1>10. Tokens'
  <2> SUFFICES ASSUME NEW a \in Values
               PROVE  In(a, held) + In(a, inflight') + In(a, Walking') + In(a, Queued)
                        + In(a, Popped) + In(a, dropped) = 1
    BY <1>1, <1>2, Zenon DEF Tokens
  <2>1. In(a, inflight') + In(a, Walking') = In(a, inflight) + In(a, Walking)
    BY <1>1, <1>5, <1>6, Moved
  <2>2. In(a, held) + In(a, inflight) + In(a, Walking) + In(a, Queued)
          + In(a, Popped) + In(a, dropped) = 1
    BY Zenon DEF HInv, Tokens
  <2> QED
    BY <2>1, <2>2, InType
<1> QED
  BY <1>7, <1>8, <1>9, <1>10, Zenon

LEMMA SuffixOf ==
  ASSUME NEW s \in Seq(Values), NEW n \in Nat, n <= Len(s)
  PROVE  /\ SubSeq(s, n + 1, Len(s)) \in Seq(Values)
         /\ Len(SubSeq(s, n + 1, Len(s))) = Len(s) - n
         /\ \A k \in 1 .. Len(s) - n : SubSeq(s, n + 1, Len(s))[k] = s[n + k]
  OBVIOUS

LEMMA AdvanceStep ==
  ASSUME HInv, HarvestAdvance
  PROVE  HTypes' /\ Callers' /\ OneEach' /\ Distinct' /\ Tokens'
<1>1. /\ UNCHANGED <<Poppers, ValBar>> /\ UNCHANGED <<active, held, inflight, dropped>>
      /\ UNCHANGED <<pc, pos, val, queue, enqueue_pos_, dequeue_pos_>>
      /\ cq' = SubSeq(cq, walked + 1, Len(cq)) /\ walked' = 0
      /\ pc[Engine] = "idle" /\ Walk = walked /\ Walk' = 0
  BY Zenon DEF HarvestAdvance, Walk, Poppers, ValBar, vars, PushOwns
<1>2. UNCHANGED <<Queued, Popped>>
  BY <1>1, Zenon DEF Queued, Popped
<1>3. cq \in Seq(Values) /\ Len(cq) \in Nat /\ walked \in Nat /\ walked <= Len(cq)
  BY DEF HInv, HTypes
<1>4. /\ cq' \in Seq(Values) /\ Len(cq') = Len(cq) - walked
      /\ \A k \in 1 .. Len(cq) - walked : cq'[k] = cq[walked + k]
  BY <1>1, <1>3, SuffixOf, Zenon
<1>5. Walking' = Walking
  <2>1. /\ Walking' = {cq'[k] : k \in 1 .. Len(cq) - walked}
        /\ Walking = {cq[k] : k \in walked + 1 .. Len(cq)}
    BY <1>1, <1>4 DEF Walking
  <2>2. ASSUME NEW b \in Walking' PROVE b \in Walking
    <3>1. PICK k \in 1 .. Len(cq) - walked : b = cq'[k]
      BY <2>1, <2>2, Zenon
    <3>2. walked + k \in walked + 1 .. Len(cq) /\ b = cq[walked + k]
      BY <1>3, <1>4, <3>1
    <3> QED
      BY <2>1, <3>2, Zenon
  <2>3. ASSUME NEW b \in Walking PROVE b \in Walking'
    <3>1. PICK k \in walked + 1 .. Len(cq) : b = cq[k]
      BY <2>1, <2>3, Zenon
    <3>2. k - walked \in 1 .. Len(cq) - walked /\ walked + (k - walked) = k
      BY <1>3
    <3>3. cq'[k - walked] = b
      BY <1>4, <3>1, <3>2, Zenon
    <3> QED
      BY <2>1, <3>2, <3>3, Zenon
  <2> QED
    BY <2>2, <2>3, Zenon
<1>6. HTypes' /\ OneEach' /\ Callers'
  BY <1>1, <1>3, <1>4 DEF HInv, HTypes, OneEach, Callers
<1>7. Distinct'
  <2>1. ASSUME NEW j \in 1 .. Len(cq) - walked, NEW k \in 1 .. Len(cq) - walked, cq'[j] = cq'[k]
        PROVE  j = k
    <3>1. /\ walked + j \in walked + 1 .. Len(cq) /\ walked + k \in walked + 1 .. Len(cq)
          /\ cq[walked + j] = cq[walked + k]
      BY <1>3, <1>4, <2>1
    <3>2. walked + j = walked + k
      BY <1>1, <3>1, Zenon DEF HInv, Distinct
    <3> QED
      BY <1>3, <3>2
  <2> QED
    BY <1>1, <1>4, <2>1 DEF HInv, Distinct
<1>8. Tokens'
  BY <1>1, <1>2, <1>5, Zenon DEF HInv, Tokens
<1> QED
  BY <1>6, <1>7, <1>8, Zenon

-----------------------------------------------------------------------------
(* The engine's try_push.  What holds for all its steps. *)
LEMMA EngineAlone ==
  ASSUME HInv, Engine \in Producers, Capacity > 1, Alone(Engine),
         UNCHANGED dequeue_pos_, UNCHANGED active,
         UNCHANGED slot_value \/ PushWrite(Engine)
  PROVE  /\ Poppers' = Poppers /\ \A c \in Poppers : ValBar'[c] = ValBar[c]
         /\ \A t \in Threads \ {Engine} :
              /\ pc'[t] \in {"idle", "pop_pos"} \union PopWindow \union PopOwns
              /\ pc'[t] # "idle" => t \in active'
         /\ \A c \in Consumers : active' = {c} /\ pc'[c] \in PopOwns =>
              dequeue_pos_' = Plus(pos'[c], 1)
<1>1. Engine \in Threads /\ \A c \in Consumers : c \in Threads \ {Engine}
  BY HarvestAssumption, Zenon DEF Threads
<1>2. Poppers' = Poppers
  BY <1>1, Zenon DEF Poppers, Alone
<1>3. \A c \in Poppers : ValBar'[c] = ValBar[c]
  <2>1. CASE PushWrite(Engine)
    BY <1>1, <2>1, WriteKeepsValues, Zenon DEF HInv
  <2>2. CASE UNCHANGED slot_value
    BY <1>1, <2>2, Zenon DEF ValBar, Alone, Poppers
  <2> QED
    BY <2>1, <2>2, Zenon
<1> QED
  BY <1>1, <1>2, <1>3, Zenon DEF HInv, Callers, OneEach, Alone

(* Calls, loads, retries, the write and the return: the token stays where   *)
(* it is.                                                                   *)
LEMMA EngineMoves ==
  ASSUME HInv, Engine \in Producers, Capacity > 1, Alone(Engine),
         UNCHANGED <<enqueue_pos_, dequeue_pos_, queue, active, held, inflight, cq, dropped>>,
         UNCHANGED slot_value \/ PushWrite(Engine),
         pc'[Engine] \in {"idle", "push_pos"} \union PushWindow \union PushOwns,
         walked' \in Nat, walked' <= Len(cq), Walk' = Walk,
         pc'[Engine] # "idle" => walked' < Len(cq) /\ val'[Engine] = cq[walked' + 1],
         pc'[Engine] \in PushWindow => pos'[Engine] = enqueue_pos_
  PROVE  HTypes' /\ Callers' /\ OneEach' /\ Distinct' /\ Tokens'
<1>1. /\ Poppers' = Poppers /\ \A c \in Poppers : ValBar'[c] = ValBar[c]
      /\ \A t \in Threads \ {Engine} :
           /\ pc'[t] \in {"idle", "pop_pos"} \union PopWindow \union PopOwns
           /\ pc'[t] # "idle" => t \in active'
      /\ \A c \in Consumers : active' = {c} /\ pc'[c] \in PopOwns =>
           dequeue_pos_' = Plus(pos'[c], 1)
  BY EngineAlone, Zenon
<1>2. Distinct' /\ Tokens' /\ \A c \in Poppers' : ValBar'[c] \in Values
  BY <1>1, TokensStay, Zenon DEF HInv
<1>3. HTypes'
  BY <1>2, Zenon DEF HInv, HTypes
<1>4. Callers'
  BY <1>1, Zenon DEF Callers
<1>5. OneEach'
  BY <1>1, Zenon DEF OneEach
<1> QED
  BY <1>2, <1>3, <1>4, <1>5, Zenon

LEMMA HarvestCallStep ==
  ASSUME HInv, Engine \in Producers, Capacity > 1, HarvestCall
  PROVE  HTypes' /\ Callers' /\ OneEach' /\ Distinct' /\ Tokens'
<1>1. pc \in [Threads -> {"idle", "push_pos", "pop_pos"} \union PushWindow
                         \union PopWindow \union PushOwns \union PopOwns]
      /\ val \in [Threads -> Values \union {None}] /\ Engine \in Threads
  BY Zenon DEF HInv, IInv, TypeOK, Threads
<1>2. /\ walked < Len(cq) /\ pc[Engine] = "idle"
      /\ UNCHANGED <<enqueue_pos_, dequeue_pos_, queue, slot_value, pos>>
      /\ UNCHANGED <<active, held, inflight, cq, walked, dropped>>
  BY Zenon DEF HarvestCall, CallPush
<1>3. /\ Alone(Engine) /\ pc'[Engine] = "push_pos" /\ val'[Engine] = cq[walked + 1]
  BY <1>1, Zenon DEF HarvestCall, CallPush, Goto, Alone
<1>4. Walk' = Walk
  BY <1>2, <1>3, Zenon DEF Walk, PushOwns
<1>5. walked \in Nat /\ walked <= Len(cq)
  BY Zenon DEF HInv, HTypes
<1> QED
  BY <1>2, <1>3, <1>4, <1>5, EngineMoves, Zenon DEF PushWindow

LEMMA HarvestLocalStep ==
  ASSUME HInv, Engine \in Producers, Capacity > 1, HarvestPush,
         ~ PushClaim(Engine), pc[Engine] = "push_seq" => pc'[Engine] # "idle"
  PROVE  HTypes' /\ Callers' /\ OneEach' /\ Distinct' /\ Tokens'
<1>1. /\ pc \in [Threads -> {"idle", "push_pos", "pop_pos"} \union PushWindow
                            \union PopWindow \union PushOwns \union PopOwns]
      /\ val \in [Threads -> Values \union {None}] /\ pos \in [Threads -> Positions]
      /\ Engine \in Threads
  BY Zenon DEF HInv, IInv, TypeOK, Threads
<1>2. /\ walked \in Nat /\ walked <= Len(cq) /\ Len(cq) \in Nat
      /\ pc[Engine] # "idle" => walked < Len(cq) /\ val[Engine] = cq[walked + 1]
      /\ pc[Engine] \in PushWindow => pos[Engine] = enqueue_pos_
  BY DEF HInv, HTypes, Callers, OneEach
<1>3. /\ walked' = IF pc'[Engine] = "idle" THEN walked + 1 ELSE walked
      /\ pc[Engine] # "push_seq" \/ pc'[Engine] # "idle"
      /\ UNCHANGED <<active, held, inflight, cq, dropped>>
  BY Zenon DEF HarvestPush
<1>4. CASE PushPos(Engine) \/ PushRetry(Engine)
  <2>1. /\ pc[Engine] \in {"push_pos", "push_cas"} /\ Alone(Engine)
        /\ pc'[Engine] = "push_seq" /\ pos'[Engine] = enqueue_pos_
        /\ val' = val /\ UNCHANGED <<enqueue_pos_, dequeue_pos_, queue, slot_value>>
    BY <1>1, <1>4, Zenon DEF PushPos, PushRetry, Goto, Alone
  <2>2. walked' = walked /\ Walk' = Walk
    BY <1>3, <2>1, Zenon DEF Walk, PushOwns
  <2> QED
    BY <1>2, <1>3, <2>1, <2>2, EngineMoves, Zenon DEF PushWindow
<1>5. CASE PushSeq(Engine)
  <2>1. /\ pc[Engine] = "push_seq" /\ Alone(Engine)
        /\ pc'[Engine] \in {"push_cas", "push_pos"} /\ pos' = pos /\ val' = val
        /\ UNCHANGED <<enqueue_pos_, dequeue_pos_, queue, slot_value>>
    <3>1. pc[Engine] = "push_seq" /\ UNCHANGED <<enqueue_pos_, dequeue_pos_, queue, slot_value>>
      BY <1>5, Zenon DEF PushSeq
    <3>2. PICK diff \in Diffs(sequence[Slot(pos[Engine])], pos[Engine]) :
            \/ diff = 0 /\ Goto(Engine, "push_cas") /\ UNCHANGED <<pos, val>>
            \/ diff < 0 /\ Return(Engine) /\ val' = [val EXCEPT ![Engine] = None]
            \/ diff > 0 /\ Goto(Engine, "push_pos") /\ UNCHANGED <<pos, val>>
      BY <1>5, Zenon DEF PushSeq
    <3>3. ~ Return(Engine)
      BY <1>1, <1>3, <3>1, Zenon DEF Return, Goto
    <3>4. Goto(Engine, "push_cas") \/ Goto(Engine, "push_pos")
      BY <3>2, <3>3, Zenon
    <3>5. pos' = pos /\ val' = val
      BY <3>2, <3>3, Zenon
    <3> QED
      BY <1>1, <3>1, <3>4, <3>5, Zenon DEF Goto, Alone
  <2>2. walked' = walked /\ Walk' = Walk
    BY <1>3, <2>1, Zenon DEF Walk, PushOwns
  <2> QED
    BY <1>2, <1>3, <2>1, <2>2, EngineMoves, Zenon DEF PushWindow
<1>6. CASE PushWrite(Engine)
  <2>1. /\ pc[Engine] = "push_write" /\ Alone(Engine) /\ pc'[Engine] = "push_store"
        /\ val' = val /\ UNCHANGED <<enqueue_pos_, dequeue_pos_, queue>>
    BY <1>1, <1>6, Zenon DEF PushWrite, Goto, Alone
  <2>2. walked' = walked /\ Walk' = Walk
    BY <1>3, <2>1, Zenon DEF Walk, PushOwns
  <2> QED
    BY <1>2, <1>3, <1>6, <2>1, <2>2, EngineMoves, Zenon DEF PushWindow, PushOwns
<1>7. CASE PushStore(Engine)
  <2>1. /\ pc[Engine] = "push_store" /\ Alone(Engine) /\ pc'[Engine] = "idle"
        /\ UNCHANGED <<enqueue_pos_, dequeue_pos_, queue, slot_value>>
    BY <1>1, <1>7, Zenon DEF PushStore, Return, Goto, Alone
  <2>2. walked' = walked + 1 /\ Walk' = Walk
    BY <1>3, <2>1, Zenon DEF Walk, PushOwns
  <2>3. walked' \in Nat /\ walked' <= Len(cq)
    BY <1>2, <2>1, <2>2
  <2> QED
    BY <1>3, <2>1, <2>2, <2>3, EngineMoves, Zenon DEF PushWindow
<1> QED
  BY <1>4, <1>5, <1>6, <1>7, Zenon DEF HarvestPush, PushStep

(* The token leaves the walk: it goes into the ring or is dropped. *)
LEMMA NextWalked ==
  ASSUME HInv, pc[Engine] # "idle", pc[Engine] \notin PushOwns,
         cq' = cq, Walk' = Walk + 1
  PROVE  /\ val[Engine] \in Values /\ val[Engine] \in Walking
         /\ Walking' = Walking \ {val[Engine]}
         /\ \A j, k \in Walk' + 1 .. Len(cq') : cq'[j] = cq'[k] => j = k
<1>1. /\ cq \in Seq(Values) /\ Len(cq) \in Nat /\ walked \in Nat /\ walked < Len(cq)
      /\ val[Engine] = cq[walked + 1] /\ Walk = walked
  BY DEF HInv, HTypes, Callers, Walk
<1>2. walked + 1 \in walked + 1 .. Len(cq) /\ val[Engine] \in Values
  BY <1>1
<1>3. \A j, k \in walked + 1 .. Len(cq) : cq[j] = cq[k] => j = k
  BY <1>1, Zenon DEF HInv, Distinct
<1>4. \A k : k \in walked + 1 + 1 .. Len(cq) <=> k \in walked + 1 .. Len(cq) /\ k # walked + 1
  BY <1>1
<1>5. /\ Walking = {cq[k] : k \in walked + 1 .. Len(cq)}
      /\ Walking' = {cq[k] : k \in walked + 1 + 1 .. Len(cq)}
  BY <1>1, Zenon DEF Walking
<1>6. Walking' = Walking \ {val[Engine]} /\ val[Engine] \in Walking
  BY <1>1, <1>2, <1>3, <1>4, <1>5, Zenon
<1> QED
  BY <1>1, <1>2, <1>3, <1>4, <1>6

LEMMA HarvestClaimStep ==
  ASSUME HInv, Engine \in Producers, Capacity > 1, HarvestPush, PushClaim(Engine)
  PROVE  HTypes' /\ Callers' /\ OneEach' /\ Distinct' /\ Tokens'
<1>1. /\ pc \in [Threads -> {"idle", "push_pos", "pop_pos"} \union PushWindow
                            \union PopWindow \union PushOwns \union PopOwns]
      /\ val \in [Threads -> Values \union {None}] /\ queue \in Seq(Values)
      /\ Engine \in Threads
  BY Zenon DEF HInv, IInv, TypeOK, Threads
<1>2. /\ pc[Engine] = "push_cas" /\ pc'[Engine] = "push_write" /\ Alone(Engine)
      /\ UNCHANGED <<dequeue_pos_, slot_value, val>> /\ queue' = Append(queue, val[Engine])
  BY <1>1, Zenon DEF PushClaim, Goto, Alone
<1>3. UNCHANGED <<active, held, inflight, cq, walked, dropped>>
  BY <1>2, Zenon DEF HarvestPush
<1>4. Walk = walked /\ Walk' = Walk + 1
  BY <1>2, <1>3, Zenon DEF Walk, PushOwns
<1>5. /\ val[Engine] \in Values /\ val[Engine] \in Walking
      /\ Walking' = Walking \ {val[Engine]}
      /\ \A j, k \in Walk' + 1 .. Len(cq') : cq'[j] = cq'[k] => j = k
  BY <1>2, <1>3, <1>4, NextWalked, Zenon DEF PushOwns
<1>6. /\ Poppers' = Poppers /\ \A c \in Poppers : ValBar'[c] = ValBar[c]
      /\ \A t \in Threads \ {Engine} :
           /\ pc'[t] \in {"idle", "pop_pos"} \union PopWindow \union PopOwns
           /\ pc'[t] # "idle" => t \in active'
      /\ \A c \in Consumers : active' = {c} /\ pc'[c] \in PopOwns =>
           dequeue_pos_' = Plus(pos'[c], 1)
  BY <1>2, <1>3, EngineAlone, Zenon
<1>7. Popped' = Popped
  BY <1>6, Zenon DEF Popped
<1>8. val[Engine] \notin Queued
  BY <1>5, Apart, Zenon DEF HInv
<1>9. /\ queue' \in Seq(Values) /\ Len(queue) \in Nat /\ Len(queue') = Len(queue) + 1
      /\ queue'[Len(queue) + 1] = val[Engine] /\ \A k \in 1 .. Len(queue) : queue'[k] = queue[k]
  BY <1>1, <1>2, <1>5, QueueAppend, Zenon
<1>10. \A k : k \in 1 .. Len(queue) + 1 <=> k \in 1 .. Len(queue) \/ k = Len(queue) + 1
  BY <1>9
<1>11. Queued' = Queued \union {val[Engine]}
  BY <1>9, <1>10, Zenon DEF Queued
<1>12. Distinct'
  <2>1. ASSUME NEW j \in 1 .. Len(queue) + 1, NEW k \in 1 .. Len(queue) + 1,
               queue'[j] = queue'[k]
        PROVE  j = k
    <3>1. \A i \in 1 .. Len(queue) : queue'[i] = queue[i] /\ queue[i] # val[Engine]
      BY <1>8, <1>9, Zenon DEF Queued
    <3> QED
      BY <1>9, <1>10, <2>1, <3>1, Zenon DEF HInv, Distinct
  <2>2. \A c, d \in Poppers' : ValBar'[c] = ValBar'[d] => c = d
    BY <1>6, Zenon DEF HInv, Distinct
  <2> QED
    BY <1>5, <1>9, <2>1, <2>2, Zenon DEF Distinct
<1>13. Tokens'
  <2> SUFFICES ASSUME NEW a \in Values
               PROVE  In(a, held) + In(a, inflight) + In(a, Walking') + In(a, Queued')
                        + In(a, Popped) + In(a, dropped) = 1
    BY <1>3, <1>7, Zenon DEF Tokens
  <2>1. In(a, Walking') + In(a, Queued') = In(a, Walking) + In(a, Queued)
    BY <1>5, <1>8, <1>11, Moved
  <2>2. In(a, held) + In(a, inflight) + In(a, Walking) + In(a, Queued)
          + In(a, Popped) + In(a, dropped) = 1
    BY Zenon DEF HInv, Tokens
  <2> QED
    BY <2>1, <2>2, InType
<1>14. HTypes'
  BY <1>3, <1>6, Zenon DEF HInv, HTypes
<1>15. Callers'
  BY <1>2, <1>3, <1>6, Zenon DEF HInv, Callers, PushOwns
<1>16. OneEach'
  BY <1>2, <1>6, Zenon DEF OneEach, PushWindow
<1> QED
  BY <1>12, <1>13, <1>14, <1>15, <1>16, Zenon

LEMMA HarvestRefusedStep ==
  ASSUME HInv, Engine \in Producers, Capacity > 1, HarvestPush,
         pc[Engine] = "push_seq", pc'[Engine] = "idle"
  PROVE  HTypes' /\ Callers' /\ OneEach' /\ Distinct' /\ Tokens'
<1>1. /\ pc \in [Threads -> {"idle", "push_pos", "pop_pos"} \union PushWindow
                            \union PopWindow \union PushOwns \union PopOwns]
      /\ val \in [Threads -> Values \union {None}] /\ pos \in [Threads -> Positions]
      /\ Engine \in Threads
  BY Zenon DEF HInv, IInv, TypeOK, Threads
<1>2. /\ walked' = walked + 1 /\ dropped' = dropped \union {val[Engine]}
      /\ UNCHANGED <<active, held, inflight, cq>> /\ PushSeq(Engine)
  BY Zenon DEF HarvestPush, PushStep, PushPos, PushClaim, PushRetry, PushWrite, PushStore
<1>3. Alone(Engine) /\ UNCHANGED <<enqueue_pos_, dequeue_pos_, slot_value, queue>>
  BY <1>1, <1>2, Zenon DEF PushSeq, Goto, Return, Alone
<1>4. Walk = walked /\ Walk' = Walk + 1
  BY <1>2, Zenon DEF Walk, PushOwns
<1>5. /\ val[Engine] \in Values /\ val[Engine] \in Walking
      /\ Walking' = Walking \ {val[Engine]}
      /\ \A j, k \in Walk' + 1 .. Len(cq') : cq'[j] = cq'[k] => j = k
  BY <1>2, <1>4, NextWalked, Zenon DEF PushOwns
<1>6. /\ Poppers' = Poppers /\ \A c \in Poppers : ValBar'[c] = ValBar[c]
      /\ \A t \in Threads \ {Engine} :
           /\ pc'[t] \in {"idle", "pop_pos"} \union PopWindow \union PopOwns
           /\ pc'[t] # "idle" => t \in active'
      /\ \A c \in Consumers : active' = {c} /\ pc'[c] \in PopOwns =>
           dequeue_pos_' = Plus(pos'[c], 1)
  BY <1>2, <1>3, EngineAlone, Zenon
<1>7. Popped' = Popped /\ Queued' = Queued
  BY <1>3, <1>6, Zenon DEF Popped, Queued
<1>8. val[Engine] \notin dropped
  BY <1>5, Apart, Zenon DEF HInv
<1>9. Distinct'
  BY <1>3, <1>5, <1>6 DEF HInv, Distinct
<1>10. Tokens'
  <2> SUFFICES ASSUME NEW a \in Values
               PROVE  In(a, held) + In(a, inflight) + In(a, Walking') + In(a, Queued)
                        + In(a, Popped) + In(a, dropped') = 1
    BY <1>2, <1>7, Zenon DEF Tokens
  <2>1. In(a, Walking') + In(a, dropped') = In(a, Walking) + In(a, dropped)
    BY <1>2, <1>5, <1>8, Moved
  <2>2. In(a, held) + In(a, inflight) + In(a, Walking) + In(a, Queued)
          + In(a, Popped) + In(a, dropped) = 1
    BY Zenon DEF HInv, Tokens
  <2> QED
    BY <2>1, <2>2, InType
<1>11. HTypes'
  <2>1. walked \in Nat /\ walked < Len(cq) /\ Len(cq) \in Nat
    BY DEF HInv, HTypes, Callers
  <2> QED
    BY <1>2, <1>5, <1>6, <2>1 DEF HInv, HTypes
<1>12. Callers' /\ OneEach'
  BY <1>6, Zenon DEF Callers, OneEach, PushWindow
<1> QED
  BY <1>9, <1>10, <1>11, <1>12, Zenon

-----------------------------------------------------------------------------
(* A client's try_pop.  What holds for all its steps. *)
LEMMA ClientAlone ==
  ASSUME HInv, Engine \in Producers, NEW c \in active, Alone(c),
         UNCHANGED <<enqueue_pos_, slot_value, active, cq, walked>>,
         pc'[c] \in {"idle", "pop_pos"} \union PopWindow \union PopOwns,
         pc'[c] \in PopOwns => dequeue_pos_' = Plus(pos'[c], 1) \/ active # {c}
  PROVE  /\ c \in Consumers /\ c \in Threads /\ Walk' = Walk /\ Walking' = Walking
         /\ Callers' /\ OneEach'
         /\ \A d \in Consumers \ {c} : pc'[d] = pc[d] /\ ValBar'[d] = ValBar[d]
<1>1. /\ c \in Consumers /\ c \in Threads /\ Engine \in Threads /\ Engine # c
      /\ Consumers \subseteq Threads
  BY HarvestAssumption, Zenon DEF HInv, HTypes, Threads
<1>2. UNCHANGED <<pc[Engine], pos[Engine], val[Engine]>>
  BY <1>1, Zenon DEF Alone
<1>3. Walk' = Walk /\ Walking' = Walking
  BY <1>2, Zenon DEF Walk, Walking
<1>4. \A d \in Consumers \ {c} : pc'[d] = pc[d] /\ ValBar'[d] = ValBar[d]
  BY <1>1, Zenon DEF ValBar, Alone
<1>5. Callers'
  BY <1>1, <1>2, Zenon DEF HInv, Callers, Alone
<1>6. OneEach'
  <2>1. pc'[Engine] \in PushWindow => pos'[Engine] = enqueue_pos_'
    BY <1>2, Zenon DEF HInv, OneEach
  <2>2. ASSUME NEW d \in Consumers, active' = {d}, pc'[d] \in PopOwns
        PROVE  dequeue_pos_' = Plus(pos'[d], 1)
    BY <2>2, Zenon
  <2> QED
    BY <2>1, <2>2, Zenon DEF OneEach
<1> QED
  BY <1>1, <1>3, <1>4, <1>5, <1>6, Zenon

LEMMA ClientLocalStep ==
  ASSUME HInv, Engine \in Producers, NEW c \in active, ClientPop(c),
         ~ PopClaim(c), ~ PopStore(c)
  PROVE  HTypes' /\ Callers' /\ OneEach' /\ Distinct' /\ Tokens'
<1>1. /\ pc \in [Threads -> {"idle", "push_pos", "pop_pos"} \union PushWindow
                            \union PopWindow \union PushOwns \union PopOwns]
      /\ val \in [Threads -> Values \union {None}] /\ pos \in [Threads -> Positions]
      /\ c \in Threads /\ c \in Consumers
  BY Zenon DEF HInv, IInv, TypeOK, HTypes, Threads
<1>2. /\ Alone(c) /\ UNCHANGED <<enqueue_pos_, dequeue_pos_, slot_value, queue>>
      /\ pc'[c] \in {"idle", "pop_pos"} \union PopWindow \union PopOwns
      /\ pc[c] \in PopOwns <=> pc'[c] \in PopOwns
      /\ pc[c] \in PopOwns => pos'[c] = pos[c] /\ ValBar'[c] = ValBar[c]
      /\ pc[c] # "pop_store"
  <2>1. CASE CallPop(c)
    BY <1>1, <2>1, Zenon DEF CallPop, Goto, Alone, PopWindow, PopOwns
  <2>2. CASE PopPos(c) \/ PopRetry(c)
    BY <1>1, <2>2, Zenon DEF PopPos, PopRetry, Goto, Alone, PopWindow, PopOwns
  <2>3. CASE PopSeq(c)
    BY <1>1, <2>3, Zenon DEF PopSeq, Return, Goto, Alone, PopWindow, PopOwns
  <2>4. CASE PopRead(c)
    BY <1>1, <2>4, Zenon DEF PopRead, Goto, Alone, PopWindow, PopOwns, ValBar
  <2> QED
    BY <2>1, <2>2, <2>3, <2>4, Zenon DEF ClientPop, PopStep
<1>3. UNCHANGED <<active, held, inflight, cq, walked, dropped>>
  BY <1>2, Zenon DEF ClientPop
<1>4. pc'[c] \in PopOwns => dequeue_pos_' = Plus(pos'[c], 1) \/ active # {c}
  BY <1>1, <1>2, Zenon DEF HInv, OneEach
<1>5. /\ Walk' = Walk /\ Callers' /\ OneEach'
      /\ \A d \in Consumers \ {c} : pc'[d] = pc[d] /\ ValBar'[d] = ValBar[d]
  BY <1>2, <1>3, <1>4, ClientAlone, Zenon
<1>6. Poppers' = Poppers /\ \A d \in Poppers : ValBar'[d] = ValBar[d]
  BY <1>2, <1>5, Zenon DEF Poppers
<1>7. Distinct' /\ Tokens' /\ \A d \in Poppers' : ValBar'[d] \in Values
  BY <1>2, <1>3, <1>5, <1>6, TokensStay, Zenon DEF HInv
<1>8. HTypes'
  BY <1>3, <1>7, Zenon DEF HInv, HTypes
<1> QED
  BY <1>5, <1>7, <1>8, Zenon

LEMMA ClientClaimStep ==
  ASSUME HInv, Engine \in Producers, NEW c \in active, ClientPop(c), PopClaim(c)
  PROVE  HTypes' /\ Callers' /\ OneEach' /\ Distinct' /\ Tokens'
<1>1. /\ pc \in [Threads -> {"idle", "push_pos", "pop_pos"} \union PushWindow
                            \union PopWindow \union PushOwns \union PopOwns]
      /\ val \in [Threads -> Values \union {None}] /\ pos \in [Threads -> Positions]
      /\ c \in Threads /\ c \in Consumers /\ queue \in Seq(Values)
  BY Zenon DEF HInv, IInv, TypeOK, HTypes, Threads
<1>2. /\ Alone(c) /\ UNCHANGED <<enqueue_pos_, slot_value, pos>> /\ queue' = Tail(queue)
      /\ pc[c] = "pop_cas" /\ pc'[c] = "pop_read" /\ dequeue_pos_' = Plus(pos'[c], 1)
  BY <1>1, Zenon DEF PopClaim, Goto, Alone
<1>3. UNCHANGED <<active, held, inflight, cq, walked, dropped>>
  BY <1>2, Zenon DEF ClientPop
<1>4. /\ Walk' = Walk /\ Walking' = Walking /\ Callers' /\ OneEach'
      /\ \A d \in Consumers \ {c} : pc'[d] = pc[d] /\ ValBar'[d] = ValBar[d]
  BY <1>2, <1>3, ClientAlone, Zenon DEF PopOwns
<1> DEFINE h == Head(queue)
<1>5. /\ queue # <<>> /\ ValBar'[c] = h
  <2>1. queue # <<>> /\ ValBar' = [ValBar EXCEPT ![c] = h]
    BY <1>1, ClaimTakesHead, Zenon DEF HInv
  <2> QED
    BY <1>1, <2>1, Zenon DEF ValBar
<1>6. /\ Len(queue) \in Nat /\ Len(queue) > 0 /\ Len(queue') = Len(queue) - 1
      /\ h = queue[1] /\ h \in Values
      /\ \A k \in 1 .. Len(queue) - 1 : queue'[k] = queue[k + 1]
  <2>1. Len(queue) \in Nat /\ Len(queue) > 0
    BY <1>1, <1>5
  <2> QED
    BY <1>1, <1>2, <2>1, QueueTail, Zenon
<1> HIDE DEF h
<1>7. h \in Queued /\ h \notin Popped
  <2>1. h \in Queued
    BY <1>6 DEF Queued
  <2> QED
    BY <1>6, <2>1, Apart, Zenon DEF HInv
<1>8. Queued' = Queued \ {h}
  <2>1. \A k \in 1 .. Len(queue) : k = 1 \/ (k - 1 \in 1 .. Len(queue) - 1 /\ queue'[k - 1] = queue[k])
    BY <1>6
  <2>2. \A k \in 1 .. Len(queue) - 1 :
          k + 1 \in 1 .. Len(queue) /\ queue'[k] = queue[k + 1] /\ queue[k + 1] # h
    BY <1>6 DEF HInv, Distinct
  <2> QED
    BY <1>6, <2>1, <2>2 DEF Queued
<1>9. Poppers' = Poppers \union {c} /\ c \notin Poppers
  BY <1>1, <1>2, <1>4, Zenon DEF Poppers, PopOwns
<1>10. Popped' = Popped \union {h}
  BY <1>4, <1>5, <1>9 DEF Popped, Poppers
<1>11. Distinct'
  <2>1. ASSUME NEW j \in 1 .. Len(queue) - 1, NEW k \in 1 .. Len(queue) - 1, queue'[j] = queue'[k]
        PROVE  j = k
    <3>1. j + 1 \in 1 .. Len(queue) /\ k + 1 \in 1 .. Len(queue) /\ queue[j + 1] = queue[k + 1]
      BY <1>6, <2>1
    <3>2. j + 1 = k + 1
      BY <3>1, Zenon DEF HInv, Distinct
    <3> QED
      BY <3>2
  <2>2. \A d \in Poppers : ValBar'[d] = ValBar[d] /\ ValBar[d] # h
    BY <1>4, <1>7, <1>9, Zenon DEF Poppers, Popped
  <2>3. ASSUME NEW d \in Poppers', NEW e \in Poppers', ValBar'[d] = ValBar'[e]
        PROVE  d = e
    <3>1. CASE d \in Poppers /\ e \in Poppers
      <4>1. ValBar[d] = ValBar[e]
        BY <2>2, <2>3, <3>1, Zenon
      <4>2. \A f, g \in Poppers : ValBar[f] = ValBar[g] => f = g
        BY Zenon DEF HInv, Distinct
      <4> QED
        BY <3>1, <4>1, <4>2, Zenon
    <3>2. CASE d = c
      BY <1>5, <1>9, <2>2, <2>3, <3>2, Zenon
    <3>3. CASE e = c
      BY <1>5, <1>9, <2>2, <2>3, <3>3, Zenon
    <3> QED
      BY <1>9, <3>1, <3>2, <3>3, Zenon
  <2> QED
    BY <1>3, <1>4, <1>6, <2>1, <2>3 DEF HInv, Distinct
<1>12. Tokens'
  <2> SUFFICES ASSUME NEW a \in Values
               PROVE  In(a, held) + In(a, inflight) + In(a, Walking) + In(a, Queued')
                        + In(a, Popped') + In(a, dropped) = 1
    BY <1>3, <1>4, Zenon DEF Tokens
  <2>1. In(a, Queued') + In(a, Popped') = In(a, Queued) + In(a, Popped)
    BY <1>7, <1>8, <1>10, Moved
  <2>2. In(a, held) + In(a, inflight) + In(a, Walking) + In(a, Queued)
          + In(a, Popped) + In(a, dropped) = 1
    BY Zenon DEF HInv, Tokens
  <2> QED
    BY <2>1, <2>2, InType
<1>13. HTypes'
  <2>1. \A d \in Poppers' : ValBar'[d] \in Values
    BY <1>4, <1>5, <1>6, <1>9, Zenon DEF HInv, HTypes, Poppers
  <2> QED
    BY <1>3, <2>1, Zenon DEF HInv, HTypes
<1> QED
  BY <1>4, <1>11, <1>12, <1>13, Zenon

LEMMA ClientReturnStep ==
  ASSUME HInv, Engine \in Producers, NEW c \in active, ClientPop(c), PopStore(c)
  PROVE  HTypes' /\ Callers' /\ OneEach' /\ Distinct' /\ Tokens'
<1>1. /\ pc \in [Threads -> {"idle", "push_pos", "pop_pos"} \union PushWindow
                            \union PopWindow \union PushOwns \union PopOwns]
      /\ val \in [Threads -> Values \union {None}] /\ pos \in [Threads -> Positions]
      /\ c \in Threads /\ c \in Consumers
  BY Zenon DEF HInv, IInv, TypeOK, HTypes, Threads
<1>2. /\ Alone(c) /\ UNCHANGED <<enqueue_pos_, slot_value, queue>>
      /\ pc[c] = "pop_store" /\ pc'[c] = "idle"
  BY <1>1, Zenon DEF PopStore, Return, Goto, Alone
<1>3. UNCHANGED <<active, inflight, cq, walked, dropped>> /\ held' = held \union {val[c]}
  BY <1>2, Zenon DEF ClientPop
<1>4. /\ Walk' = Walk /\ Walking' = Walking /\ Callers' /\ OneEach'
      /\ \A d \in Consumers \ {c} : pc'[d] = pc[d] /\ ValBar'[d] = ValBar[d]
  BY <1>2, <1>3, ClientAlone, Zenon DEF PopOwns
<1>5. Queued' = Queued
  BY <1>2, Zenon DEF Queued
<1>6. c \in Poppers /\ ValBar[c] = val[c] /\ Poppers' = Poppers \ {c}
  BY <1>1, <1>2, <1>4, Zenon DEF Poppers, PopOwns, ValBar
<1>7. val[c] \in Values /\ val[c] \in Popped /\ val[c] \notin held
  <2>1. val[c] \in Values /\ val[c] \in Popped
    BY <1>6, Zenon DEF HInv, HTypes, Popped
  <2> QED
    BY <2>1, Apart, Zenon DEF HInv
<1>8. \A d \in Poppers' : ValBar'[d] = ValBar[d] /\ ValBar[d] # val[c]
  BY <1>4, <1>6, Zenon DEF HInv, Distinct, Poppers
<1>9. Popped' = Popped \ {val[c]}
  BY <1>6, <1>8, Zenon DEF Popped
<1>10. Distinct'
  BY <1>2, <1>3, <1>4, <1>6, <1>8 DEF HInv, Distinct
<1>11. Tokens'
  <2> SUFFICES ASSUME NEW a \in Values
               PROVE  In(a, held') + In(a, inflight) + In(a, Walking) + In(a, Queued)
                        + In(a, Popped') + In(a, dropped) = 1
    BY <1>3, <1>4, <1>5, Zenon DEF Tokens
  <2>1. In(a, Popped') + In(a, held') = In(a, Popped) + In(a, held)
    BY <1>3, <1>7, <1>9, Moved
  <2>2. In(a, held) + In(a, inflight) + In(a, Walking) + In(a, Queued)
          + In(a, Popped) + In(a, dropped) = 1
    BY Zenon DEF HInv, Tokens
  <2> QED
    BY <2>1, <2>2, InType
<1>12. HTypes'
  BY <1>3, <1>6, <1>7, <1>8, Zenon DEF HInv, HTypes
<1> QED
  BY <1>4, <1>10, <1>11, <1>12, Zenon

-----------------------------------------------------------------------------
LEMMA InitHInv ==
  ASSUME Engine \in Producers
  PROVE  HInit => HInv
<1> SUFFICES ASSUME HInit PROVE HInv
  BY Zenon
<1>1. /\ Init /\ active \subseteq Consumers /\ held = Values /\ inflight = {} /\ cq = <<>>
      /\ walked = 0 /\ dropped = {}
  BY Zenon DEF HInit
<1>2. IInv
  BY <1>1, InitIInv, Zenon
<1>3. \A t \in Threads : pc[t] = "idle"
  BY <1>1, Zenon DEF Init
<1>4. Engine \in Threads /\ Consumers \subseteq Threads /\ Len(cq) = 0 /\ queue = <<>> /\ Len(queue) = 0
  BY <1>1, Zenon DEF Threads, Init
<1>5. Walk = 0 /\ Poppers = {}
  BY <1>1, <1>3, <1>4, Zenon DEF Walk, Poppers, PushOwns, PopOwns
<1>6. 1 .. 0 = {}
  OBVIOUS
<1>7. Walking = {} /\ Queued = {} /\ Popped = {}
  BY <1>4, <1>5, <1>6 DEF Walking, Queued, Popped
<1>8. HTypes
  BY <1>1, <1>4, <1>5 DEF HTypes
<1>9. Callers /\ OneEach
  BY <1>3, <1>4, Zenon DEF Callers, OneEach, PushWindow, PopOwns
<1>10. Distinct
  BY <1>4, <1>5, <1>6 DEF Distinct
<1>11. Tokens
  BY <1>1, <1>7 DEF Tokens, In
<1> QED
  BY <1>2, <1>8, <1>9, <1>10, <1>11, Zenon DEF HInv

(* A step of the harvest is one of the ring, or leaves it alone. *)
LEMMA RingStep ==
  ASSUME HInv, Engine \in Producers, [HNext]_hvars
  PROVE  [Next]_vars
<1>1. CASE UNCHANGED hvars
  BY <1>1, Zenon DEF hvars
<1>2. ASSUME NEW b \in Values, Submit(b) \/ Complete(b) PROVE UNCHANGED vars
  BY <1>2, Zenon DEF Submit, Complete
<1>3. CASE HarvestCall
  <2>1. cq[walked + 1] \in Values
    <3>1. cq \in Seq(Values) /\ walked \in Nat /\ walked < Len(cq)
      BY <1>3, Zenon DEF HInv, HTypes, HarvestCall
    <3> QED
      BY <3>1
  <2> QED
    BY <1>3, <2>1, Zenon DEF HarvestCall, Next
<1>4. CASE HarvestPush
  BY <1>4, Zenon DEF HarvestPush, Next
<1>5. CASE HarvestAdvance
  BY <1>5, Zenon DEF HarvestAdvance
<1>6. ASSUME NEW c \in active, ClientPop(c) PROVE Next
  <2>1. c \in Consumers
    BY Zenon DEF HInv, HTypes
  <2> QED
    BY <1>6, <2>1, Zenon DEF ClientPop, Next
<1> QED
  BY <1>1, <1>2, <1>3, <1>4, <1>5, <1>6, Zenon DEF HNext

LEMMA NextHInv ==
  ASSUME Capacity > 1, Engine \in Producers
  PROVE  HInv /\ [HNext]_hvars => HInv'
<1> SUFFICES ASSUME HInv, [HNext]_hvars PROVE HInv'
  BY Zenon
<1>1. IInv'
  BY RingStep, NextIInv, Zenon DEF HInv
<1> DEFINE Rest == HTypes /\ Callers /\ OneEach /\ Distinct /\ Tokens
<1>2. CASE UNCHANGED hvars
  <2>1. /\ UNCHANGED <<enqueue_pos_, dequeue_pos_, slot_value, pc, pos, val, queue>>
        /\ UNCHANGED <<active, held, inflight, cq, walked, dropped>>
    BY <1>2, Zenon DEF hvars, vars
  <2>2. UNCHANGED <<Walk, Poppers, ValBar>>
    BY <2>1, Zenon DEF Walk, Poppers, ValBar
  <2>3. Distinct' /\ Tokens' /\ \A c \in Poppers' : ValBar'[c] \in Values
    BY <2>1, <2>2, TokensStay, Zenon DEF HInv
  <2> QED
    BY <1>1, <2>1, <2>3, Zenon DEF HInv, HTypes, Callers, OneEach
<1>3. ASSUME NEW b \in Values, Submit(b) \/ Complete(b) PROVE Rest'
  BY <1>3, SubmitStep, CompleteStep, Zenon
<1>4. ASSUME HarvestPush PROVE Rest'
  BY <1>4, HarvestLocalStep, HarvestClaimStep, HarvestRefusedStep, Zenon
<1>5. ASSUME HarvestCall \/ HarvestAdvance PROVE Rest'
  BY <1>5, HarvestCallStep, AdvanceStep, Zenon
<1>6. ASSUME NEW c \in active, ClientPop(c) PROVE Rest'
  BY <1>6, ClientLocalStep, ClientClaimStep, ClientReturnStep, Zenon
<1> QED
  BY <1>1, <1>2, <1>3, <1>4, <1>5, <1>6, Zenon DEF HNext, HInv

(* What a refused push finds: a full ring, or a pop that still owns the     *)
(* slot.                                                                    *)
LEMMA RefusedPush ==
  ASSUME HInv, Engine \in Producers, SignedWraps, [HNext]_hvars, dropped' # dropped
  PROVE  /\ pc[Engine] = "push_seq" /\ val[Engine] \in Values /\ val[Engine] \in Walking
         /\ \/ Len(queue) = Capacity
            \/ \E c \in active : pc[c] \in PopOwns /\ Slot(pos[c]) = Slot(pos[Engine])
<1>1. HarvestPush
  <2>1. ~ UNCHANGED hvars /\ ~ HarvestCall /\ ~ HarvestAdvance
    BY Zenon DEF hvars, HarvestCall, HarvestAdvance
  <2>2. \A b \in Values : ~ Submit(b) /\ ~ Complete(b)
    BY Zenon DEF Submit, Complete
  <2>3. \A c \in active : ~ ClientPop(c)
    BY Zenon DEF ClientPop
  <2> QED
    BY <2>1, <2>2, <2>3, Zenon DEF HNext
<1>2. pc[Engine] = "push_seq" /\ pc'[Engine] = "idle" /\ Engine \in Threads
  BY <1>1, Zenon DEF HarvestPush, Threads
<1>3. PushSeq(Engine)
  BY <1>1, <1>2, Zenon DEF HarvestPush, PushStep, PushPos, PushClaim, PushRetry, PushWrite, PushStore
<1>4. pc \in [Threads -> {"idle", "push_pos", "pop_pos"} \union PushWindow
                            \union PopWindow \union PushOwns \union PopOwns]
  BY Zenon DEF HInv, IInv, TypeOK
<1>5. Signed(Minus(sequence[Slot(pos[Engine])], pos[Engine])) < 0
  BY <1>2, <1>3, <1>4, Zenon DEF PushSeq, Diffs, Goto, Return
<1>6. Walk = walked /\ pc[Engine] \in PushWindow /\ pc[Engine] \notin PushOwns
  BY <1>2, Zenon DEF Walk, PushOwns, PushWindow
<1>7. val[Engine] \in Values /\ val[Engine] \in Walking
  <2>1. cq' = cq /\ Walk' = Walk + 1
    BY <1>1, <1>2, <1>6, Zenon DEF HarvestPush, Walk, PushOwns
  <2> QED
    BY <1>2, <1>6, <2>1, NextWalked, Zenon
<1>8. CASE Len(queue) = Capacity
  BY <1>2, <1>7, <1>8, Zenon
<1>9. CASE \E u \in Threads : pc[u] \in PopOwns /\ Slot(pos[u]) = Slot(pos[Engine])
  <2>1. PICK u \in Threads : pc[u] \in PopOwns /\ Slot(pos[u]) = Slot(pos[Engine])
    BY <1>9, Zenon
  <2>2. u \in active
    BY <1>2, <2>1, Zenon DEF HInv, Callers, PopOwns
  <2> QED
    BY <1>2, <1>7, <2>1, <2>2, Zenon
<1> QED
  BY <1>2, <1>5, <1>6, <1>8, <1>9, PushFails, Zenon DEF HInv

(* When the pop is the only one, it keeps the last slot but one. *)
LEMMA AlmostFull ==
  ASSUME HInv, Engine \in Producers, NEW c \in Consumers, active = {c}, pc[c] \in PopOwns,
         pc[Engine] = "push_seq", Slot(pos[c]) = Slot(pos[Engine])
  PROVE  Len(queue) >= Capacity - 1
<1>1. /\ pos[Engine] = enqueue_pos_ /\ dequeue_pos_ = Plus(pos[c], 1)
      /\ pos[c] \in Positions /\ enqueue_pos_ \in Positions
  <2>1. pos \in [Threads -> Positions] /\ c \in Threads /\ enqueue_pos_ \in Positions
    BY Zenon DEF HInv, IInv, TypeOK, Threads
  <2> QED
    BY <2>1, Zenon DEF HInv, OneEach, PushWindow
<1>2. Len(queue) = Minus(enqueue_pos_, Plus(pos[c], 1))
  BY <1>1, Zenon DEF HInv, IInv, ValuesInv, Size, Ahead
<1>3. CASE enqueue_pos_ = pos[c]
  BY <1>1, <1>2, <1>3, MinusNext, Sizes
<1>4. CASE enqueue_pos_ # pos[c]
  <2>1. Minus(enqueue_pos_, pos[c]) >= Capacity /\ Minus(enqueue_pos_, pos[c]) \in Nat
    BY <1>1, <1>4, SlotsApart, PositionTypes, PositionsNat, Zenon
  <2>2. Minus(enqueue_pos_, Plus(pos[c], 1)) = Minus(enqueue_pos_, pos[c]) - 1
    BY <1>1, <1>4, MinusNext, Zenon
  <2> QED
    BY <1>2, <2>1, <2>2, Sizes
<1> QED
  BY <1>3, <1>4, Zenon

-----------------------------------------------------------------------------
(* Counting.  The facts about finite sets that follow are the only use of   *)
(* the library's theorems.                                                  *)
LOCAL Sets == INSTANCE FiniteSetTheorems

LEMMA SameSize == \A S : Sets!Cardinality(S) = Cardinality(S)
  BY Zenon DEF Cardinality, Sets!Cardinality

LEMMA SameFinite == \A S : Sets!IsFiniteSet(S) <=> IsFiniteSet(S)
  BY Zenon DEF IsFiniteSet, Sets!IsFiniteSet

LEMMA SizeEmpty == Cardinality({}) = 0
  BY SameSize, Sets!FS_EmptySet, Zenon

LEMMA SizeSingle == \A x : Cardinality({x}) = 1
  BY SameSize, Sets!FS_Singleton, Zenon

LEMMA SizeOne ==
  ASSUME NEW S, NEW T \in SUBSET S, IsFiniteSet(S), Cardinality(T) = 1
  PROVE  \E x \in S : T = {x}
<1>1. Sets!IsFiniteSet(T)
  BY SameFinite, Sets!FS_Subset, Zenon
<1>2. \E x : T = {x}
  BY <1>1, SameSize, Sets!FS_Singleton, Zenon
<1> QED
  BY <1>2, Zenon

(* A sequence without repetition is no longer than the set it is over. *)
LEMMA NoLonger ==
  ASSUME IsFiniteSet(Values), NEW q \in Seq(Values),
         \A j, k \in 1 .. Len(q) : q[j] = q[k] => j = k
  PROVE  Cardinality(Values) \in Nat /\ Len(q) <= Cardinality(Values)
<1>1. q \in [1 .. Len(q) -> Values] /\ Len(q) \in Nat
  OBVIOUS
<1>2. q \in Sets!Injection(1 .. Len(q), Values)
  BY <1>1, Zenon DEF Sets!Injection, Sets!IsInjective
<1>3. Sets!Cardinality(1 .. Len(q)) <= Sets!Cardinality(Values)
  BY <1>2, SameFinite, Sets!FS_Injection, Zenon
<1>4. Sets!Cardinality(1 .. Len(q)) = IF 1 > Len(q) THEN 0 ELSE Len(q) - 1 + 1
  <2>1. 1 \in Int /\ Len(q) \in Int
    BY <1>1
  <2> QED
    BY <2>1, Sets!FS_Interval, Zenon
<1>5. Sets!Cardinality(Values) \in Nat
  BY SameFinite, Sets!FS_CardinalityType, Zenon
<1>6. Sets!Cardinality(Values) = Cardinality(Values)
  BY SameSize, Zenon
<1> QED
  BY <1>1, <1>3, <1>4, <1>5, <1>6

LEMMA Longer ==
  ASSUME NEW q \in Seq(Values), \A j, k \in 1 .. Len(q) : q[j] = q[k] => j = k,
         NEW v \in Values, \A k \in 1 .. Len(q) : q[k] # v
  PROVE  \A j, k \in 1 .. Len(Append(q, v)) : Append(q, v)[j] = Append(q, v)[k] => j = k
<1> DEFINE r == Append(q, v)
<1>1. /\ r \in Seq(Values) /\ Len(q) \in Nat /\ Len(r) = Len(q) + 1
      /\ r[Len(q) + 1] = v /\ \A k \in 1 .. Len(q) : r[k] = q[k]
  BY QueueAppend, Zenon
<1> HIDE DEF r
<1>2. \A j, k \in 1 .. Len(r) : r[j] = r[k] => j = k
  BY <1>1
<1> QED
  BY <1>2, Zenon DEF r

(* Between the engine and the ring: with room for every token, the ring is  *)
(* not full when a push finds it so, and not almost full behind one pop.    *)
LEMMA RoomForAll ==
  ASSUME HInv, IsFiniteSet(Values), Cardinality(Values) <= Capacity,
         val[Engine] \in Values, val[Engine] \in Walking
  PROVE  /\ Len(queue) < Capacity
         /\ \A c \in Poppers : Len(queue) < Capacity - 1
<1> DEFINE r == Append(queue, val[Engine])
<1>1. queue \in Seq(Values) /\ Len(queue) \in Nat /\ Capacity \in Nat
  BY Sizes DEF HInv, IInv, TypeOK
<1>2. \A k \in 1 .. Len(queue) : queue[k] \in Queued /\ queue[k] # val[Engine]
  BY Apart, Zenon DEF HInv, Queued
<1>3. /\ r \in Seq(Values) /\ Len(r) = Len(queue) + 1
      /\ r[Len(queue) + 1] = val[Engine] /\ \A k \in 1 .. Len(queue) : r[k] = queue[k]
  BY <1>1, QueueAppend, Zenon
<1>4. \A j, k \in 1 .. Len(r) : r[j] = r[k] => j = k
  BY <1>1, <1>2, Longer, Zenon DEF HInv, Distinct
<1> HIDE DEF r
<1>5. Cardinality(Values) \in Nat /\ Len(r) <= Cardinality(Values)
  BY <1>3, <1>4, NoLonger, Zenon
<1>6. ASSUME NEW c \in Poppers PROVE Len(queue) < Capacity - 1
  <2>1. ValBar[c] \in Values /\ ValBar[c] \in Popped
    BY Zenon DEF HInv, HTypes, Popped
  <2>2. ValBar[c] # val[Engine] /\ ValBar[c] \notin Queued
    <3>1. \A b \in Values : In(b, held) + In(b, inflight) + In(b, Walking) + In(b, Queued)
            + In(b, Popped) + In(b, dropped) = 1
      BY Zenon DEF HInv, Tokens
    <3>2. val[Engine] \notin Popped
      BY <3>1, InType
    <3>3. ValBar[c] \notin Queued
      BY <2>1, Apart, Zenon DEF HInv
    <3> QED
      BY <2>1, <3>2, <3>3, Zenon
  <2>3. \A k \in 1 .. Len(r) : r[k] # ValBar[c]
    BY <1>1, <1>2, <1>3, <2>2
  <2>4. Len(Append(r, ValBar[c])) = Len(r) + 1 /\ Append(r, ValBar[c]) \in Seq(Values)
    BY <1>3, <2>1, QueueAppend, Zenon
  <2>5. Len(Append(r, ValBar[c])) <= Cardinality(Values)
    <3>1. \A j, k \in 1 .. Len(Append(r, ValBar[c])) :
            Append(r, ValBar[c])[j] = Append(r, ValBar[c])[k] => j = k
      BY <1>3, <1>4, <2>1, <2>3, Longer, Zenon
    <3> QED
      BY <2>4, <3>1, NoLonger, Zenon
  <2> QED
    BY <1>1, <1>3, <1>5, <2>4, <2>5
<1> QED
  BY <1>1, <1>3, <1>5, <1>6

(* Counting the places where a token is. *)
LEMMA OccursIn ==
  ASSUME NEW s, NEW D, \A j, k \in D : s[j] = s[k] => j = k, NEW b
  PROVE  Cardinality({k \in D : s[k] = b}) = In(b, {s[k] : k \in D})
<1>1. CASE b \in {s[k] : k \in D}
  <2>1. PICK n \in D : s[n] = b
    BY <1>1, Zenon
  <2>2. {k \in D : s[k] = b} = {n}
    BY <2>1, Zenon
  <2> QED
    BY <1>1, <2>2, SizeSingle, Zenon DEF In
<1>2. CASE b \notin {s[k] : k \in D}
  <2>1. {k \in D : s[k] = b} = {}
    BY <1>2, Zenon
  <2> QED
    BY <1>2, <2>1, SizeEmpty, Zenon DEF In
<1> QED
  BY <1>1, <1>2, Zenon

LEMMA HInvOneToken ==
  ASSUME HInv
  PROVE  OneToken
<1> USE DEF OneToken
<1> TAKE b \in Values
<1>1. /\ cq \in Seq(Values) /\ Len(cq) \in Nat /\ Walk \in Nat /\ Walk <= Len(cq)
      /\ queue \in Seq(Values) /\ DOMAIN queue = 1 .. Len(queue)
  <2>1. /\ cq \in Seq(Values) /\ Len(cq) \in Nat /\ walked \in Nat /\ walked <= Len(cq)
        /\ queue \in Seq(Values)
    BY DEF HInv, HTypes, IInv, TypeOK
  <2>2. pc[Engine] \in PushOwns => walked < Len(cq)
    BY Zenon DEF HInv, Callers, PushOwns
  <2> QED
    BY <2>1, <2>2 DEF Walk
<1> DEFINE r == SubSeq(cq, Walk + 1, Len(cq))
           popping == {c \in Consumers :
                         \/ pc[c] = "pop_store" /\ val[c] = b
                         \/ pc[c] = "pop_read" /\ b = slot_value[Slot(pos[c])]}
<1>2. /\ r \in Seq(Values) /\ Len(r) = Len(cq) - Walk
      /\ \A k \in 1 .. Len(cq) - Walk : r[k] = cq[Walk + k]
  BY <1>1, SuffixOf, Zenon
<1>3. Cardinality({k \in DOMAIN queue : queue[k] = b}) = In(b, Queued)
  <2>1. \A j, k \in DOMAIN queue : queue[j] = queue[k] => j = k
    BY <1>1, Zenon DEF HInv, Distinct
  <2>2. Queued = {queue[k] : k \in DOMAIN queue}
    BY <1>1, Zenon DEF Queued
  <2> QED
    BY <2>1, <2>2, OccursIn, Zenon
<1>4. popping = {c \in Poppers : ValBar[c] = b}
  <2>1. \A c \in Consumers : c \in Threads
    BY Zenon DEF Threads
  <2> QED
    BY <2>1, Zenon DEF Poppers, PopOwns, ValBar
<1>5. Cardinality(popping) = In(b, Popped)
  <2>1. \A c, d \in Poppers : ValBar[c] = ValBar[d] => c = d
    BY Zenon DEF HInv, Distinct
  <2> QED
    <3>1. Cardinality({c \in Poppers : ValBar[c] = b}) = In(b, {ValBar[c] : c \in Poppers})
      BY <2>1, OccursIn, Zenon
    <3> QED
      BY <1>4, <3>1, Zenon DEF Popped
<1> HIDE DEF r, popping
<1>6. DOMAIN r = 1 .. Len(cq) - Walk
  BY <1>2
<1>7. {r[k] : k \in DOMAIN r} = Walking
  <2>1. \A k \in DOMAIN r : Walk + k \in Walk + 1 .. Len(cq) /\ r[k] = cq[Walk + k]
    BY <1>1, <1>2, <1>6
  <2>2. \A k \in Walk + 1 .. Len(cq) : k - Walk \in DOMAIN r /\ Walk + (k - Walk) = k
    BY <1>1, <1>6
  <2> QED
    BY <2>1, <2>2 DEF Walking
<1>8. \A j, k \in DOMAIN r : r[j] = r[k] => j = k
  <2> SUFFICES ASSUME NEW j \in DOMAIN r, NEW k \in DOMAIN r, r[j] = r[k] PROVE j = k
    BY Zenon
  <2>1. Walk + j \in Walk + 1 .. Len(cq) /\ Walk + k \in Walk + 1 .. Len(cq)
    BY <1>1, <1>6
  <2>2. Walk + j = Walk + k
    BY <1>2, <1>6, <2>1, Zenon DEF HInv, Distinct
  <2> QED
    BY <1>1, <1>6, <2>2
<1>9. Cardinality({k \in DOMAIN r : r[k] = b}) = In(b, Walking)
  BY <1>7, <1>8, OccursIn, Zenon
<1>10. In(b, held) + In(b, inflight) + In(b, Walking) + In(b, Queued)
         + In(b, Popped) + In(b, dropped) = 1
  BY Zenon DEF HInv, Tokens
<1> QED
  BY <1>3, <1>5, <1>9, <1>10, InType, Zenon DEF In, Walk, r, popping

-----------------------------------------------------------------------------
(* harvest_completions over an MpmcRing with any number of clients: every   *)
(* token is in exactly one place, so no completion is delivered twice and   *)
(* none is both dropped and delivered.                                      *)
THEOREM HarvestKeepsTokens ==
  ASSUME Capacity > 1, Engine \in Producers
  PROVE  HSpec => []OneToken
<1>1. HInit => HInv
  BY InitHInv, Zenon
<1>2. HInv /\ [HNext]_hvars => HInv'
  BY NextHInv, Zenon
<1>3. HInv => OneToken
  BY HInvOneToken, Zenon
<1> QED
  BY <1>1, <1>2, <1>3, PTL DEF HSpec

(* harvest_completions drops a completion, although the ring has room for   *)
(* every token, only when a client's try_pop stands in its way.             *)
THEOREM HarvestDropsBehindPop ==
  ASSUME Capacity > 1, Engine \in Producers, SignedWraps, IsFiniteSet(Values)
  PROVE  HSpec => DropsOnlyBehindStalledPop
<1> DEFINE Behind == \E c \in active : pc[c] \in PopOwns /\ Slot(pos[c]) = Slot(pos[Engine])
           Drops == Cardinality(Values) <= Capacity /\ dropped' # dropped => Behind
<1>1. HInit => HInv
  BY InitHInv, Zenon
<1>2. HInv /\ [HNext]_hvars => HInv'
  BY NextHInv, Zenon
<1>3. HInv /\ [HNext]_hvars => [Drops]_hvars
  <2> SUFFICES ASSUME HInv, [HNext]_hvars, Cardinality(Values) <= Capacity,
                      dropped' # dropped
               PROVE  Behind
    BY Zenon
  <2>1. /\ val[Engine] \in Values /\ val[Engine] \in Walking
        /\ Len(queue) = Capacity \/ Behind
    BY RefusedPush, Zenon
  <2>2. Len(queue) < Capacity
    BY <2>1, RoomForAll, Zenon
  <2>3. Len(queue) # Capacity
    BY <2>2, Sizes
  <2> QED
    BY <2>1, <2>3, Zenon
<1>4. DropsOnlyBehindStalledPop <=> [][Drops]_hvars
  BY Zenon DEF DropsOnlyBehindStalledPop
<1> HIDE DEF Drops
<1> QED
  BY <1>1, <1>2, <1>3, <1>4, PTL DEF HSpec

(* harvest_completions with one client: a ring with room for every token    *)
(* never makes it drop one.                                                 *)
THEOREM HarvestDropsNothing ==
  ASSUME Capacity > 1, Engine \in Producers, SignedWraps, IsFiniteSet(Values),
         IsFiniteSet(Consumers)
  PROVE  HSpec => []OneConsumerDropsNothing
<1>1. HInit => HInv /\ OneConsumerDropsNothing
  BY InitHInv, Zenon DEF HInit, OneConsumerDropsNothing
<1>2. HInv /\ [HNext]_hvars => HInv'
  BY NextHInv, Zenon
<1>3. HInv /\ OneConsumerDropsNothing /\ [HNext]_hvars => OneConsumerDropsNothing'
  <2> SUFFICES ASSUME HInv, OneConsumerDropsNothing, [HNext]_hvars,
                      Cardinality(active') = 1, Cardinality(Values) <= Capacity,
                      dropped' # {}
               PROVE  FALSE
    BY Zenon DEF OneConsumerDropsNothing
  <2>1. active' = active
    BY Zenon DEF HNext, Submit, Complete, HarvestCall, HarvestPush, HarvestAdvance, ClientPop, hvars
  <2>2. PICK c \in Consumers : active = {c}
    <3>1. active \subseteq Consumers
      BY Zenon DEF HInv, HTypes
    <3> QED
      BY <2>1, <3>1, SizeOne, Zenon
  <2>3. dropped = {} /\ dropped' # dropped
    <3>1. Cardinality(active) = 1
      BY <2>1, Zenon
    <3>2. dropped = {}
      BY <3>1, Zenon DEF OneConsumerDropsNothing
    <3> QED
      BY <3>2, Zenon
  <2>4. /\ pc[Engine] = "push_seq" /\ val[Engine] \in Values /\ val[Engine] \in Walking
        /\ \/ Len(queue) = Capacity
           \/ pc[c] \in PopOwns /\ Slot(pos[c]) = Slot(pos[Engine])
    BY <2>2, <2>3, RefusedPush, Zenon
  <2>5. Len(queue) < Capacity /\ \A d \in Poppers : Len(queue) < Capacity - 1
    BY <2>4, RoomForAll, Zenon
  <2>6. Len(queue) \in Nat /\ Capacity \in Nat
    BY Sizes DEF HInv, IInv, TypeOK
  <2>7. c \in Poppers /\ Slot(pos[c]) = Slot(pos[Engine])
    BY <2>4, <2>5, <2>6 DEF Poppers
  <2>8. Len(queue) >= Capacity - 1
    BY <2>2, <2>4, <2>7, AlmostFull, Zenon DEF Poppers
  <2> QED
    BY <2>5, <2>6, <2>7, <2>8
<1> QED
  BY <1>1, <1>2, <1>3, PTL DEF HSpec
=============================================================================
