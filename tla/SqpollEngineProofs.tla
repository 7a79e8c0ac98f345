------------------------- MODULE SqpollEngineProofs -------------------------
(***************************************************************************)
(* Proofs about SqpollEngine.tla, from the invariant of SqpollEngineInv:   *)
(* every step of the clients, the kernel's thread, the device and the      *)
(* engine preserves it, and it implies the properties.                     *)
(***************************************************************************)
EXTENDS SqpollEngineInv

-----------------------------------------------------------------------------
(* The clients. *)
LEMMA AcquireStep ==
  ASSUME IInv, NEW b \in Buffers, Acquire(b)
  PROVE  IInv'
<1> USE DEF Acquire, IInv, engine, clients, history
<1>1. TypeInv'
  BY Zenon DEF TypeInv, PoolRequests, PoolSqes
<1>2. Locals'
  BY Zenon DEF Locals
<1>3. Places'
  <2> SUFFICES ASSUME NEW c \in setup.pool
               PROVE  PlaceSum(c)' = 1
    BY Zenon DEF Places
  <2>1. CountTypes(c) /\ PlaceSum(c) = 1
    BY Counts, Zenon DEF Places
  <2>2. UNCHANGED <<Occurs(queue, Of(c)), Occurs(req, Of(c)), Occurs(sqes, Of(c)),
                  Occurs(sq, Of(c)), Cardinality(Inflight(c)),
                  Occurs(Unwalked, {c}), Occurs(out_queue, {c}), In(c, lost),
                  In(c, dropped)>>
    BY Zenon DEF Inflight, Unwalked
  <2>3. b \notin held
    BY Elsewhere, Zenon DEF TypeInv
  <2>4. In(c, free)' = In(c, free) - In(b, {c}) /\ In(c, held)' = In(c, held) + In(b, {c})
    BY <2>3, InAdd, InRemove
  <2> HIDE DEF Acquire, IInv
  <2>5. In(b, {c}) \in Nat
    BY InType
  <2> QED
    BY <2>1, <2>2, <2>4, <2>5, SMTT(30) DEF CountTypes, PlaceSum
<1>4. KernelOnce'
  BY Zenon DEF KernelOnce, KernelSum, Inflight
<1>5. AsAsked'
  BY Zenon DEF AsAsked
<1>6. NoRequestLost' /\ NoCompletionDropped'
  BY Zenon DEF NoRequestLost, NoCompletionDropped
<1>7. SleepIsSafe'
  BY Zenon DEF SleepIsSafe, TypeInv
<1> QED
  BY <1>1, <1>2, <1>3, <1>4, <1>5, <1>6, <1>7, Zenon

LEMMA PushRequestStep ==
  ASSUME IInv, NEW b \in Buffers, NEW o \in IoOp, PushRequest(b, o)
  PROVE  IInv'
<1> USE DEF PushRequest, IInv, engine, clients, history
<1>0. [op |-> o, buffer_index |-> b] \in PoolRequests
  BY Zenon DEF PoolRequests, TypeInv
<1>1. TypeInv'
  BY DEF TypeInv, PoolRequests, PoolSqes
<1>2. Locals'
  BY Zenon DEF Locals
<1>3. Places'
  <2> SUFFICES ASSUME NEW c \in setup.pool
               PROVE  PlaceSum(c)' = 1
    BY Zenon DEF Places
  <2>1. CountTypes(c) /\ PlaceSum(c) = 1
    BY Counts, Zenon DEF Places
  <2>2. UNCHANGED <<In(c, free), Occurs(req, Of(c)), Occurs(sqes, Of(c)),
                  Occurs(sq, Of(c)), Cardinality(Inflight(c)),
                  Occurs(Unwalked, {c}), Occurs(out_queue, {c}), In(c, lost),
                  In(c, dropped)>>
    BY Zenon DEF Inflight, Unwalked
  <2>3. Occurs(queue, Of(c))' = Occurs(queue, Of(c)) + In(b, {c})
    <3>1. In([op |-> o, buffer_index |-> b], Of(c)) = In(b, {c})
      BY <1>0, RequestOf, Zenon DEF PoolEntries
    <3>2. Occurs(queue', Of(c)) = Occurs(queue, Of(c)) + In([op |-> o, buffer_index |-> b], Of(c))
      BY <1>0, OccursAppend, Zenon DEF TypeInv
    <3> QED
      BY <3>1, <3>2, Zenon
  <2>4. In(c, held)' = In(c, held) - In(b, {c})
    BY InRemove, Zenon
  <2> HIDE DEF PushRequest, IInv
  <2>5. In(b, {c}) \in Nat
    BY InType
  <2> QED
    BY <2>1, <2>2, <2>3, <2>4, <2>5, SMTT(30) DEF CountTypes, PlaceSum
<1>4. KernelOnce'
  BY Zenon DEF KernelOnce, KernelSum, Inflight
<1>5. AsAsked'
  <2>1. Range(queue') = Range(queue) \union {[op |-> o, buffer_index |-> b]}
    BY <1>0, RangeAppend DEF TypeInv
  <2>2. ASSUME NEW e \in Range(queue) \union Range(req) \union Range(sqes) \union Range(sq)
                       \union inflight
        PROVE  asked'[e.buffer_index] = asked[e.buffer_index]
    <3>1. e.buffer_index \in Buffers /\ e.buffer_index # b
      BY <2>2, OnTheWay, PoolTypes, Zenon
    <3> QED
      BY <3>1 DEF TypeInv
  <2>3. LET r == [op |-> o, buffer_index |-> b] IN r.op = asked'[r.buffer_index]
    BY DEF TypeInv
  <2>4. \A r \in Range(queue') \union Range(req') : r.op = asked'[r.buffer_index]
    BY <2>1, <2>2, <2>3, Zenon DEF AsAsked
  <2> QED
    BY <2>2, <2>4, Zenon DEF AsAsked
<1>6. NoRequestLost' /\ NoCompletionDropped'
  BY Zenon DEF NoRequestLost, NoCompletionDropped
<1>7. SleepIsSafe'
  BY Zenon DEF SleepIsSafe, TypeInv
<1> QED
  BY <1>1, <1>2, <1>3, <1>4, <1>5, <1>6, <1>7, Zenon

LEMMA PopCompletionStep ==
  ASSUME IInv, PopCompletion
  PROVE  IInv'
<1> USE DEF PopCompletion, IInv, engine, clients, history
<1>1. TypeInv'
  <2>1. Head(out_queue) \in setup.pool /\ Tail(out_queue) \in Seq(setup.pool)
    BY HeadTailProperties, Zenon DEF TypeInv
  <2>2. asked' \in [Buffers -> IoOp \union {"none"}]
    BY Zenon DEF TypeInv
  <2> QED
    BY <2>1, <2>2, Zenon DEF TypeInv, PoolRequests, PoolSqes
<1>2. Locals'
  BY Zenon DEF Locals
<1>3. Places'
  <2> SUFFICES ASSUME NEW c \in setup.pool
               PROVE  PlaceSum(c)' = 1
    BY Zenon DEF Places
  <2>1. CountTypes(c) /\ PlaceSum(c) = 1
    BY Counts, Zenon DEF Places
  <2>2. UNCHANGED <<In(c, free), Occurs(queue, Of(c)), Occurs(req, Of(c)),
                  Occurs(sqes, Of(c)), Occurs(sq, Of(c)),
                  Cardinality(Inflight(c)), Occurs(Unwalked, {c}), In(c, lost),
                  In(c, dropped)>>
    BY Zenon DEF Inflight, Unwalked
  <2>3. /\ Head(out_queue) \in setup.pool
        /\ Occurs(out_queue, {Head(out_queue)}) > 0
    <3>1. Head(out_queue) \in setup.pool /\ Head(out_queue) \in Range(out_queue)
      BY HeadTailProperties, RangeTail, Zenon DEF TypeInv
    <3> QED
      BY <3>1, RangeMember, Zenon DEF TypeInv
  <2>4. Head(out_queue) \notin held
    BY <2>3, Elsewhere, Zenon
  <2>5. Occurs(out_queue, {c}) = In(Head(out_queue), {c}) + Occurs(out_queue', {c})
    BY OccursTail, Zenon DEF TypeInv
  <2>6. In(c, held)' = In(c, held) + In(Head(out_queue), {c})
    BY <2>4, InAdd
  <2>7. Occurs(out_queue, {c})' \in Nat
    BY <1>1, OccursType, Zenon DEF TypeInv
  <2> HIDE DEF PopCompletion, IInv
  <2>8. In(Head(out_queue), {c}) \in Nat
    BY InType
  <2> QED
    BY <2>1, <2>2, <2>5, <2>6, <2>7, <2>8, SMTT(30) DEF CountTypes, PlaceSum
<1>4. KernelOnce'
  BY Zenon DEF KernelOnce, KernelSum, Inflight
<1>5. AsAsked'
  <2>1. Occurs(out_queue, {Head(out_queue)}) > 0
    BY HeadTailProperties, RangeTail, RangeMember, Zenon DEF TypeInv
  <2>2. ASSUME NEW e \in Range(queue) \union Range(req) \union Range(sqes) \union Range(sq)
                       \union inflight
        PROVE  asked'[e.buffer_index] = asked[e.buffer_index]
    <3>1. e.buffer_index \in Buffers /\ Occurs(out_queue, {e.buffer_index}) = 0
      BY <2>2, OnTheWay, PoolTypes, Zenon
    <3>2. e.buffer_index # Head(out_queue)
      <4> HIDE DEF PopCompletion, IInv
      <4> QED
        BY <3>1, <2>1
    <3> QED
      BY <3>1, <3>2 DEF TypeInv
  <2> QED
    BY <2>2, Zenon DEF AsAsked
<1>6. NoRequestLost' /\ NoCompletionDropped'
  BY Zenon DEF NoRequestLost, NoCompletionDropped
<1>7. SleepIsSafe'
  BY Zenon DEF SleepIsSafe, TypeInv
<1> QED
  BY <1>1, <1>2, <1>3, <1>4, <1>5, <1>6, <1>7, Zenon

LEMMA ReleaseStep ==
  ASSUME IInv, NEW b \in Buffers, Release(b)
  PROVE  IInv'
<1> USE DEF Release, IInv, engine, clients, history
<1>1. TypeInv'
  BY Zenon DEF TypeInv, PoolRequests, PoolSqes
<1>2. Locals'
  BY Zenon DEF Locals
<1>3. Places'
  <2> SUFFICES ASSUME NEW c \in setup.pool
               PROVE  PlaceSum(c)' = 1
    BY Zenon DEF Places
  <2>1. CountTypes(c) /\ PlaceSum(c) = 1
    BY Counts, Zenon DEF Places
  <2>2. UNCHANGED <<Occurs(queue, Of(c)), Occurs(req, Of(c)), Occurs(sqes, Of(c)),
                  Occurs(sq, Of(c)), Cardinality(Inflight(c)),
                  Occurs(Unwalked, {c}), Occurs(out_queue, {c}), In(c, lost),
                  In(c, dropped)>>
    BY Zenon DEF Inflight, Unwalked
  <2>3. b \notin free
    BY Elsewhere, Zenon DEF TypeInv
  <2>4. In(c, held)' = In(c, held) - In(b, {c}) /\ In(c, free)' = In(c, free) + In(b, {c})
    BY <2>3, InAdd, InRemove
  <2> HIDE DEF Release, IInv
  <2>5. In(b, {c}) \in Nat
    BY InType
  <2> QED
    BY <2>1, <2>2, <2>4, <2>5, SMTT(30) DEF CountTypes, PlaceSum
<1>4. KernelOnce'
  BY Zenon DEF KernelOnce, KernelSum, Inflight
<1>5. AsAsked'
  BY Zenon DEF AsAsked
<1>6. NoRequestLost' /\ NoCompletionDropped'
  BY Zenon DEF NoRequestLost, NoCompletionDropped
<1>7. SleepIsSafe'
  BY Zenon DEF SleepIsSafe, TypeInv
<1> QED
  BY <1>1, <1>2, <1>3, <1>4, <1>5, <1>6, <1>7, Zenon

-----------------------------------------------------------------------------
(* The kernel's thread and the device. *)
LEMMA PollerConsumeStep ==
  ASSUME IInv, PollerConsume
  PROVE  IInv'
<1> USE DEF PollerConsume, IInv, engine, clients, history
<1>0. /\ Head(sq) \in PoolSqes /\ sq' \in Seq(PoolSqes)
      /\ Head(sq) \in Range(sq) /\ Range(sq') \subseteq Range(sq)
      /\ Head(sq) \notin inflight
  <2>1. sq \in Seq(PoolSqes) /\ sq # <<>> /\ sq' = Tail(sq)
    BY Zenon DEF TypeInv
  <2>2. Head(sq) \in PoolSqes /\ Tail(sq) \in Seq(PoolSqes)
    BY <2>1, HeadTailProperties, Zenon
  <2>3. Head(sq) \in Range(sq) /\ Range(Tail(sq)) \subseteq Range(sq)
    BY <2>1, RangeTail, Zenon
  <2>4. Head(sq) \notin inflight
    <3> SUFFICES ASSUME Head(sq) \in inflight
                 PROVE  FALSE
      BY Zenon
    <3> DEFINE b == Head(sq).buffer_index
    <3>1. b \in setup.pool /\ Head(sq) \in Of(b)
      BY <2>2, PoolTypes, Zenon DEF PoolEntries
    <3>2. Occurs(sq, Of(b)) > 0 /\ Cardinality(Inflight(b)) > 0
      BY <2>1, <2>3, <3>1, RangeMember, InflightMember, Zenon
    <3>3. CountTypes(b) /\ PlaceSum(b) = 1
      BY <3>1, Counts, Zenon DEF Places
    <3> HIDE DEF PollerConsume, IInv, b
    <3> QED
      BY <3>2, <3>3, SMTT(30) DEF CountTypes, PlaceSum
  <2> QED
    BY <2>1, <2>2, <2>3, <2>4, Zenon
<1>1. TypeInv'
  <2>1. inflight' \subseteq PoolSqes /\ IsFiniteSet(inflight')
    BY <1>0, SizeAdd, Zenon DEF TypeInv
  <2> QED
    BY <2>1, <1>0, Zenon DEF TypeInv, PoolRequests, PoolSqes
<1>2. Locals'
  BY Zenon DEF Locals
<1>3. Places'
  <2> SUFFICES ASSUME NEW c \in setup.pool
               PROVE  PlaceSum(c)' = 1
    BY Zenon DEF Places
  <2>1. CountTypes(c) /\ PlaceSum(c) = 1
    BY Counts, Zenon DEF Places
  <2>2. UNCHANGED <<In(c, free), In(c, held), Occurs(queue, Of(c)), Occurs(req, Of(c)),
                  Occurs(sqes, Of(c)), Occurs(Unwalked, {c}),
                  Occurs(out_queue, {c}), In(c, lost), In(c, dropped)>>
    BY Zenon DEF Unwalked
  <2>3. Occurs(sq, Of(c)) = In(Head(sq).buffer_index, {c}) + Occurs(sq', Of(c))
    <3>1. Occurs(sq, Of(c)) = In(Head(sq), Of(c)) + Occurs(sq', Of(c))
      BY OccursTail, Zenon DEF TypeInv
    <3> QED
      BY <3>1, <1>0, RequestOf, Zenon DEF PoolEntries
  <2>4. Occurs(sq', Of(c)) \in Nat
    BY <1>0, OccursType, Zenon
  <2>5. Cardinality(Inflight(c))' = Cardinality(Inflight(c)) + In(Head(sq).buffer_index, {c})
    BY <1>0, InflightAdd, Zenon DEF Inflight
  <2> HIDE DEF PollerConsume, IInv
  <2>6. In(Head(sq).buffer_index, {c}) \in Nat
    BY InType
  <2> QED
    BY <2>1, <2>2, <2>3, <2>4, <2>5, <2>6, SMTT(30) DEF CountTypes, PlaceSum
<1>4. KernelOnce'
  <2> SUFFICES ASSUME NEW c \in setup.pool
               PROVE  KernelSum(c)' <= 1
    BY Zenon DEF KernelOnce
  <2>1. CountTypes(c) /\ KernelSum(c) <= 1
    BY Counts, Zenon DEF KernelOnce
  <2>2. UNCHANGED <<Occurs(req, Of(c)), Occurs(sqes, Of(c)), Occurs(cq, {c})>>
    BY Zenon
  <2>3. Occurs(sq, Of(c)) = In(Head(sq).buffer_index, {c}) + Occurs(sq', Of(c))
    <3>1. Occurs(sq, Of(c)) = In(Head(sq), Of(c)) + Occurs(sq', Of(c))
      BY OccursTail, Zenon DEF TypeInv
    <3> QED
      BY <3>1, <1>0, RequestOf, Zenon DEF PoolEntries
  <2>4. Occurs(sq', Of(c)) \in Nat
    BY <1>0, OccursType, Zenon
  <2>5. Cardinality(Inflight(c))' = Cardinality(Inflight(c)) + In(Head(sq).buffer_index, {c})
    BY <1>0, InflightAdd, Zenon DEF Inflight
  <2> HIDE DEF PollerConsume, IInv
  <2>6. In(Head(sq).buffer_index, {c}) \in Nat
    BY InType
  <2> QED
    BY <2>1, <2>2, <2>3, <2>4, <2>5, <2>6, SMTT(30) DEF CountTypes, KernelSum
<1>5. AsAsked'
  BY <1>0, Zenon DEF AsAsked
<1>6. NoRequestLost' /\ NoCompletionDropped'
  BY Zenon DEF NoRequestLost, NoCompletionDropped
<1>7. SleepIsSafe'
  BY Zenon DEF SleepIsSafe, TypeInv
<1> QED
  BY <1>1, <1>2, <1>3, <1>4, <1>5, <1>6, <1>7, Zenon

LEMMA PollerIdleStep ==
  ASSUME IInv, PollerIdle
  PROVE  IInv'
<1> USE DEF PollerIdle, IInv, engine, clients, history
<1>1. TypeInv'
  BY Zenon DEF TypeInv, PoolRequests, PoolSqes
<1>2. Locals'
  BY Zenon DEF Locals
<1>3. Places' /\ KernelOnce' /\ AsAsked' /\ NoRequestLost' /\ NoCompletionDropped'
  BY NothingMoves, Zenon
<1>4. SleepIsSafe'
  BY Zenon DEF SleepIsSafe, TypeInv
<1> QED
  BY <1>1, <1>2, <1>3, <1>4, Zenon

LEMMA PollerRecheckStep ==
  ASSUME IInv, PollerRecheck
  PROVE  IInv'
<1> USE DEF PollerRecheck, IInv, engine, clients, history
<1>1. TypeInv'
  BY Zenon DEF TypeInv, PoolRequests, PoolSqes
<1>2. Locals'
  BY Zenon DEF Locals
<1>3. Places' /\ KernelOnce' /\ AsAsked' /\ NoRequestLost' /\ NoCompletionDropped'
  BY NothingMoves, Zenon
<1>4. SleepIsSafe'
  BY Zenon DEF SleepIsSafe, TypeInv
<1> QED
  BY <1>1, <1>2, <1>3, <1>4, Zenon

LEMMA CompleteStep ==
  ASSUME IInv, NEW e \in inflight, Complete(e)
  PROVE  IInv'
<1> USE DEF Complete, IInv, engine, clients, history
<1>0. /\ e \in PoolSqes /\ e.buffer_index \in setup.pool
      /\ cq' \in Seq(setup.pool) /\ Len(cq') = Len(cq) + 1 /\ Len(cq) \in Nat
      /\ Unwalked' = Append(Unwalked, e.buffer_index)
  <2>1. e \in PoolSqes /\ cq \in Seq(setup.pool) /\ walked \in Nat /\ walked <= Len(cq)
    BY EngineAssumption DEF TypeInv, Locals
  <2>2. e.buffer_index \in setup.pool
    BY <2>1, PoolTypes, Zenon DEF PoolEntries
  <2>3. cq' \in Seq(setup.pool) /\ Len(cq') = Len(cq) + 1 /\ Len(cq) \in Nat
    BY <2>1, <2>2, AppendProperties, LenProperties, Zenon
  <2>4. Unwalked' = Append(Unwalked, e.buffer_index)
    <3>1. SubSeq(Append(cq, e.buffer_index), walked + 1, Len(Append(cq, e.buffer_index)))
          = Append(SubSeq(cq, walked + 1, Len(cq)), e.buffer_index)
      BY <2>1, <2>2, SuffixAppend, Zenon
    <3> QED
      BY <3>1, Zenon DEF Unwalked
  <2> QED
    BY <2>1, <2>2, <2>3, <2>4, Zenon
<1>1. TypeInv'
  <2>1. inflight' \subseteq PoolSqes /\ IsFiniteSet(inflight')
    BY SizeRemove, Zenon DEF TypeInv
  <2> QED
    BY <2>1, <1>0, Zenon DEF TypeInv, PoolRequests, PoolSqes
<1>2. Locals'
  BY <1>0 DEF Locals, TypeInv
<1>3. Places'
  <2> SUFFICES ASSUME NEW c \in setup.pool
               PROVE  PlaceSum(c)' = 1
    BY Zenon DEF Places
  <2>1. CountTypes(c) /\ PlaceSum(c) = 1
    BY Counts, Zenon DEF Places
  <2>2. UNCHANGED <<In(c, free), In(c, held), Occurs(queue, Of(c)), Occurs(req, Of(c)),
                  Occurs(sqes, Of(c)), Occurs(sq, Of(c)),
                  Occurs(out_queue, {c}), In(c, lost), In(c, dropped)>>
    BY Zenon
  <2>3. Cardinality(Inflight(c))' = Cardinality(Inflight(c)) - In(e.buffer_index, {c})
    BY InflightRemove, Zenon DEF Inflight
  <2>4. Occurs(Unwalked', {c}) = Occurs(Unwalked, {c}) + In(e.buffer_index, {c})
    <3>1. Unwalked \in Seq(setup.pool)
      BY Counts, Zenon
    <3> QED
      BY <3>1, <1>0, OccursAppend, Zenon
  <2> HIDE DEF Complete, IInv
  <2>5. In(e.buffer_index, {c}) \in Nat
    BY InType
  <2> QED
    BY <2>1, <2>2, <2>3, <2>4, <2>5, SMTT(30) DEF CountTypes, PlaceSum
<1>4. KernelOnce'
  <2> SUFFICES ASSUME NEW c \in setup.pool
               PROVE  KernelSum(c)' <= 1
    BY Zenon DEF KernelOnce
  <2>1. CountTypes(c) /\ KernelSum(c) <= 1
    BY Counts, Zenon DEF KernelOnce
  <2>2. UNCHANGED <<Occurs(req, Of(c)), Occurs(sqes, Of(c)), Occurs(sq, Of(c))>>
    BY Zenon
  <2>3. Cardinality(Inflight(c))' = Cardinality(Inflight(c)) - In(e.buffer_index, {c})
    BY InflightRemove, Zenon DEF Inflight
  <2>4. Occurs(cq', {c}) = Occurs(cq, {c}) + In(e.buffer_index, {c})
    <3>1. cq \in Seq(setup.pool) /\ cq' = Append(cq, e.buffer_index)
      BY Zenon DEF TypeInv
    <3> HIDE DEF Complete, IInv
    <3> QED
      BY <3>1, <1>0, OccursAppend, Zenon
  <2> HIDE DEF Complete, IInv
  <2>5. In(e.buffer_index, {c}) \in Nat
    BY InType
  <2> QED
    BY <2>1, <2>2, <2>3, <2>4, <2>5, SMTT(30) DEF CountTypes, KernelSum
<1>5. AsAsked'
  BY Zenon DEF AsAsked
<1>6. NoRequestLost' /\ NoCompletionDropped'
  BY Zenon DEF NoRequestLost, NoCompletionDropped
<1>7. SleepIsSafe'
  BY Zenon DEF SleepIsSafe, TypeInv
<1> QED
  BY <1>1, <1>2, <1>3, <1>4, <1>5, <1>6, <1>7, Zenon

(* drain_and_submit and harvest_completions. *)
LEMMA StartDrainStep ==
  ASSUME IInv, StartDrain
  PROVE  IInv'
<1> USE DEF StartDrain, IInv, engine, clients, history
<1>1. TypeInv'
  BY Zenon DEF TypeInv, PoolRequests, PoolSqes
<1>2. Locals'
  BY Zenon DEF Locals
<1>3. Places' /\ KernelOnce' /\ AsAsked' /\ NoRequestLost' /\ NoCompletionDropped'
  BY NothingMoves, Zenon
<1>4. SleepIsSafe'
  BY Zenon DEF SleepIsSafe, TypeInv
<1> QED
  BY <1>1, <1>2, <1>3, <1>4, Zenon

(* The condition of the loop of drain_and_submit. *)
MayPop == submitted < MaxBatch /\ queue # <<>>

LEMMA DrainTakeStep ==
  ASSUME IInv, DrainPop, MayPop
  PROVE  IInv'
<1> USE DEF DrainPop, MayPop, IInv, engine, clients, history
<1>0. /\ Head(queue) \in PoolRequests /\ queue' \in Seq(PoolRequests)
      /\ Head(queue) \in Range(queue) /\ Range(queue') \subseteq Range(queue)
      /\ req' = <<Head(queue)>> /\ req' \in Seq(PoolRequests) /\ Len(req') = 1
  <2>1. queue \in Seq(PoolRequests) /\ req' = <<Head(queue)>> /\ queue' = Tail(queue)
    BY Zenon DEF TypeInv
  <2>2. Head(queue) \in PoolRequests /\ Tail(queue) \in Seq(PoolRequests)
    BY <2>1, HeadTailProperties, Zenon
  <2>3. Head(queue) \in Range(queue) /\ Range(Tail(queue)) \subseteq Range(queue)
    BY <2>1, RangeTail, Zenon
  <2>4. <<Head(queue)>> \in Seq(PoolRequests) /\ Len(<<Head(queue)>>) = 1
    BY <2>2
  <2> QED
    BY <2>1, <2>2, <2>3, <2>4, Zenon
<1>1. TypeInv'
  BY <1>0, Zenon DEF TypeInv, PoolRequests, PoolSqes
<1>2. Locals'
  BY <1>0, Zenon DEF Locals
<1>3. Places'
  <2> SUFFICES ASSUME NEW c \in setup.pool
               PROVE  PlaceSum(c)' = 1
    BY Zenon DEF Places
  <2>1. CountTypes(c) /\ PlaceSum(c) = 1
    BY Counts, Zenon DEF Places
  <2>2. UNCHANGED <<In(c, free), In(c, held), Occurs(sqes, Of(c)), Occurs(sq, Of(c)),
                  Cardinality(Inflight(c)), Occurs(Unwalked, {c}),
                  Occurs(out_queue, {c}), In(c, lost), In(c, dropped)>>
    BY Zenon DEF Inflight, Unwalked
  <2>3. Occurs(queue, Of(c)) = In(Head(queue), Of(c)) + Occurs(queue', Of(c))
    BY OccursTail, Zenon DEF TypeInv
  <2>4. Occurs(req, Of(c)) = 0 /\ Occurs(req', Of(c)) = In(Head(queue), Of(c))
    BY <1>0, OccursEmpty, OccursSingle, Zenon DEF Locals
  <2>5. Occurs(queue', Of(c)) \in Nat
    BY <1>0, OccursType, Zenon
  <2> HIDE DEF DrainPop, MayPop, IInv
  <2>6. In(Head(queue), Of(c)) \in Nat
    BY InType
  <2> QED
    BY <2>1, <2>2, <2>3, <2>4, <2>5, <2>6, SMTT(30) DEF CountTypes, PlaceSum
<1>4. KernelOnce'
  <2> SUFFICES ASSUME NEW c \in setup.pool
               PROVE  KernelSum(c)' <= 1
    BY Zenon DEF KernelOnce
  <2>1. CountTypes(c)
    BY Counts, Zenon
  <2>2. UNCHANGED <<Occurs(sqes, Of(c)), Occurs(sq, Of(c)), Cardinality(Inflight(c)), Occurs(cq, {c})>>
    BY Zenon DEF Inflight
  <2>3. Occurs(queue, Of(c)) = In(Head(queue), Of(c)) + Occurs(queue', Of(c))
    BY OccursTail, Zenon DEF TypeInv
  <2>4. Occurs(req', Of(c)) = In(Head(queue), Of(c))
    BY <1>0, OccursSingle, Zenon
  <2>5. KernelSum(c) \in Nat /\ KernelSum(c) + Occurs(queue, Of(c)) <= 1
    BY KernelFromPlaces, Zenon DEF Locals
  <2>6. Occurs(queue', Of(c)) \in Nat /\ Occurs(req', Of(c)) \in Nat
    BY <1>1, OccursType, Zenon DEF TypeInv
  <2> HIDE DEF DrainPop, MayPop, IInv
  <2>7. KernelSum(c)' + Occurs(req, Of(c)) = KernelSum(c) + Occurs(req', Of(c))
    BY <2>1, <2>2, <2>6 DEF CountTypes, KernelSum
  <2>8. Occurs(req, Of(c)) \in Nat /\ KernelSum(c)' \in Nat
    BY <2>1, <2>2, <2>6 DEF CountTypes, KernelSum
  <2>9. Occurs(queue, Of(c)) = Occurs(req', Of(c)) + Occurs(queue', Of(c))
    BY <2>3, <2>4, Zenon
  <2> QED
    BY <2>5, <2>6, <2>7, <2>8, <2>9
<1>5. AsAsked'
  <2>1. Range(req') = {Head(queue)}
    BY <1>0, RangeSingle, Zenon
  <2> QED
    BY <2>1, <1>0, Zenon DEF AsAsked
<1>6. NoRequestLost' /\ NoCompletionDropped'
  BY Zenon DEF NoRequestLost, NoCompletionDropped
<1>7. SleepIsSafe'
  BY Zenon DEF SleepIsSafe, TypeInv
<1> QED
  BY <1>1, <1>2, <1>3, <1>4, <1>5, <1>6, <1>7, Zenon

LEMMA DrainEndStep ==
  ASSUME IInv, DrainPop, ~ MayPop
  PROVE  IInv'
<1> USE DEF DrainPop, MayPop, IInv, engine, clients, history
<1>1. TypeInv'
  BY Zenon DEF TypeInv, PoolRequests, PoolSqes, AfterLoop
<1>2. Locals'
  BY Zenon DEF Locals, AfterLoop
<1>3. Places' /\ KernelOnce' /\ AsAsked' /\ NoRequestLost' /\ NoCompletionDropped'
  BY NothingMoves, Zenon
<1>4. SleepIsSafe'
  BY Zenon DEF SleepIsSafe, TypeInv
<1> QED
  BY <1>1, <1>2, <1>3, <1>4, Zenon

LEMMA DrainFullStep ==
  ASSUME IInv, DrainFull
  PROVE  IInv'
<1> USE DEF DrainFull, IInv, engine, clients, history
<1>0. req[1] \in PoolRequests /\ req = <<req[1]>> /\ req[1].buffer_index \in setup.pool
  <2>1. req[1] \in PoolRequests /\ req = <<req[1]>>
    BY LengthOne, Zenon DEF TypeInv, Locals
  <2> QED
    BY <2>1, Zenon DEF PoolRequests
<1>1. TypeInv'
  BY <1>0, EmptySeq, Zenon DEF TypeInv, PoolRequests, PoolSqes, AfterLoop
<1>2. Locals'
  BY Zenon DEF Locals, AfterLoop
<1>3. Places'
  <2> SUFFICES ASSUME NEW c \in setup.pool
               PROVE  PlaceSum(c)' = 1
    BY Zenon DEF Places
  <2>1. CountTypes(c) /\ PlaceSum(c) = 1
    BY Counts, Zenon DEF Places
  <2>2. UNCHANGED <<In(c, free), In(c, held), Occurs(queue, Of(c)),
                  Occurs(sqes, Of(c)), Occurs(sq, Of(c)),
                  Cardinality(Inflight(c)), Occurs(Unwalked, {c}),
                  Occurs(out_queue, {c}), In(c, dropped)>>
    BY Zenon DEF Inflight, Unwalked
  <2>3. Occurs(req, Of(c)) = In(req[1].buffer_index, {c}) /\ Occurs(req', Of(c)) = 0
    <3>1. In(req[1], Of(c)) = In(req[1].buffer_index, {c})
      BY <1>0, RequestOf, Zenon DEF PoolEntries
    <3>2. Occurs(<<req[1]>>, Of(c)) = In(req[1], Of(c)) /\ Occurs(<<>>, Of(c)) = 0
      BY <1>0, OccursSingle, OccursEmpty, Zenon
    <3> QED
      BY <3>1, <3>2, <1>0, Zenon
  <2>4. req[1].buffer_index \notin lost
    <3> DEFINE b == req[1].buffer_index
    <3>1. Occurs(req, Of(b)) = In(req[1].buffer_index, {b})
      <4>1. In(req[1], Of(b)) = In(req[1].buffer_index, {b})
        BY <1>0, RequestOf, Zenon DEF PoolEntries
      <4>2. Occurs(<<req[1]>>, Of(b)) = In(req[1], Of(b))
        BY <1>0, OccursSingle, Zenon
      <4> QED
        BY <4>1, <4>2, <1>0, Zenon
    <3>2. Occurs(req, Of(b)) > 0
      BY <3>1, InType
    <3> QED
      BY <1>0, <3>2, Elsewhere, Zenon
  <2>5. In(c, lost)' = In(c, lost) + In(req[1].buffer_index, {c})
    BY <2>4, InAdd
  <2> HIDE DEF DrainFull, IInv
  <2>6. In(req[1].buffer_index, {c}) \in Nat
    BY InType
  <2> QED
    BY <2>1, <2>2, <2>3, <2>5, <2>6, SMTT(30) DEF CountTypes, PlaceSum
<1>4. KernelOnce'
  <2> SUFFICES ASSUME NEW c \in setup.pool
               PROVE  KernelSum(c)' <= 1
    BY Zenon DEF KernelOnce
  <2>1. CountTypes(c) /\ KernelSum(c) <= 1
    BY Counts, Zenon DEF KernelOnce
  <2>2. UNCHANGED <<Occurs(sqes, Of(c)), Occurs(sq, Of(c)), Cardinality(Inflight(c)),
                  Occurs(cq, {c})>>
    BY Zenon DEF Inflight
  <2>3. Occurs(req', Of(c)) = 0
    BY OccursEmpty, Zenon
  <2> HIDE DEF DrainFull, IInv
  <2>4. In(req[1].buffer_index, {c}) \in Nat
    BY InType
  <2> QED
    BY <2>1, <2>2, <2>3, <2>4, SMTT(30) DEF CountTypes, KernelSum
<1>5. AsAsked'
  BY DEF AsAsked, Range
<1>6. NoRequestLost' /\ NoCompletionDropped'
  <2>1. Len(req) + Len(sqes) + Len(sq) <= Cardinality(setup.pool)
    BY PendingFits, Zenon
  <2>2. Len(req) = 1 /\ Len(sqes) \in Nat /\ Len(sq) \in Nat /\ setup.entries \in Nat
        /\ Cardinality(setup.pool) \in Nat
    BY PoolFinite, LenProperties, EngineAssumption, Zenon DEF TypeInv, Locals, Setups
  <2>3. Cardinality(setup.pool) > setup.entries
    BY <2>1, <2>2
  <2> QED
    BY <2>2, <2>3 DEF NoRequestLost, NoCompletionDropped
<1>7. SleepIsSafe'
  BY Zenon DEF SleepIsSafe, TypeInv
<1> QED
  BY <1>1, <1>2, <1>3, <1>4, <1>5, <1>6, <1>7, Zenon

LEMMA DrainPrepStep ==
  ASSUME IInv, DrainPrep
  PROVE  IInv'
<1> USE DEF DrainPrep, IInv, engine, clients, history
<1> DEFINE sqe == Prep(req[1])
<1>0. /\ req[1] \in PoolRequests /\ req = <<req[1]>> /\ sqe \in PoolSqes
      /\ sqe.buffer_index = req[1].buffer_index
      /\ req[1].op = IF sqe.opcode = "READ_FIXED" THEN "kRead" ELSE "kWrite"
  <2>1. req[1] \in PoolRequests /\ req = <<req[1]>>
    BY LengthOne, Zenon DEF TypeInv, Locals
  <2> QED
    BY <2>1 DEF PoolRequests, PoolSqes, IoOp, Prep
<1>a. \A c : In(sqe, Of(c)) = In(req[1], Of(c))
  BY <1>0, RequestOf, Zenon DEF PoolEntries
<1> HIDE DEF sqe
<1>b. sqes' = Append(sqes, sqe)
  BY Zenon DEF sqe
<1>1. TypeInv'
  <2>1. sqes' \in Seq(PoolSqes) /\ submitted' \in 0 .. MaxBatch
    BY <1>0, <1>b, AppendProperties, EngineAssumption DEF TypeInv, Locals
  <2> QED
    BY <2>1, EmptySeq, Zenon DEF TypeInv, PoolRequests, PoolSqes
<1>2. Locals'
  BY Zenon DEF Locals
<1>3. Places'
  <2> SUFFICES ASSUME NEW c \in setup.pool
               PROVE  PlaceSum(c)' = 1
    BY Zenon DEF Places
  <2>1. CountTypes(c) /\ PlaceSum(c) = 1
    BY Counts, Zenon DEF Places
  <2>2. UNCHANGED <<In(c, free), In(c, held), Occurs(queue, Of(c)), Occurs(sq, Of(c)),
                  Cardinality(Inflight(c)), Occurs(Unwalked, {c}),
                  Occurs(out_queue, {c}), In(c, lost), In(c, dropped)>>
    BY Zenon DEF Inflight, Unwalked
  <2>3. Occurs(req, Of(c)) = In(req[1], Of(c)) /\ Occurs(req', Of(c)) = 0
    BY <1>0, OccursEmpty, OccursSingle, Zenon
  <2>4. Occurs(sqes', Of(c)) = Occurs(sqes, Of(c)) + In(req[1], Of(c))
    <3>1. Occurs(Append(sqes, sqe), Of(c)) = Occurs(sqes, Of(c)) + In(sqe, Of(c))
      BY <1>0, OccursAppend, Zenon DEF TypeInv
    <3> QED
      BY <3>1, <1>a, <1>b, Zenon
  <2> HIDE DEF DrainPrep, IInv
  <2>5. In(req[1], Of(c)) \in Nat
    BY InType
  <2> QED
    BY <2>1, <2>2, <2>3, <2>4, <2>5, SMTT(30) DEF CountTypes, PlaceSum
<1>4. KernelOnce'
  <2> SUFFICES ASSUME NEW c \in setup.pool
               PROVE  KernelSum(c)' <= 1
    BY Zenon DEF KernelOnce
  <2>1. CountTypes(c) /\ KernelSum(c) <= 1
    BY Counts, Zenon DEF KernelOnce
  <2>2. UNCHANGED <<Occurs(sq, Of(c)), Cardinality(Inflight(c)), Occurs(cq, {c})>>
    BY Zenon DEF Inflight
  <2>3. Occurs(req, Of(c)) = In(req[1], Of(c)) /\ Occurs(req', Of(c)) = 0
    BY <1>0, OccursEmpty, OccursSingle, Zenon
  <2>4. Occurs(sqes', Of(c)) = Occurs(sqes, Of(c)) + In(req[1], Of(c))
    <3>1. Occurs(Append(sqes, sqe), Of(c)) = Occurs(sqes, Of(c)) + In(sqe, Of(c))
      BY <1>0, OccursAppend, Zenon DEF TypeInv
    <3> QED
      BY <3>1, <1>a, <1>b, Zenon
  <2> HIDE DEF DrainPrep, IInv
  <2>5. In(req[1], Of(c)) \in Nat
    BY InType
  <2> QED
    BY <2>1, <2>2, <2>3, <2>4, <2>5, SMTT(30) DEF CountTypes, KernelSum
<1>5. AsAsked'
  <2>1. Range(sqes') = Range(sqes) \union {sqe} /\ Range(req) = {req[1]}
    BY <1>0, <1>b, RangeAppend, RangeSingle DEF TypeInv
  <2>2. Range(req') = {}
    BY DEF Range
  <2> QED
    BY <1>0, <2>1, <2>2, Zenon DEF AsAsked
<1>6. NoRequestLost' /\ NoCompletionDropped'
  BY Zenon DEF NoRequestLost, NoCompletionDropped
<1>7. SleepIsSafe'
  BY Zenon DEF SleepIsSafe, TypeInv
<1> QED
  BY <1>1, <1>2, <1>3, <1>4, <1>5, <1>6, <1>7, Zenon

LEMMA SubmitFlushStep ==
  ASSUME IInv, SubmitFlush
  PROVE  IInv'
<1> USE DEF SubmitFlush, IInv, engine, clients, history
<1>1. TypeInv'
  <2>1. sq' \in Seq(PoolSqes)
    BY ConcatProperties, Zenon DEF TypeInv
  <2> QED
    BY <2>1, EmptySeq, Zenon DEF TypeInv, PoolRequests, PoolSqes
<1>2. Locals'
  BY Zenon DEF Locals
<1>3. Places'
  <2> SUFFICES ASSUME NEW c \in setup.pool
               PROVE  PlaceSum(c)' = 1
    BY Zenon DEF Places
  <2>1. CountTypes(c) /\ PlaceSum(c) = 1
    BY Counts, Zenon DEF Places
  <2>2. UNCHANGED <<In(c, free), In(c, held), Occurs(queue, Of(c)), Occurs(req, Of(c)),
                  Cardinality(Inflight(c)), Occurs(Unwalked, {c}),
                  Occurs(out_queue, {c}), In(c, lost), In(c, dropped)>>
    BY Zenon DEF Inflight, Unwalked
  <2>3. Occurs(sq', Of(c)) = Occurs(sq, Of(c)) + Occurs(sqes, Of(c)) /\ Occurs(sqes', Of(c)) = 0
    BY OccursConcat, OccursEmpty, Zenon DEF TypeInv
  <2> HIDE DEF SubmitFlush, IInv
  <2> QED
    BY <2>1, <2>2, <2>3, SMTT(30) DEF CountTypes, PlaceSum
<1>4. KernelOnce'
  <2> SUFFICES ASSUME NEW c \in setup.pool
               PROVE  KernelSum(c)' <= 1
    BY Zenon DEF KernelOnce
  <2>1. CountTypes(c) /\ KernelSum(c) <= 1
    BY Counts, Zenon DEF KernelOnce
  <2>2. UNCHANGED <<Occurs(req, Of(c)), Cardinality(Inflight(c)), Occurs(cq, {c})>>
    BY Zenon DEF Inflight
  <2>3. Occurs(sq', Of(c)) = Occurs(sq, Of(c)) + Occurs(sqes, Of(c)) /\ Occurs(sqes', Of(c)) = 0
    BY OccursConcat, OccursEmpty, Zenon DEF TypeInv
  <2> HIDE DEF SubmitFlush, IInv
  <2> QED
    BY <2>1, <2>2, <2>3, SMTT(30) DEF CountTypes, KernelSum
<1>5. AsAsked'
  <2>1. Range(sq') = Range(sq) \union Range(sqes)
    BY RangeConcatenation DEF TypeInv
  <2>2. Range(sqes') = {}
    BY DEF Range
  <2> QED
    BY <2>1, <2>2, Zenon DEF AsAsked
<1>6. NoRequestLost' /\ NoCompletionDropped'
  BY Zenon DEF NoRequestLost, NoCompletionDropped
<1>7. SleepIsSafe'
  BY Zenon DEF SleepIsSafe, TypeInv
<1> QED
  BY <1>1, <1>2, <1>3, <1>4, <1>5, <1>6, <1>7, Zenon

LEMMA SubmitWakeStep ==
  ASSUME IInv, SubmitWake
  PROVE  IInv'
<1> USE DEF SubmitWake, IInv, engine, clients, history
<1>1. TypeInv'
  BY EngineAssumption DEF TypeInv, PoolRequests, PoolSqes
<1>2. Locals'
  BY Zenon DEF Locals
<1>3. Places' /\ KernelOnce' /\ AsAsked' /\ NoRequestLost' /\ NoCompletionDropped'
  BY NothingMoves, Zenon
<1>4. SleepIsSafe'
  BY Zenon DEF SleepIsSafe, TypeInv
<1> QED
  BY <1>1, <1>2, <1>3, <1>4, Zenon

LEMMA StartHarvestStep ==
  ASSUME IInv, StartHarvest
  PROVE  IInv'
<1> USE DEF StartHarvest, IInv, engine, clients, history
<1>1. TypeInv'
  BY Zenon DEF TypeInv, PoolRequests, PoolSqes
<1>2. Locals'
  BY Zenon DEF Locals
<1>3. Places' /\ KernelOnce' /\ AsAsked' /\ NoRequestLost' /\ NoCompletionDropped'
  BY NothingMoves, Zenon
<1>4. SleepIsSafe'
  BY Zenon DEF SleepIsSafe, TypeInv
<1> QED
  BY <1>1, <1>2, <1>3, <1>4, Zenon

LEMMA HarvestWalkStep ==
  ASSUME IInv, HarvestWalk
  PROVE  IInv'
<1> USE DEF HarvestWalk, IInv, engine, clients, history
<1>0. /\ walked \in Nat /\ walked' = walked + 1 /\ walked + 1 <= Len(cq) /\ Len(cq) \in Nat
      /\ cq[walked + 1] \in setup.pool
      /\ Unwalked # <<>> /\ Head(Unwalked) = cq[walked + 1] /\ Tail(Unwalked) = Unwalked'
  <2>1. walked \in Nat /\ walked < Len(cq) /\ cq \in Seq(setup.pool) /\ Len(cq) \in Nat
    BY LenProperties, EngineAssumption DEF TypeInv
  <2>2. cq[walked + 1] \in setup.pool
    BY <2>1, ElementOfSeq
  <2>3. Unwalked # <<>> /\ Head(Unwalked) = cq[walked + 1] /\ Tail(Unwalked) = Unwalked'
    BY <2>1, SuffixNext, Zenon DEF Unwalked
  <2> QED
    BY <2>1, <2>2, <2>3
<1>1. TypeInv'
  <2>1. walked' \in 0 .. MaxBatch
    <3>1. MaxBatch \in Nat /\ walked < MaxBatch
      BY EngineAssumption, Zenon
    <3> QED
      BY <3>1, <1>0
  <2>2. Append(out_queue, cq[walked + 1]) \in Seq(setup.pool)
    BY <1>0, AppendProperties, Zenon DEF TypeInv
  <2>3. out_queue' \in Seq(setup.pool) /\ dropped' \subseteq setup.pool
    BY <1>0, <2>2, Zenon DEF TypeInv
  <2> QED
    BY <2>1, <2>3, Zenon DEF TypeInv, PoolRequests, PoolSqes
<1>2. Locals'
  BY <1>0, Zenon DEF Locals
<1>3. Places'
  <2> SUFFICES ASSUME NEW c \in setup.pool
               PROVE  PlaceSum(c)' = 1
    BY Zenon DEF Places
  <2>1. CountTypes(c) /\ PlaceSum(c) = 1
    BY Counts, Zenon DEF Places
  <2>2. UNCHANGED <<In(c, free), In(c, held), Occurs(queue, Of(c)), Occurs(req, Of(c)),
                  Occurs(sqes, Of(c)), Occurs(sq, Of(c)),
                  Cardinality(Inflight(c)), In(c, lost)>>
    BY Zenon DEF Inflight
  <2>3. Occurs(Unwalked, {c}) = In(cq[walked + 1], {c}) + Occurs(Unwalked', {c})
    <3>1. Unwalked \in Seq(setup.pool)
      BY Counts, Zenon
    <3> QED
      BY <3>1, <1>0, OccursTail, Zenon
  <2>4. Occurs(Unwalked', {c}) \in Nat
    <3>1. Unwalked \in Seq(setup.pool)
      BY Counts, Zenon
    <3>2. Unwalked' \in Seq(setup.pool)
      BY <3>1, <1>0, HeadTailProperties, Zenon
    <3> QED
      BY <3>2, OccursType, Zenon
  <2>5. cq[walked + 1] \notin dropped
    <3>1. Unwalked \in Seq(setup.pool)
      BY Counts, Zenon
    <3>2. Occurs(Unwalked, {cq[walked + 1]}) > 0
      BY <3>1, <1>0, RangeTail, RangeMember, Zenon
    <3> QED
      BY <3>2, <1>0, Elsewhere, Zenon
  <2>6. Occurs(out_queue, {c})' + In(c, dropped)'
        = Occurs(out_queue, {c}) + In(c, dropped) + In(cq[walked + 1], {c})
    <3>1. CASE Len(out_queue) < setup.out_capacity
      <4>1. Occurs(out_queue', {c}) = Occurs(out_queue, {c}) + In(cq[walked + 1], {c})
        <5>1. out_queue \in Seq(setup.pool) /\ out_queue' = Append(out_queue, cq[walked + 1])
          BY <3>1, Zenon DEF TypeInv
        <5> QED
          BY <5>1, <1>0, OccursAppend, Zenon
      <4>2. In(c, dropped)' = In(c, dropped)
        BY <3>1, Zenon
      <4> HIDE DEF HarvestWalk, IInv
      <4>3. In(cq[walked + 1], {c}) \in Nat
        BY InType
      <4> QED
        BY <4>1, <4>2, <2>1, <4>3 DEF CountTypes
    <3>2. CASE ~ (Len(out_queue) < setup.out_capacity)
      <4>1. In(c, dropped') = In(c, dropped) + In(cq[walked + 1], {c})
        BY <3>2, <2>5, InAdd
      <4>2. Occurs(out_queue, {c})' = Occurs(out_queue, {c})
        BY <3>2, Zenon
      <4> HIDE DEF HarvestWalk, IInv
      <4>3. In(cq[walked + 1], {c}) \in Nat
        BY InType
      <4> QED
        BY <4>1, <4>2, <2>1, <4>3 DEF CountTypes
    <3> QED
      BY <3>1, <3>2, Zenon
  <2>7. Occurs(out_queue, {c})' \in Nat /\ In(c, dropped)' \in Nat
    <3>1. out_queue' \in Seq(setup.pool)
      BY <1>1, Zenon DEF TypeInv
    <3> QED
      BY <3>1, OccursType, InType
  <2> HIDE DEF HarvestWalk, IInv
  <2>8. In(cq[walked + 1], {c}) \in Nat
    BY InType
  <2> QED
    BY <2>1, <2>2, <2>3, <2>4, <2>6, <2>7, <2>8, SMTT(30) DEF CountTypes, PlaceSum
<1>4. KernelOnce'
  BY Zenon DEF KernelOnce, KernelSum, Inflight
<1>5. AsAsked'
  BY Zenon DEF AsAsked
<1>6. NoRequestLost' /\ NoCompletionDropped'
  <2>1. Len(Unwalked) + Len(out_queue) <= Cardinality(setup.pool)
    BY AnsweredFits, Zenon
  <2>2. /\ Len(Unwalked) = Len(cq) - walked /\ Len(out_queue) \in Nat
        /\ setup.out_capacity \in Nat /\ Cardinality(setup.pool) \in Nat
    BY PoolFinite, Counts, LenProperties, EngineAssumption, Zenon DEF TypeInv, Setups
  <2>3. Cardinality(setup.pool) <= setup.out_capacity => Len(out_queue) < setup.out_capacity
    BY <2>1, <2>2, <1>0
  <2> QED
    BY <2>3, Zenon DEF NoRequestLost, NoCompletionDropped
<1>7. SleepIsSafe'
  BY Zenon DEF SleepIsSafe, TypeInv
<1> QED
  BY <1>1, <1>2, <1>3, <1>4, <1>5, <1>6, <1>7, Zenon

LEMMA HarvestAdvanceStep ==
  ASSUME IInv, HarvestAdvance
  PROVE  IInv'
<1> USE DEF HarvestAdvance, IInv, engine, clients, history
<1>0. cq' = Unwalked /\ Unwalked \in Seq(setup.pool) /\ Unwalked' = Unwalked
  <2>1. cq' = Unwalked /\ Unwalked \in Seq(setup.pool)
    BY Counts, Zenon DEF Unwalked
  <2>2. SubSeq(cq', 0 + 1, Len(cq')) = cq'
    BY <2>1, SuffixFull, Zenon
  <2>3. Unwalked' = SubSeq(cq', 0 + 1, Len(cq'))
    BY Zenon DEF Unwalked
  <2> QED
    BY <2>1, <2>2, <2>3, Zenon
<1>1. TypeInv'
  <2>1. cq' \in Seq(setup.pool) /\ walked' \in 0 .. MaxBatch
    <3>1. 0 \in 0 .. MaxBatch
      BY EngineAssumption
    <3> QED
      BY <3>1, <1>0, Zenon
  <2> QED
    BY <2>1, Zenon DEF TypeInv, PoolRequests, PoolSqes
<1>2. Locals'
  <2>1. Len(cq') >= 0
    <3>1. Len(Unwalked) \in Nat
      BY <1>0, LenProperties, Zenon
    <3>2. Len(cq') = Len(Unwalked)
      BY <1>0, Zenon
    <3> HIDE DEF HarvestAdvance, IInv
    <3> QED
      BY <3>1, <3>2
  <2>2. walked' = 0 /\ epc' = "idle" /\ req' = <<>>
    BY Zenon DEF Locals
  <2> QED
    BY <2>1, <2>2, Zenon DEF Locals
<1>3. Places'
  <2> SUFFICES ASSUME NEW c \in setup.pool
               PROVE  PlaceSum(c)' = 1
    BY Zenon DEF Places
  <2>1. CountTypes(c) /\ PlaceSum(c) = 1
    BY Counts, Zenon DEF Places
  <2>2. UNCHANGED <<free, held, queue, req, sqes, sq, inflight, out_queue, lost, dropped>>
    BY Zenon
  <2>3. Occurs(Unwalked', {c}) = Occurs(Unwalked, {c})
    BY <1>0, Zenon
  <2>4. PlaceSum(c)' = PlaceSum(c)
    BY <2>2, <2>3, Zenon DEF PlaceSum, Inflight
  <2> QED
    BY <2>1, <2>4, Zenon
<1>4. KernelOnce'
  <2> SUFFICES ASSUME NEW c \in setup.pool
               PROVE  KernelSum(c)' <= 1
    BY Zenon DEF KernelOnce
  <2>1. CountTypes(c) /\ KernelSum(c) <= 1
    BY Counts, Zenon DEF KernelOnce
  <2>2. UNCHANGED <<Occurs(req, Of(c)), Occurs(sqes, Of(c)), Occurs(sq, Of(c)),
                  Cardinality(Inflight(c))>>
    BY Zenon DEF Inflight
  <2>3. Occurs(cq', {c}) = Occurs(Unwalked, {c})
    BY <1>0, Zenon
  <2>4. PlaceSum(c) = 1
    BY Zenon DEF Places
  <2> HIDE DEF HarvestAdvance, IInv
  <2> QED
    BY <2>1, <2>2, <2>3, <2>4, SMTT(30) DEF CountTypes, KernelSum, PlaceSum
<1>5. AsAsked'
  BY Zenon DEF AsAsked
<1>6. NoRequestLost' /\ NoCompletionDropped'
  BY Zenon DEF NoRequestLost, NoCompletionDropped
<1>7. SleepIsSafe'
  BY Zenon DEF SleepIsSafe, TypeInv
<1> QED
  BY <1>1, <1>2, <1>3, <1>4, <1>5, <1>6, <1>7, Zenon

-----------------------------------------------------------------------------
LEMMA NextIInv == IInv /\ [Next]_vars => IInv'
<1> SUFFICES ASSUME IInv, [Next]_vars
             PROVE  IInv'
  BY Zenon
<1>1. CASE ClientStep
  BY <1>1, AcquireStep, PushRequestStep, PopCompletionStep, ReleaseStep, Zenon DEF ClientStep
<1>2. CASE StartDrain
  BY <1>2, StartDrainStep, Zenon
<1>3. CASE StartHarvest
  BY <1>3, StartHarvestStep, Zenon
<1>4. CASE EngineStep
  <2>1. CASE DrainPop
    BY <2>1, DrainTakeStep, DrainEndStep, Zenon
  <2> QED
    BY <1>4, <2>1, DrainFullStep, DrainPrepStep, SubmitFlushStep, SubmitWakeStep,
       HarvestWalkStep, HarvestAdvanceStep, Zenon DEF EngineStep
<1>5. CASE KernelStep
  BY <1>5, PollerConsumeStep, PollerIdleStep, PollerRecheckStep, CompleteStep, Zenon DEF KernelStep
<1>6. CASE UNCHANGED vars
  <2> USE <1>6 DEF IInv, vars, engine, clients, history
  <2>1. TypeInv' /\ Locals'
    BY Zenon DEF TypeInv, Locals, PoolRequests, PoolSqes
  <2>2. Places' /\ KernelOnce' /\ AsAsked' /\ NoRequestLost' /\ NoCompletionDropped'
    BY NothingMoves, Zenon
  <2>3. SleepIsSafe'
    BY Zenon DEF SleepIsSafe
  <2> QED
    BY <2>1, <2>2, <2>3, Zenon
<1> QED
  BY <1>1, <1>2, <1>3, <1>4, <1>5, <1>6, Zenon DEF Next

(* The count of each buffer's places is an invariant of the clients, the    *)
(* engine's two functions, the kernel's thread and the device together.     *)
THEOREM Inductive == Spec => []IInv
  BY InitIInv, NextIInv, PTL DEF Spec

(* Every variable keeps to its type. *)
THEOREM Types == Spec => []TypeOK
<1>1. IInv => TypeOK
  <2> SUFFICES ASSUME IInv
               PROVE  TypeOK
    BY Zenon
  <2>1. setup.pool \subseteq Buffers /\ PoolRequests \subseteq Requests /\ PoolSqes \subseteq Sqes
    BY PoolTypes, Zenon DEF IInv
  <2>2. /\ Seq(PoolRequests) \subseteq Seq(Requests) /\ Seq(PoolSqes) \subseteq Seq(Sqes)
        /\ Seq(setup.pool) \subseteq Seq(Buffers)
    BY <2>1, SeqMonotonic, Zenon
  <2> QED
    BY <2>1, <2>2, Zenon DEF IInv, TypeInv, TypeOK
<1> QED
  BY <1>1, Inductive, PTL

(* Every buffer of the pool is in exactly one place: no double transfer and *)
(* no double delivery, whatever drain_and_submit and harvest_completions    *)
(* meet between their steps.                                                *)
THEOREM BufferInOnePlace == Spec => []OnePlace
<1>1. IInv => OnePlace
  <2> SUFFICES ASSUME IInv, NEW b \in setup.pool
               PROVE  (IF b \in free THEN 1 ELSE 0) + (IF b \in held THEN 1 ELSE 0)
                        + Cardinality({k \in DOMAIN Pending : Pending[k].buffer_index = b})
                        + Cardinality({e \in inflight : e.buffer_index = b})
                        + Cardinality({k \in DOMAIN Answered : Answered[k] = b})
                        + (IF b \in lost THEN 1 ELSE 0) + (IF b \in dropped THEN 1 ELSE 0) = 1
    BY Zenon DEF OnePlace
  <2>1. CountTypes(b) /\ PlaceSum(b) = 1
    BY Counts, Zenon DEF IInv, Places
  <2>2. Cardinality({k \in DOMAIN Pending : Pending[k].buffer_index = b})
        = Occurs(queue, Of(b)) + Occurs(req, Of(b)) + Occurs(sqes, Of(b)) + Occurs(sq, Of(b))
    <3>1. /\ queue \in Seq(PoolEntries) /\ req \in Seq(PoolEntries)
          /\ sqes \in Seq(PoolEntries) /\ sq \in Seq(PoolEntries)
      BY EntrySequences, Zenon DEF IInv
    <3>2. queue \o req \in Seq(PoolEntries) /\ queue \o req \o sqes \in Seq(PoolEntries)
      BY <3>1, ConcatProperties, Zenon
    <3>3. Pending \in Seq(PoolEntries)
      BY <3>1, <3>2, ConcatProperties, Zenon DEF Pending
    <3>4. {k \in DOMAIN Pending : Pending[k].buffer_index = b} = IndicesOf(Pending, Of(b))
      <4>1. \A k \in DOMAIN Pending : Pending[k] \in PoolEntries
        BY <3>3, ElementOfSeq, LenProperties, Zenon
      <4> QED
        BY <4>1, PoolTypes, Zenon DEF IndicesOf, Of, IInv
    <3>5. Occurs(Pending, Of(b)) = Occurs(queue \o req \o sqes, Of(b)) + Occurs(sq, Of(b))
      BY <3>1, <3>2, OccursConcat, Zenon DEF Pending
    <3>6. Occurs(queue \o req \o sqes, Of(b)) = Occurs(queue \o req, Of(b)) + Occurs(sqes, Of(b))
      BY <3>1, <3>2, OccursConcat, Zenon
    <3>7. Occurs(queue \o req, Of(b)) = Occurs(queue, Of(b)) + Occurs(req, Of(b))
      BY <3>1, OccursConcat, Zenon
    <3>8. Cardinality({k \in DOMAIN Pending : Pending[k].buffer_index = b}) = Occurs(Pending, Of(b))
      BY <3>4, Zenon DEF Occurs
    <3> QED
      BY <3>5, <3>6, <3>7, <3>8, Zenon
  <2>3. Cardinality({k \in DOMAIN Answered : Answered[k] = b})
        = Occurs(Unwalked, {b}) + Occurs(out_queue, {b})
    <3>1. Unwalked \in Seq(setup.pool) /\ out_queue \in Seq(setup.pool)
      BY Counts, Zenon DEF IInv, TypeInv
    <3>2. Answered = Unwalked \o out_queue
      BY Zenon DEF Answered, Unwalked
    <3>3. {k \in DOMAIN Answered : Answered[k] = b} = IndicesOf(Answered, {b})
      BY Zenon DEF IndicesOf
    <3>4. Occurs(Answered, {b}) = Occurs(Unwalked, {b}) + Occurs(out_queue, {b})
      BY <3>1, <3>2, OccursConcat
    <3> QED
      BY <3>3, <3>4, Zenon DEF Occurs
  <2>4. Cardinality({e \in inflight : e.buffer_index = b}) = Cardinality(Inflight(b))
    BY Zenon DEF Inflight
  <2>5. /\ In(b, free) = (IF b \in free THEN 1 ELSE 0)
        /\ In(b, held) = (IF b \in held THEN 1 ELSE 0)
        /\ In(b, lost) = (IF b \in lost THEN 1 ELSE 0)
        /\ In(b, dropped) = (IF b \in dropped THEN 1 ELSE 0)
    BY Zenon DEF In
  <2> QED
    BY <2>1, <2>2, <2>3, <2>4, <2>5, SMTT(30) DEF CountTypes, PlaceSum
<1> QED
  BY <1>1, Inductive, PTL

(* drain_and_submit's branch on req.op and all that happens to an entry     *)
(* after it: the device reads into a buffer exactly while the outstanding   *)
(* request for that buffer is a read.                                       *)
THEOREM KernelToldWhatWasAsked == Spec => []IoAsRequested
<1>1. IInv => IoAsRequested
  <2> SUFFICES ASSUME IInv
               PROVE  IoAsRequested
    BY Zenon
  <2>1. Range(sqes \o sq) = Range(sqes) \union Range(sq)
    BY RangeConcatenation DEF IInv, TypeInv
  <2> QED
    BY <2>1, Zenon DEF IInv, AsAsked, IoAsRequested
<1> QED
  BY <1>1, Inductive, PTL

(* With a submission queue as large as the pool, drain_and_submit loses no  *)
(* request it has popped.                                                   *)
THEOREM NothingLost == Spec => []NoRequestLost
<1>1. IInv => NoRequestLost
  BY Zenon DEF IInv
<1> QED
  BY <1>1, Inductive, PTL

(* With a completion ring as large as the pool, harvest_completions drops   *)
(* no completion.                                                           *)
THEOREM NothingDropped == Spec => []NoCompletionDropped
<1>1. IInv => NoCompletionDropped
  BY Zenon DEF IInv
<1> QED
  BY <1>1, Inductive, PTL

(* The completion queue never overflows with no more buffers than entries,  *)
(* though harvest_completions advances it only after its walk.              *)
THEOREM CompletionQueueFits == Spec => []CqFits
<1>1. IInv => CqFits
  <2> SUFFICES ASSUME IInv
               PROVE  CqFits
    BY Zenon
  <2>1. \A b \in setup.pool : Occurs(cq, {b}) <= 1
    <3> SUFFICES ASSUME NEW b \in setup.pool
                 PROVE  Occurs(cq, {b}) <= 1
      BY Zenon
    <3>1. CountTypes(b) /\ KernelSum(b) <= 1
      BY Counts, Zenon DEF IInv, KernelOnce
    <3> QED
      BY <3>1, SMTT(30) DEF CountTypes, KernelSum
  <2>2. cq \in Seq(setup.pool) /\ Len(cq) \in Nat
    BY LenProperties, Zenon DEF IInv, TypeInv
  <2>3. Len(cq) <= Cardinality(setup.pool)
    BY <2>1, <2>2, PoolFinite, OccursBound, Zenon DEF IInv
  <2>4. Cardinality(setup.pool) \in Nat /\ CqEntries \in Nat
    BY PoolFinite, EngineAssumption DEF IInv, TypeInv, Setups, CqEntries
  <2> QED
    BY <2>2, <2>3, <2>4 DEF CqFits
<1> QED
  BY <1>1, Inductive, PTL

(* The poller never sleeps on entries that io_uring_submit is not about to  *)
(* announce.                                                                *)
THEOREM NoWakeupMissed == Spec => []SleepIsSafe
<1>1. IInv => SleepIsSafe
  BY Zenon DEF IInv
<1> QED
  BY <1>1, Inductive, PTL

=============================================================================
