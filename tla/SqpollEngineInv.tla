-------------------------- MODULE SqpollEngineInv --------------------------
(***************************************************************************)
(* The inductive invariant of SqpollEngine.tla, for every pool, queue      *)
(* sizes and batch size.  It counts, for each buffer of the pool, the      *)
(* places it is in: Occurs counts the elements of a queue that belong to a *)
(* set.  After the lemmas on counting come the invariant, the initial      *)
(* states, which satisfy it, and what it says of the queues' lengths.      *)
(***************************************************************************)
EXTENDS SqpollEngine, SequenceTheorems, FiniteSetTheorems, TLAPS

(* The indices of elements of S in s, and how many there are. *)
IndicesOf(s, S) == {k \in DOMAIN s : s[k] \in S}
Occurs(s, S) == Cardinality(IndicesOf(s, S))

(* 1 if x is an element of S, else 0. *)
In(x, S) == IF x \in S THEN 1 ELSE 0

-----------------------------------------------------------------------------
LEMMA SizeEmpty ==
  /\ IsFiniteSet({}) /\ Cardinality({}) = 0
  /\ \A S : IsFiniteSet(S) => (Cardinality(S) = 0 <=> S = {})
  BY FS_EmptySet, Zenon

LEMMA SizeSingle == \A x : Cardinality({x}) = 1
  BY FS_Singleton, Zenon

LEMMA SizeAdd ==
  ASSUME NEW S, NEW x, IsFiniteSet(S)
  PROVE  /\ IsFiniteSet(S \union {x})
         /\ Cardinality(S \union {x}) = IF x \in S THEN Cardinality(S) ELSE Cardinality(S) + 1
  BY FS_AddElement, Zenon

LEMMA SizeRemove ==
  ASSUME NEW S, NEW x, IsFiniteSet(S)
  PROVE  /\ IsFiniteSet(S \ {x})
         /\ Cardinality(S \ {x}) = IF x \in S THEN Cardinality(S) - 1 ELSE Cardinality(S)
  BY FS_RemoveElement, Zenon

LEMMA SizeSubset ==
  ASSUME NEW S, IsFiniteSet(S), NEW T \in SUBSET S
  PROVE  IsFiniteSet(T) /\ Cardinality(T) \in Nat
  BY FS_Subset, FS_CardinalityType, Zenon

LEMMA Pigeonhole ==
  ASSUME NEW n \in Nat, NEW S, IsFiniteSet(S), NEW f \in [1 .. n -> S],
         \A j, k \in 1 .. n : f[j] = f[k] => j = k
  PROVE  n <= Cardinality(S)
<1>1. f \in Injection(1 .. n, S)
  BY Zenon DEF Injection, IsInjective
<1>2. Cardinality(1 .. n) = n
  BY FS_Interval
<1>3. Cardinality(1 .. n) <= Cardinality(S)
  BY <1>1, FS_Injection, Zenon
<1> QED
  BY <1>2, <1>3, Zenon

-----------------------------------------------------------------------------
(* Adding an element to a set and removing one. *)
LEMMA InType == \A x, S : In(x, S) \in 0 .. 1 /\ (In(x, S) = 1 <=> x \in S)
  BY DEF In

LEMMA InAdd ==
  ASSUME NEW S, NEW e, e \notin S, NEW x
  PROVE  In(x, S \union {e}) = In(x, S) + In(e, {x})
  BY DEF In

LEMMA InRemove ==
  ASSUME NEW S, NEW e \in S, NEW x
  PROVE  In(x, S \ {e}) = In(x, S) - In(e, {x})
  BY DEF In

-----------------------------------------------------------------------------
(* There are finitely many positions. *)
LEMMA OccursType ==
  ASSUME NEW T, NEW s \in Seq(T), NEW S
  PROVE  IsFiniteSet(IndicesOf(s, S)) /\ Occurs(s, S) \in Nat
<1>1. DOMAIN s = 1 .. Len(s) /\ Len(s) \in Nat
  BY LenProperties, Zenon
<1>2. IsFiniteSet(IndicesOf(s, S))
  <2>1. IsFiniteSet(1 .. Len(s))
    BY <1>1, FS_Interval
  <2>2. IndicesOf(s, S) \in SUBSET (1 .. Len(s))
    BY <1>1, Zenon DEF IndicesOf
  <2> QED
    BY <2>1, <2>2, FS_Subset, Zenon
<1> QED
  BY <1>2, FS_CardinalityType, Zenon DEF Occurs

LEMMA OccursEmpty ==
  ASSUME NEW S
  PROVE  Occurs(<<>>, S) = 0
<1>1. IndicesOf(<<>>, S) = {}
  BY DEF IndicesOf
<1> QED
  BY <1>1, FS_EmptySet, Zenon DEF Occurs

LEMMA OccursAppend ==
  ASSUME NEW T, NEW s \in Seq(T), NEW e \in T, NEW S
  PROVE  Occurs(Append(s, e), S) = Occurs(s, S) + In(e, S)
<1> DEFINE n == Len(s) + 1
<1>1. /\ Len(s) \in Nat
      /\ Append(s, e) \in Seq(T) /\ Len(Append(s, e)) = n
      /\ Append(s, e)[n] = e
      /\ \A k \in 1 .. Len(s) : Append(s, e)[k] = s[k]
  BY AppendProperties, LenProperties
<1>2. DOMAIN s = 1 .. Len(s) /\ DOMAIN Append(s, e) = 1 .. n
  BY <1>1, LenProperties, Zenon
<1>3. n \notin IndicesOf(s, S) /\ IsFiniteSet(IndicesOf(s, S)) /\ Occurs(s, S) \in Nat
  <2>1. n \notin IndicesOf(s, S)
    BY <1>1, <1>2 DEF IndicesOf
  <2> QED
    BY <2>1, OccursType, Zenon
<1>4. CASE e \in S
  <2>1. IndicesOf(Append(s, e), S) = IndicesOf(s, S) \union {n}
    BY <1>1, <1>2, <1>4 DEF IndicesOf
  <2> QED
    BY <2>1, <1>3, <1>4, FS_AddElement, Zenon DEF Occurs, In
<1>5. CASE e \notin S
  <2>1. IndicesOf(Append(s, e), S) = IndicesOf(s, S)
    BY <1>1, <1>2, <1>5 DEF IndicesOf
  <2> QED
    BY <2>1, <1>3, <1>5 DEF Occurs, In
<1> QED
  BY <1>4, <1>5, Zenon

LEMMA OccursSingle ==
  ASSUME NEW T, NEW e \in T, NEW S
  PROVE  Occurs(<<e>>, S) = In(e, S)
<1>1. DOMAIN <<e>> = {1} /\ <<e>>[1] = e
  OBVIOUS
<1>2. CASE e \in S
  <2>1. IndicesOf(<<e>>, S) = {1}
    BY <1>1, <1>2, Zenon DEF IndicesOf
  <2> QED
    BY <2>1, <1>2, FS_Singleton, Zenon DEF Occurs, In
<1>3. CASE e \notin S
  <2>1. IndicesOf(<<e>>, S) = {}
    BY <1>1, <1>3, Zenon DEF IndicesOf
  <2> QED
    BY <2>1, <1>3, FS_EmptySet, Zenon DEF Occurs, In
<1> QED
  BY <1>2, <1>3, Zenon

LEMMA LengthOne ==
  ASSUME NEW T, NEW s \in Seq(T), Len(s) = 1
  PROVE  s[1] \in T /\ s = <<s[1]>>
<1>1. s[1] \in T
  BY ElementOfSeq
<1>2. <<s[1]>> \in Seq(T) /\ Len(<<s[1]>>) = 1 /\ <<s[1]>>[1] = s[1]
  BY <1>1
<1>3. \A k \in 1 .. Len(s) : s[k] = <<s[1]>>[k]
  BY <1>2
<1> QED
  BY <1>1, <1>2, <1>3, SeqEqual, Zenon

(* The positions of t in s \o t are those in t, shifted. *)
LEMMA OccursConcat ==
  ASSUME NEW T, NEW s \in Seq(T), NEW t \in Seq(T), NEW S
  PROVE  Occurs(s \o t, S) = Occurs(s, S) + Occurs(t, S)
<1> DEFINE m == Len(s)
           Shifted == {k + m : k \in IndicesOf(t, S)}
           shift == [k \in IndicesOf(t, S) |-> k + m]
<1>1. /\ m \in Nat /\ Len(t) \in Nat
      /\ DOMAIN s = 1 .. m /\ DOMAIN t = 1 .. Len(t)
  BY LenProperties, Zenon
<1>2. /\ s \o t \in Seq(T) /\ Len(s \o t) = m + Len(t)
      /\ \A k \in 1 .. m + Len(t) : (s \o t)[k] = IF k <= m THEN s[k] ELSE t[k - m]
  BY ConcatProperties, Zenon
<1>3. DOMAIN (s \o t) = 1 .. m + Len(t)
  BY <1>2, LenProperties, Zenon
<1>4. /\ IsFiniteSet(IndicesOf(s, S)) /\ IsFiniteSet(IndicesOf(t, S))
      /\ Occurs(s, S) \in Nat /\ Occurs(t, S) \in Nat
  BY OccursType, Zenon
<1>5. IsFiniteSet(Shifted) /\ Cardinality(Shifted) = Occurs(t, S)
  <2>1. shift \in Bijection(IndicesOf(t, S), Shifted)
    BY <1>1 DEF IndicesOf, Bijection, Injection, Surjection, IsInjective
  <2> QED
    BY <2>1, <1>4, FS_Bijection, Zenon DEF ExistsBijection, Occurs
<1>6. IndicesOf(s \o t, S) = IndicesOf(s, S) \union Shifted
  <2>1. ASSUME NEW k \in IndicesOf(s \o t, S)
        PROVE  k \in IndicesOf(s, S) \union Shifted
    <3>1. CASE k <= m
      BY <3>1, <1>1, <1>2, <1>3 DEF IndicesOf
    <3>2. CASE ~ (k <= m)
      <4>1. k \in Int /\ k - m \in IndicesOf(t, S) /\ k = (k - m) + m
        BY <3>2, <1>1, <1>2, <1>3 DEF IndicesOf
      <4> QED
        BY <4>1, Zenon
    <3> QED
      BY <3>1, <3>2, Zenon
  <2>2. ASSUME NEW k \in IndicesOf(s, S)
        PROVE  k \in IndicesOf(s \o t, S)
    BY <1>1, <1>2, <1>3 DEF IndicesOf
  <2>3. ASSUME NEW k \in IndicesOf(t, S)
        PROVE  k + m \in IndicesOf(s \o t, S)
    <3>1. k \in 1 .. Len(t) /\ t[k] \in S
      BY <1>1, Zenon DEF IndicesOf
    <3>2. k + m \in 1 .. m + Len(t) /\ ~ (k + m <= m) /\ (k + m) - m = k
      BY <3>1, <1>1
    <3> QED
      BY <3>1, <3>2, <1>2, <1>3, Zenon DEF IndicesOf
  <2> QED
    BY <2>1, <2>2, <2>3, Zenon
<1>7. IndicesOf(s, S) \intersect Shifted = {}
  BY <1>1 DEF IndicesOf
<1> HIDE DEF Shifted
<1>8. Cardinality(IndicesOf(s, S) \union Shifted)
      = Cardinality(IndicesOf(s, S)) + Cardinality(Shifted) - Cardinality({})
  BY <1>4, <1>5, <1>7, FS_Union
<1> QED
  BY <1>4, <1>5, <1>6, <1>8, FS_EmptySet DEF Occurs

LEMMA OccursTail ==
  ASSUME NEW T, NEW s \in Seq(T), s # <<>>, NEW S
  PROVE  Occurs(s, S) = In(Head(s), S) + Occurs(Tail(s), S)
<1>1. Head(s) \in T /\ Tail(s) \in Seq(T) /\ <<Head(s)>> \in Seq(T)
  BY HeadTailProperties
<1>2. s = <<Head(s)>> \o Tail(s)
  <2>1. 1 \in 1 .. Len(s) /\ Len(s) \in 1 .. Len(s)
    BY EmptySeq
  <2>2. SubSeq(s, 1, Len(s)) = <<s[1]>> \o SubSeq(s, 1 + 1, Len(s))
    BY <2>1, SubSeqRecursiveFirst, Zenon
  <2>3. SubSeq(s, 1, Len(s)) = s /\ Tail(s) = SubSeq(s, 2, Len(s))
    BY SubSeqFull, TailIsSubSeq, Zenon
  <2> QED
    BY <2>2, <2>3
<1>3. Occurs(<<Head(s)>> \o Tail(s), S) = Occurs(<<Head(s)>>, S) + Occurs(Tail(s), S)
  BY <1>1, OccursConcat, Zenon
<1>4. Occurs(<<Head(s)>>, S) = In(Head(s), S)
  BY <1>1, OccursSingle, Zenon
<1> QED
  BY <1>2, <1>3, <1>4, Zenon

-----------------------------------------------------------------------------
(* An element that is counted occurs, and an element counted at most once   *)
(* has one position.                                                        *)
LEMMA OccursMember ==
  ASSUME NEW T, NEW s \in Seq(T), NEW S, NEW k \in 1 .. Len(s), s[k] \in S
  PROVE  Occurs(s, S) > 0
<1>1. k \in IndicesOf(s, S)
  BY LenProperties, Zenon DEF IndicesOf
<1>2. Occurs(s, S) # 0
  BY <1>1, OccursType, FS_EmptySet, Zenon DEF Occurs
<1> QED
  BY <1>2, OccursType

LEMMA OccursOnce ==
  ASSUME NEW T, NEW s \in Seq(T), NEW S, Occurs(s, S) <= 1,
         NEW j \in 1 .. Len(s), NEW k \in 1 .. Len(s), s[j] \in S, s[k] \in S
  PROVE  j = k
<1>1. {j, k} \in SUBSET IndicesOf(s, S)
  BY LenProperties, Zenon DEF IndicesOf
<1>2. Cardinality({j, k}) <= Occurs(s, S) /\ IsFiniteSet({j, k})
  BY <1>1, OccursType, FS_Subset, Zenon DEF Occurs
<1>3. ASSUME j # k
      PROVE  Cardinality({j, k}) = 2
  <2>1. IsFiniteSet({j}) /\ Cardinality({j}) = 1
    BY FS_Singleton, Zenon
  <2>2. k \notin {j}
    BY <1>3, Zenon
  <2>3. Cardinality({j} \union {k}) = Cardinality({j}) + 1
    BY <2>1, <2>2, FS_AddElement, Zenon
  <2>4. {j, k} = {j} \union {k}
    BY Zenon
  <2>5. Cardinality({j}) + 1 = 2
    BY <2>1
  <2> QED
    BY <2>3, <2>4, <2>5, Zenon
<1> QED
  BY <1>2, <1>3, OccursType

(* A sequence in which every element of a finite set occurs at most once is *)
(* no longer than that set is large.                                        *)
LEMMA OccursBound ==
  ASSUME NEW T, IsFiniteSet(T), NEW s \in Seq(T), \A x \in T : Occurs(s, {x}) <= 1
  PROVE  Len(s) <= Cardinality(T)
<1>1. Len(s) \in Nat /\ s \in [1 .. Len(s) -> T] /\ DOMAIN s = 1 .. Len(s)
  BY LenProperties, Zenon
<1>2. ASSUME NEW j \in 1 .. Len(s), NEW k \in 1 .. Len(s), s[j] = s[k]
      PROVE  j = k
  <2>1. s[j] \in T /\ s[j] \in {s[j]} /\ s[k] \in {s[j]}
    BY <1>1, <1>2, Zenon
  <2> QED
    BY <2>1, OccursOnce, Zenon
<1>3. s \in Injection(1 .. Len(s), T)
  BY <1>1, <1>2, Zenon DEF Injection, IsInjective
<1>4. Cardinality(1 .. Len(s)) = Len(s)
  <2>1. Cardinality(1 .. Len(s)) = IF 1 > Len(s) THEN 0 ELSE Len(s) - 1 + 1
    BY <1>1, FS_Interval
  <2> QED
    BY <2>1, <1>1
<1>5. Cardinality(1 .. Len(s)) <= Cardinality(T)
  BY <1>3, FS_Injection, Zenon
<1> QED
  BY <1>4, <1>5, Zenon

-----------------------------------------------------------------------------
(* The elements of a sequence, as it grows and shrinks. *)
LEMMA RangeAppend ==
  ASSUME NEW T, NEW s \in Seq(T), NEW e \in T
  PROVE  Range(Append(s, e)) = Range(s) \union {e}
<1>1. /\ Append(s, e) \in Seq(T) /\ Len(s) \in Nat /\ Len(Append(s, e)) = Len(s) + 1
      /\ \A k \in 1 .. Len(s) : Append(s, e)[k] = s[k]
      /\ Append(s, e)[Len(s) + 1] = e
  BY AppendProperties, LenProperties
<1>2. /\ Range(s) = {s[k] : k \in 1 .. Len(s)}
      /\ Range(Append(s, e)) = {Append(s, e)[k] : k \in 1 .. Len(s) + 1}
  BY <1>1, RangeEquality, Zenon
<1> QED
  BY <1>1, <1>2

LEMMA RangeSingle == \A e : Range(<<e>>) = {e}
<1> SUFFICES ASSUME NEW e
             PROVE  Range(<<e>>) = {e}
  BY Zenon
<1>1. DOMAIN <<e>> = {1} /\ <<e>>[1] = e
  OBVIOUS
<1> QED
  BY <1>1, Zenon DEF Range

LEMMA RangeTail ==
  ASSUME NEW T, NEW s \in Seq(T), s # <<>>
  PROVE  Head(s) \in Range(s) /\ Range(Tail(s)) \subseteq Range(s)
<1>1. /\ Tail(s) \in Seq(T) /\ Len(s) \in Nat \ {0} /\ Len(Tail(s)) = Len(s) - 1
      /\ \A k \in 1 .. Len(s) - 1 : Tail(s)[k] = s[k + 1]
  BY HeadTailProperties, EmptySeq, Zenon
<1>2. /\ Range(s) = {s[k] : k \in 1 .. Len(s)}
      /\ Range(Tail(s)) = {Tail(s)[k] : k \in 1 .. Len(s) - 1}
  BY <1>1, RangeEquality, Zenon
<1>3. Head(s) = s[1]
  OBVIOUS
<1> QED
  BY <1>1, <1>2, <1>3

LEMMA RangeMember ==
  ASSUME NEW T, NEW s \in Seq(T), NEW S, NEW e \in Range(s), e \in S
  PROVE  Occurs(s, S) > 0
<1>1. PICK k \in 1 .. Len(s) : s[k] = e
  BY RangeEquality, Zenon
<1> QED
  BY <1>1, OccursMember, Zenon

-----------------------------------------------------------------------------
(* What is left of a sequence after its first n elements: how it changes as *)
(* n or the sequence grows.                                                 *)
LEMMA Suffix ==
  ASSUME NEW T, NEW s \in Seq(T), NEW n \in Nat, n <= Len(s)
  PROVE  /\ SubSeq(s, n + 1, Len(s)) \in Seq(T)
         /\ Len(SubSeq(s, n + 1, Len(s))) = Len(s) - n
         /\ \A k \in 1 .. Len(s) - n : SubSeq(s, n + 1, Len(s))[k] = s[n + k]
  OBVIOUS

LEMMA SuffixFull ==
  ASSUME NEW T, NEW s \in Seq(T)
  PROVE  SubSeq(s, 0 + 1, Len(s)) = s
  BY SubSeqFull

LEMMA SuffixNext ==
  ASSUME NEW T, NEW s \in Seq(T), NEW n \in Nat, n < Len(s)
  PROVE  /\ SubSeq(s, n + 1, Len(s)) # <<>>
         /\ Head(SubSeq(s, n + 1, Len(s))) = s[n + 1]
         /\ Tail(SubSeq(s, n + 1, Len(s))) = SubSeq(s, n + 1 + 1, Len(s))
<1>1. Len(s) \in Nat
  BY LenProperties, Zenon
<1>2. n + 1 \in 1 .. Len(s) /\ Len(s) \in n + 1 .. Len(s)
  BY <1>1
<1>3. Len(SubSeq(s, n + 1, Len(s))) # 0
  BY <1>1, Suffix
<1> QED
  BY <1>2, <1>3, EmptySeq, HeadTailOfSubSeq, Zenon

LEMMA SuffixAppend ==
  ASSUME NEW T, NEW s \in Seq(T), NEW e \in T, NEW n \in Nat, n <= Len(s)
  PROVE  SubSeq(Append(s, e), n + 1, Len(Append(s, e)))
         = Append(SubSeq(s, n + 1, Len(s)), e)
<1> DEFINE t == Append(s, e)
           l == SubSeq(t, n + 1, Len(t))
           u == SubSeq(s, n + 1, Len(s))
           r == Append(u, e)
<1>1. /\ Len(s) \in Nat /\ t \in Seq(T) /\ Len(t) = Len(s) + 1
      /\ \A k \in 1 .. Len(s) : t[k] = s[k]
      /\ t[Len(s) + 1] = e
  BY AppendProperties, LenProperties
<1>2. /\ u \in Seq(T) /\ Len(u) = Len(s) - n
      /\ \A k \in 1 .. Len(s) - n : u[k] = s[n + k]
  BY Suffix, Zenon
<1> HIDE DEF t
<1>3. /\ l \in Seq(T) /\ Len(l) = Len(t) - n
      /\ \A k \in 1 .. Len(t) - n : l[k] = t[n + k]
  BY <1>1, Suffix
<1> HIDE DEF u
<1>4. /\ r \in Seq(T) /\ Len(r) = Len(u) + 1
      /\ \A k \in 1 .. Len(u) : r[k] = u[k]
      /\ r[Len(u) + 1] = e
  BY <1>2, AppendProperties
<1> HIDE DEF l, r
<1>5. ASSUME NEW k \in 1 .. Len(l)
      PROVE  l[k] = r[k]
  <2>1. k \in Nat \ {0} /\ k <= Len(s) - n + 1 /\ l[k] = t[n + k]
    BY <1>1, <1>3
  <2>2. CASE k = Len(s) - n + 1
    <3>1. k = Len(u) + 1 /\ n + k = Len(s) + 1
      BY <2>2, <1>1, <1>2
    <3> QED
      BY <3>1, <2>1, <1>1, <1>4, Zenon
  <2>3. CASE k # Len(s) - n + 1
    <3>1. k \in 1 .. Len(u) /\ n + k \in 1 .. Len(s) /\ k \in 1 .. Len(s) - n
      BY <2>1, <2>3, <1>1, <1>2
    <3>2. t[n + k] = s[n + k]
      BY <3>1, <1>1, Zenon
    <3>3. u[k] = s[n + k] /\ r[k] = u[k]
      BY <3>1, <1>2, <1>4, Zenon
    <3> QED
      BY <3>2, <3>3, <2>1, Zenon
  <2> QED
    BY <2>2, <2>3, Zenon
<1>6. l = r
  BY <1>1, <1>2, <1>3, <1>4, <1>5, SeqEqual
<1> QED
  BY <1>6, Zenon DEF l, r, t, u

-----------------------------------------------------------------------------
(* The requests and entries for a buffer, all those for the pool's buffers, *)
(* and the completions that the current harvest has yet to walk over.       *)
Of(b) == {e \in Requests \union Sqes : e.buffer_index = b}
PoolRequests == [op : IoOp, buffer_index : setup.pool]
PoolSqes == [opcode : {"READ_FIXED", "WRITE_FIXED"}, buffer_index : setup.pool]
PoolEntries == PoolRequests \union PoolSqes
Unwalked == SubSeq(cq, walked + 1, Len(cq))
Inflight(b) == {e \in inflight : e.buffer_index = b}

(* TypeOK, with the pool's buffers for all buffers. *)
TypeInv ==
  /\ setup \in Setups
  /\ free \subseteq setup.pool /\ held \subseteq setup.pool
  /\ lost \subseteq setup.pool /\ dropped \subseteq setup.pool
  /\ asked \in [Buffers -> IoOp \union {"none"}]
  /\ epc \in {"idle", "drain", "get_sqe", "flush", "wake", "harvest"}
  /\ submitted \in 0 .. MaxBatch
  /\ walked \in 0 .. MaxBatch
  /\ poller \in {"polling", "flagged", "asleep"}
  /\ queue \in Seq(PoolRequests) /\ req \in Seq(PoolRequests)
  /\ sqes \in Seq(PoolSqes) /\ sq \in Seq(PoolSqes)
  /\ inflight \subseteq PoolSqes /\ IsFiniteSet(inflight)
  /\ cq \in Seq(setup.pool) /\ out_queue \in Seq(setup.pool)

(* The engine's locals at each point of its two loops. *)
Locals ==
  /\ epc = "get_sqe" => Len(req) = 1 /\ submitted < MaxBatch
  /\ epc # "get_sqe" => req = <<>>
  /\ epc # "harvest" => walked = 0
  /\ walked <= Len(cq)

(* Where a buffer is: with the clients, on its way to the device, with it,  *)
(* on its way back, or gone.  OnePlace, term by term.                       *)
PlaceSum(b) ==
  In(b, free) + In(b, held)
    + Occurs(queue, Of(b)) + Occurs(req, Of(b)) + Occurs(sqes, Of(b)) + Occurs(sq, Of(b))
    + Cardinality(Inflight(b))
    + Occurs(Unwalked, {b}) + Occurs(out_queue, {b})
    + In(b, lost) + In(b, dropped)
Places == \A b \in setup.pool : PlaceSum(b) = 1

(* A completion that was walked over stays in the completion queue until    *)
(* the harvest ends, and its buffer may be back in the request ring by      *)
(* then.  It does not get past that: one thread harvests and drains.        *)
KernelSum(b) ==
  Occurs(req, Of(b)) + Occurs(sqes, Of(b)) + Occurs(sq, Of(b))
    + Cardinality(Inflight(b)) + Occurs(cq, {b})
KernelOnce == \A b \in setup.pool : KernelSum(b) <= 1

(* IoAsRequested, from the moment the request is pushed. *)
AsAsked ==
  /\ \A r \in Range(queue) \union Range(req) : r.op = asked[r.buffer_index]
  /\ \A e \in Range(sqes) \union Range(sq) \union inflight :
       asked[e.buffer_index] = IF e.opcode = "READ_FIXED" THEN "kRead" ELSE "kWrite"

IInv ==
  /\ TypeInv
  /\ Locals
  /\ Places
  /\ KernelOnce
  /\ AsAsked
  /\ NoRequestLost
  /\ NoCompletionDropped
  /\ SleepIsSafe

-----------------------------------------------------------------------------
(* The counts of the invariant are natural numbers. *)
CountTypes(b) ==
  /\ In(b, free) \in Nat /\ In(b, held) \in Nat
  /\ In(b, lost) \in Nat /\ In(b, dropped) \in Nat
  /\ Occurs(queue, Of(b)) \in Nat /\ Occurs(req, Of(b)) \in Nat
  /\ Occurs(sqes, Of(b)) \in Nat /\ Occurs(sq, Of(b)) \in Nat
  /\ IsFiniteSet(Inflight(b)) /\ Cardinality(Inflight(b)) \in Nat
  /\ Occurs(Unwalked, {b}) \in Nat /\ Occurs(out_queue, {b}) \in Nat
  /\ Occurs(cq, {b}) \in Nat

LEMMA Counts ==
  ASSUME TypeInv, Locals, NEW b
  PROVE  /\ Unwalked \in Seq(setup.pool) /\ Len(Unwalked) = Len(cq) - walked
         /\ CountTypes(b)
<1>1. /\ Occurs(queue, Of(b)) \in Nat /\ Occurs(req, Of(b)) \in Nat
      /\ Occurs(sqes, Of(b)) \in Nat /\ Occurs(sq, Of(b)) \in Nat
      /\ Occurs(out_queue, {b}) \in Nat /\ Occurs(cq, {b}) \in Nat
  BY OccursType, Zenon DEF TypeInv
<1>2. IsFiniteSet(Inflight(b)) /\ Cardinality(Inflight(b)) \in Nat
  <2>1. Inflight(b) \in SUBSET inflight /\ IsFiniteSet(inflight)
    BY Zenon DEF Inflight, TypeInv
  <2> QED
    BY <2>1, SizeSubset, Zenon
<1>3. Unwalked \in Seq(setup.pool) /\ Len(Unwalked) = Len(cq) - walked
  <2>1. walked \in Nat /\ walked <= Len(cq) /\ cq \in Seq(setup.pool)
    BY EngineAssumption DEF TypeInv, Locals
  <2> QED
    BY <2>1, Suffix, Zenon DEF Unwalked
<1>4. Occurs(Unwalked, {b}) \in Nat
  BY <1>3, OccursType, Zenon
<1> QED
  BY <1>1, <1>2, <1>3, <1>4, InType DEF CountTypes

(* The requests and entries of the pool are for its buffers. *)
LEMMA PoolTypes ==
  ASSUME TypeInv
  PROVE  /\ setup.pool \subseteq Buffers
         /\ PoolRequests \subseteq Requests /\ PoolSqes \subseteq Sqes
         /\ \A e \in PoolEntries : e.buffer_index \in setup.pool /\ e \in Of(e.buffer_index)
<1>1. setup.pool \subseteq Buffers
  BY Zenon DEF TypeInv, Setups, Buffers
<1>2. PoolRequests \subseteq Requests /\ PoolSqes \subseteq Sqes
  BY <1>1 DEF PoolRequests, PoolSqes, Requests, Sqes
<1>3. \A e \in PoolEntries : e.buffer_index \in setup.pool
  BY DEF PoolEntries, PoolRequests, PoolSqes
<1> QED
  BY <1>1, <1>2, <1>3, Zenon DEF Of, PoolEntries

(* A request or entry is for its buffer and no other. *)
LEMMA RequestOf ==
  ASSUME TypeInv, NEW e \in PoolEntries, NEW b
  PROVE  In(e, Of(b)) = In(e.buffer_index, {b})
  BY PoolTypes, Zenon DEF Of, In

LEMMA InitIInv == Init => IInv
<1> SUFFICES ASSUME Init
             PROVE  IInv
  BY Zenon
<1>1. setup \in Setups /\ setup.pool \subseteq Buffers
  BY Zenon DEF Init, Setups, Buffers
<1>2. TypeInv
  BY <1>1, EmptySeq, SizeEmpty, EngineAssumption DEF Init, TypeInv
<1>3. Locals
  BY EmptySeq DEF Init, Locals
<1>4. Places /\ KernelOnce
  <2> SUFFICES ASSUME NEW b \in setup.pool
               PROVE  PlaceSum(b) = 1 /\ KernelSum(b) <= 1
    BY Zenon DEF Places, KernelOnce
  <2>1. /\ Occurs(<<>>, Of(b)) = 0 /\ Occurs(<<>>, {b}) = 0
        /\ Inflight(b) = {} /\ Cardinality({}) = 0
    BY OccursEmpty, SizeEmpty, Zenon DEF Init, Inflight
  <2>2. Unwalked = <<>>
    <3>1. Unwalked \in Seq(setup.pool) /\ Len(Unwalked) = Len(<<>>) - 0
      BY <1>2, <1>3, Counts, Zenon DEF Init
    <3> QED
      BY <3>1, EmptySeq
  <2> QED
    BY <2>1, <2>2 DEF Init, PlaceSum, KernelSum, In
<1>5. AsAsked
  BY DEF Init, AsAsked, Range
<1> QED
  BY <1>2, <1>3, <1>4, <1>5, Zenon DEF IInv, Init, NoRequestLost, NoCompletionDropped, SleepIsSafe

-----------------------------------------------------------------------------
(* What the device works on, per buffer, as entries come and go. *)
LEMMA InflightAdd ==
  ASSUME TypeInv, Locals, NEW e \in PoolSqes, e \notin inflight, NEW b
  PROVE  Cardinality({x \in inflight \union {e} : x.buffer_index = b})
         = Cardinality(Inflight(b)) + In(e.buffer_index, {b})
<1> DEFINE new == {x \in inflight \union {e} : x.buffer_index = b}
<1>1. IsFiniteSet(Inflight(b)) /\ Cardinality(Inflight(b)) \in Nat
  BY Counts, Zenon DEF CountTypes
<1>2. CASE e.buffer_index = b
  <2>1. new = Inflight(b) \union {e} /\ e \notin Inflight(b)
    BY <1>2, Zenon DEF Inflight
  <2> HIDE DEF new
  <2>2. Cardinality(new) = Cardinality(Inflight(b)) + 1
    BY <2>1, <1>1, SizeAdd, Zenon
  <2> QED
    BY <2>2, <1>2, Zenon DEF In, new
<1>3. CASE e.buffer_index # b
  <2>1. new = Inflight(b) /\ In(e.buffer_index, {b}) = 0
    BY <1>3, Zenon DEF Inflight, In
  <2> HIDE DEF new
  <2>2. Cardinality(new) = Cardinality(Inflight(b))
    BY <2>1, Zenon
  <2> QED
    BY <2>1, <2>2, <1>1 DEF new
<1> QED
  BY <1>2, <1>3, Zenon

LEMMA InflightRemove ==
  ASSUME TypeInv, Locals, NEW e \in inflight, NEW b
  PROVE  Cardinality({x \in inflight \ {e} : x.buffer_index = b})
         = Cardinality(Inflight(b)) - In(e.buffer_index, {b})
<1> DEFINE new == {x \in inflight \ {e} : x.buffer_index = b}
<1>1. IsFiniteSet(Inflight(b)) /\ Cardinality(Inflight(b)) \in Nat
  BY Counts, Zenon DEF CountTypes
<1>2. CASE e.buffer_index = b
  <2>1. new = Inflight(b) \ {e} /\ e \in Inflight(b)
    BY <1>2, Zenon DEF Inflight
  <2> HIDE DEF new
  <2>2. Cardinality(new) = Cardinality(Inflight(b)) - 1
    BY <2>1, <1>1, SizeRemove, Zenon
  <2> QED
    BY <2>2, <1>2, Zenon DEF In, new
<1>3. CASE e.buffer_index # b
  <2>1. new = Inflight(b) /\ In(e.buffer_index, {b}) = 0
    BY <1>3 DEF Inflight, In
  <2> HIDE DEF new
  <2>2. Cardinality(new) = Cardinality(Inflight(b))
    BY <2>1, Zenon
  <2> QED
    BY <2>1, <2>2, <1>1 DEF new
<1> QED
  BY <1>2, <1>3, Zenon

LEMMA InflightMember ==
  ASSUME TypeInv, Locals, NEW e \in inflight
  PROVE  Cardinality(Inflight(e.buffer_index)) > 0
<1>1. e \in Inflight(e.buffer_index)
  BY Zenon DEF Inflight
<1>2. Cardinality(Inflight(e.buffer_index)) # 0
  BY <1>1, Counts, SizeEmpty, Zenon DEF CountTypes
<1>3. Cardinality(Inflight(e.buffer_index)) \in Nat
  BY Counts, Zenon DEF CountTypes
<1> QED
  BY <1>2, <1>3

-----------------------------------------------------------------------------
(* A buffer named by a request that was pushed and not answered is neither  *)
(* with a client nor in the completion ring.                                *)
LEMMA OnTheWay ==
  ASSUME IInv,
         NEW e \in Range(queue) \union Range(req) \union Range(sqes) \union Range(sq)
                    \union inflight
  PROVE  /\ e.buffer_index \in setup.pool /\ e.buffer_index \notin held
         /\ Occurs(out_queue, {e.buffer_index}) = 0
<1> DEFINE b == e.buffer_index
<1>1. e \in PoolEntries
  BY RangeOfSeq, Zenon DEF IInv, TypeInv, PoolEntries
<1>2. b \in setup.pool /\ e \in Of(b)
  BY <1>1, PoolTypes, Zenon DEF IInv
<1>3. \/ Occurs(queue, Of(b)) > 0 \/ Occurs(req, Of(b)) > 0
      \/ Occurs(sqes, Of(b)) > 0 \/ Occurs(sq, Of(b)) > 0
      \/ Cardinality(Inflight(b)) > 0
  BY <1>2, RangeMember, InflightMember, Zenon DEF IInv, TypeInv
<1>4. CountTypes(b) /\ PlaceSum(b) = 1
  BY <1>2, Counts, Zenon DEF IInv, Places
<1> HIDE DEF b
<1>5. In(b, held) = 0 /\ Occurs(out_queue, {b}) = 0
  <2> DEFINE q == Occurs(queue, Of(b))
             r == Occurs(req, Of(b))
             x == Occurs(sqes, Of(b))
             y == Occurs(sq, Of(b))
             z == Cardinality(Inflight(b))
             h == In(b, held)
             o == Occurs(out_queue, {b})
             rest == In(b, free) + Occurs(Unwalked, {b}) + In(b, lost) + In(b, dropped)
  <2>1. /\ q \in Nat /\ r \in Nat /\ x \in Nat /\ y \in Nat /\ z \in Nat
        /\ h \in Nat /\ o \in Nat
    BY <1>4, Zenon DEF CountTypes
  <2>2. rest \in Nat /\ q + r + x + y + z + h + o + rest = 1
    BY <1>4 DEF CountTypes, PlaceSum
  <2>3. q > 0 \/ r > 0 \/ x > 0 \/ y > 0 \/ z > 0
    BY <1>3, Zenon
  <2> HIDE DEF q, r, x, y, z, h, o, rest
  <2>4. h = 0 /\ o = 0
    BY <2>1, <2>2, <2>3
  <2> QED
    BY <2>4, Zenon DEF h, o
<1>6. b \notin held
  BY <1>5, InType
<1> QED
  BY <1>2, <1>5, <1>6, Zenon DEF b

(* A request that waits in the ring is for a buffer the kernel does not     *)
(* have, unless a harvest is between a completion and its advance.          *)
LEMMA KernelFromPlaces ==
  ASSUME TypeInv, Locals, Places, walked = 0, NEW b \in setup.pool
  PROVE  KernelSum(b) \in Nat /\ KernelSum(b) + Occurs(queue, Of(b)) <= 1
<1>1. CountTypes(b) /\ PlaceSum(b) = 1
  BY Counts, Zenon DEF Places
<1>2. Occurs(Unwalked, {b}) = Occurs(cq, {b})
  BY SuffixFull, Zenon DEF Unwalked, TypeInv
<1> QED
  BY <1>1, <1>2, SMTT(30) DEF CountTypes, PlaceSum, KernelSum

(* A buffer that is in one place is in no other. *)
LEMMA Elsewhere ==
  ASSUME TypeInv, Locals, Places, NEW b \in setup.pool
  PROVE  /\ b \in free => b \notin held
         /\ Occurs(out_queue, {b}) > 0 => b \notin held
         /\ Occurs(req, Of(b)) > 0 => b \notin lost
         /\ Occurs(Unwalked, {b}) > 0 => b \notin dropped
<1> DEFINE f == In(b, free)
           h == In(b, held)
           o == Occurs(out_queue, {b})
           r == Occurs(req, Of(b))
           l == In(b, lost)
           u == Occurs(Unwalked, {b})
           d == In(b, dropped)
           rest == Occurs(queue, Of(b)) + Occurs(sqes, Of(b)) + Occurs(sq, Of(b))
                     + Cardinality(Inflight(b))
<1>0. CountTypes(b)
  BY Counts, Zenon
<1>1. /\ f \in Nat /\ h \in Nat /\ o \in Nat /\ r \in Nat /\ l \in Nat /\ u \in Nat
      /\ d \in Nat /\ rest \in Nat
  BY <1>0 DEF CountTypes
<1>2. f + h + r + rest + u + o + l + d = 1
  <2>1. PlaceSum(b) = 1
    BY Zenon DEF Places
  <2> QED
    BY <1>0, <2>1 DEF CountTypes, PlaceSum
<1>3. /\ f = 1 <=> b \in free
      /\ h = 1 <=> b \in held
      /\ l = 1 <=> b \in lost
      /\ d = 1 <=> b \in dropped
  BY InType, Zenon
<1> HIDE DEF f, h, o, r, l, u, d, rest
<1>4. f + h <= 1 /\ o + h <= 1 /\ r + l <= 1 /\ u + d <= 1
  BY <1>1, <1>2
<1>5. f = 1 => h # 1
  BY <1>1, <1>4
<1>6. (o > 0 => h # 1) /\ (r > 0 => l # 1) /\ (u > 0 => d # 1)
  BY <1>1, <1>4
<1> QED
  BY <1>3, <1>5, <1>6, Zenon DEF f, h, o, r, l, u, d

(* Sequences that name each buffer of the pool at most once are no longer   *)
(* than the pool is large.                                                  *)
LEMMA PoolFinite ==
  ASSUME TypeInv
  PROVE  IsFiniteSet(setup.pool) /\ Cardinality(setup.pool) \in Nat
<1>1. IsFiniteSet(Buffers) /\ setup.pool \in SUBSET Buffers
  BY EngineAssumption, PoolTypes, Zenon
<1> QED
  BY <1>1, SizeSubset, Zenon

LEMMA EntrySequences ==
  ASSUME TypeInv
  PROVE  /\ queue \in Seq(PoolEntries) /\ req \in Seq(PoolEntries)
         /\ sqes \in Seq(PoolEntries) /\ sq \in Seq(PoolEntries)
<1>1. Seq(PoolRequests) \subseteq Seq(PoolEntries) /\ Seq(PoolSqes) \subseteq Seq(PoolEntries)
  BY SeqMonotonic, Zenon DEF PoolEntries
<1> QED
  BY <1>1, Zenon DEF TypeInv

LEMMA PendingFits ==
  ASSUME TypeInv, Locals, Places
  PROVE  Len(req) + Len(sqes) + Len(sq) <= Cardinality(setup.pool)
<1> DEFINE s == req \o (sqes \o sq)
           f == [k \in 1 .. Len(s) |-> s[k].buffer_index]
<1>1. /\ s \in Seq(PoolEntries) /\ Len(s) \in Nat
      /\ Len(s) = Len(req) + Len(sqes) + Len(sq)
  <2>1. /\ sqes \o sq \in Seq(PoolEntries) /\ req \in Seq(PoolEntries)
        /\ Len(sqes \o sq) = Len(sqes) + Len(sq)
        /\ Len(req) \in Nat /\ Len(sqes) \in Nat /\ Len(sq) \in Nat
    BY EntrySequences, ConcatProperties, LenProperties, Zenon
  <2>2. s \in Seq(PoolEntries) /\ Len(s) = Len(req) + Len(sqes \o sq)
    BY <2>1, ConcatProperties, Zenon
  <2> QED
    BY <2>1, <2>2
<1>2. ASSUME NEW b \in setup.pool
      PROVE  Occurs(s, Of(b)) <= 1
  <2>1. Occurs(sqes \o sq, Of(b)) = Occurs(sqes, Of(b)) + Occurs(sq, Of(b))
    BY EntrySequences, OccursConcat, Zenon
  <2>2. Occurs(s, Of(b)) = Occurs(req, Of(b)) + Occurs(sqes \o sq, Of(b))
    <3>1. req \in Seq(PoolEntries) /\ sqes \o sq \in Seq(PoolEntries)
      BY EntrySequences, ConcatProperties, Zenon
    <3> QED
      BY <3>1, OccursConcat, Zenon
  <2>3. CountTypes(b) /\ PlaceSum(b) = 1
    BY Counts, Zenon DEF Places
  <2> HIDE DEF s
  <2> QED
    BY <2>1, <2>2, <2>3, SMTT(30) DEF CountTypes, PlaceSum
<1> HIDE DEF s
<1>3. \A k \in 1 .. Len(s) : s[k].buffer_index \in setup.pool /\ s[k] \in Of(s[k].buffer_index)
  <2>1. \A k \in 1 .. Len(s) : s[k] \in PoolEntries
    BY <1>1, ElementOfSeq, Zenon
  <2> QED
    BY <2>1, PoolTypes, Zenon
<1>4. ASSUME NEW j \in 1 .. Len(s), NEW k \in 1 .. Len(s),
             s[j].buffer_index = s[k].buffer_index
      PROVE  j = k
  <2>1. /\ s[j] \in Of(s[j].buffer_index) /\ s[k] \in Of(s[j].buffer_index)
        /\ Occurs(s, Of(s[j].buffer_index)) <= 1
    BY <1>2, <1>3, <1>4, Zenon
  <2> QED
    BY <2>1, <1>1, OccursOnce, Zenon
<1>5. f \in [1 .. Len(s) -> setup.pool] /\ \A j, k \in 1 .. Len(s) : f[j] = f[k] => j = k
  BY <1>3, <1>4, Zenon
<1> HIDE DEF f
<1>6. Len(s) <= Cardinality(setup.pool)
  BY <1>1, <1>5, PoolFinite, Pigeonhole, Zenon
<1> QED
  BY <1>1, <1>6, Zenon

LEMMA AnsweredFits ==
  ASSUME TypeInv, Locals, Places
  PROVE  Len(Unwalked) + Len(out_queue) <= Cardinality(setup.pool)
<1>1. /\ Unwalked \in Seq(setup.pool) /\ out_queue \in Seq(setup.pool)
  BY Counts, Zenon DEF TypeInv
<1>2. /\ Unwalked \o out_queue \in Seq(setup.pool)
      /\ Len(Unwalked \o out_queue) = Len(Unwalked) + Len(out_queue)
  BY <1>1, ConcatProperties, Zenon
<1>3. ASSUME NEW b \in setup.pool
      PROVE  Occurs(Unwalked \o out_queue, {b}) <= 1
  <2>1. Occurs(Unwalked \o out_queue, {b}) = Occurs(Unwalked, {b}) + Occurs(out_queue, {b})
    BY <1>1, OccursConcat
  <2>2. CountTypes(b) /\ PlaceSum(b) = 1
    BY Counts, Zenon DEF Places
  <2> QED
    BY <2>1, <2>2, SMTT(30) DEF CountTypes, PlaceSum
<1>4. Len(Unwalked \o out_queue) <= Cardinality(setup.pool)
  BY <1>2, <1>3, PoolFinite, OccursBound, Zenon
<1> QED
  BY <1>2, <1>4, Zenon

(* A step that moves no request, completion or buffer. *)
LEMMA NothingMoves ==
  ASSUME IInv,
         UNCHANGED <<setup, free, held, asked, queue, req, walked, sqes, sq, inflight, cq,
                     out_queue, lost, dropped>>
  PROVE  Places' /\ KernelOnce' /\ AsAsked' /\ NoRequestLost' /\ NoCompletionDropped'
<1>1. Places'
  BY Zenon DEF IInv, Places, PlaceSum, Unwalked, Inflight
<1>2. KernelOnce'
  BY Zenon DEF IInv, KernelOnce, KernelSum, Inflight
<1>3. AsAsked' /\ NoRequestLost' /\ NoCompletionDropped'
  BY Zenon DEF IInv, AsAsked, NoRequestLost, NoCompletionDropped
<1> QED
  BY <1>1, <1>2, <1>3, Zenon
=============================================================================
