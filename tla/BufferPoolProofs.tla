-------------------------- MODULE BufferPoolProofs --------------------------
(***************************************************************************)
(* Proofs about the free list of BufferPool.tla, for any number of threads *)
(* and buffers, any tag width, and with or without spurious failures of    *)
(* compare_exchange_weak.  The argument: IInv holds initially, each action *)
(* preserves it (one lemma per action), and each theorem follows from it.  *)
(***************************************************************************)
EXTENDS BufferPool, SequenceTheorems, TLAPS

(* Pack and the two Unpack functions are inverse: the shift by 32 bits      *)
(* keeps index and tag apart.                                               *)
LEMMA PackUnpack ==
  ASSUME NEW i \in 0 .. IndexMod - 1, NEW g \in Nat
  PROVE  /\ UnpackIndex(Pack(i, g)) = i
         /\ UnpackTag(Pack(i, g)) = g
  BY PoolAssumption DEF UnpackIndex, UnpackTag, Pack

(* kInvalidIndex is no buffer, and every link fits the index half of a      *)
(* packed head: there are fewer buffers than indices.                       *)
LEMMA IndexTypes ==
  /\ kInvalidIndex \notin Indices
  /\ Links \subseteq 0 .. IndexMod - 1
  /\ Indices \subseteq Links
  /\ kInvalidIndex \in Links
  /\ 0 \in Indices
  /\ BufferCount - 1 \in Indices
  BY PoolAssumption DEF kInvalidIndex, Indices, Links

(* What packing and unpacking a head gives is of the right type. *)
LEMMA HeadTypes ==
  /\ 0 \in Heads
  /\ \A h \in Heads : /\ UnpackIndex(h) \in Links
                      /\ UnpackTag(h) \in 0 .. TagMod - 1
                      /\ NextTag(h) \in 0 .. TagMod - 1
  /\ \A i \in Links, g \in 0 .. TagMod - 1 :
       /\ Pack(i, g) \in Heads
       /\ UnpackIndex(Pack(i, g)) = i
       /\ UnpackTag(Pack(i, g)) = g
<1>1. Pack(0, 0) = 0
  BY PoolAssumption DEF Pack
<1>2. \A i \in Links, g \in 0 .. TagMod - 1 :
        /\ Pack(i, g) \in Heads
        /\ UnpackIndex(Pack(i, g)) = i
        /\ UnpackTag(Pack(i, g)) = g
  BY PackUnpack, IndexTypes, PoolAssumption DEF Heads
<1>3. \A h \in Heads : /\ UnpackIndex(h) \in Links
                      /\ UnpackTag(h) \in 0 .. TagMod - 1
  BY <1>2 DEF Heads
<1>4. \A h \in Heads : NextTag(h) \in 0 .. TagMod - 1
  BY <1>3, PoolAssumption DEF NextTag
<1> QED
  BY <1>1, <1>2, <1>3, <1>4, IndexTypes, PoolAssumption

(* Counting a head change and incrementing the tag commute, across the      *)
(* wraparound of the tag.                                                   *)
LEMMA TagSuccessor ==
  ASSUME NEW g \in 0 .. TagMod - 1, NEW a \in 0 .. TagMod - 1, a + 1 < TagMod
  PROVE  (((g + a) % TagMod) + 1) % TagMod = (g + (a + 1)) % TagMod
  BY PoolAssumption

(* The tag comes back to a value only after TagMod head changes: within the *)
(* window, an equal tag means that no change happened.  This is the ABA     *)
(* argument of the comment at free_head_.                                   *)
LEMMA TagReturns ==
  ASSUME NEW g \in 0 .. TagMod - 1, NEW a \in 0 .. TagMod - 1,
         g = (g + a) % TagMod
  PROVE  a = 0
  BY PoolAssumption

(* A stack without its top: its length and its elements. *)
LEMMA Popped ==
  ASSUME NEW s \in Seq(Indices), s # <<>>
  PROVE  LET r == SubSeq(s, 1, Len(s) - 1)
         IN  /\ r \in Seq(Indices)
             /\ Len(s) \in Nat \ {0}
             /\ Len(r) = Len(s) - 1
             /\ \A k \in 1 .. Len(r) : r[k] = s[k]
             /\ s[Len(s)] \in Indices
<1>1. Len(s) \in Nat \ {0}
  BY EmptySeq
<1>2. \A k \in 1 .. Len(s) : s[k] \in Indices
  BY ElementOfSeq
<1>3. PICK n \in Nat : n = Len(s) - 1
  BY <1>1
<1>4. /\ SubSeq(s, 1, n) \in Seq(Indices)
      /\ Len(SubSeq(s, 1, n)) = IF 1 <= n THEN n - 1 + 1 ELSE 0
      /\ \A k \in 1 .. n - 1 + 1 : SubSeq(s, 1, n)[k] = s[1 + k - 1]
  <2>1. \A k \in 1 .. n : s[k] \in Indices
    BY <1>1, <1>2, <1>3
  <2> HIDE <1>3
  <2> QED
    BY <2>1, SubSeqProperties
<1>5. Len(SubSeq(s, 1, n)) = n /\ \A k \in 1 .. n : SubSeq(s, 1, n)[k] = s[k]
  BY <1>4
<1> QED
  BY <1>1, <1>2, <1>3, <1>4, <1>5

(* A stack with one more index on top: its length and its elements. *)
LEMMA Pushed ==
  ASSUME NEW s \in Seq(Indices), NEW i \in Indices
  PROVE  /\ Append(s, i) \in Seq(Indices)
         /\ Append(s, i) # <<>>
         /\ Len(s) \in Nat
         /\ Len(Append(s, i)) = Len(s) + 1
         /\ \A k \in 1 .. Len(s) : Append(s, i)[k] = s[k]
         /\ Append(s, i)[Len(s) + 1] = i
  OBVIOUS

-----------------------------------------------------------------------------
(* The constructor establishes the invariant. *)
LEMMA InitIInv == Init => IInv
<1> SUFFICES ASSUME Init PROVE IInv
  OBVIOUS
<1>1. /\ stack \in Seq(Indices)
      /\ Len(stack) = BufferCount
      /\ \A k \in 1 .. BufferCount : stack[k] = k - 1
  BY PoolAssumption DEF Init, Indices
<1>2. free_head \in Heads /\ UnpackIndex(free_head) = BufferCount - 1
  BY HeadTypes, IndexTypes, PoolAssumption DEF Init
<1>3. \A i \in Indices : i # 0 => i - 1 \in Indices
  BY PoolAssumption DEF Indices
<1>4. TypeOK
  <2>1. free_next \in [Indices -> Links]
    BY <1>3, IndexTypes DEF Init
  <2>2. age \in [Threads -> 0 .. TagMod - 1]
    BY PoolAssumption DEF Init
  <2> QED
    BY <1>1, <1>2, <2>1, <2>2, IndexTypes, HeadTypes, Zenon DEF Init, TypeOK
<1>5. \A t \in Threads, i \in Indices : ~ Returning(t, i)
  BY DEF Init, Returning, InRelease
<1>6. NeverDoubleIssued
  BY <1>5 DEF Init, NeverDoubleIssued
<1>7. ChainIsStack
  <2>1. stack # <<>> /\ stack[Len(stack)] = BufferCount - 1
    BY <1>1, PoolAssumption
  <2>2. \A k \in 1 .. Len(stack) : stack[k] = k - 1 /\ k - 1 \in Indices
    BY <1>1, PoolAssumption DEF Indices
  <2>3. \A k \in 1 .. Len(stack) :
          free_next[stack[k]] = IF k = 1 THEN kInvalidIndex ELSE stack[k - 1]
    BY <1>1, <2>2, PoolAssumption DEF Init
  <2> QED
    BY <1>2, <2>1, <2>3 DEF ChainIsStack
<1>8. OnePlace
  <2>1. \A k \in 1 .. Len(stack) : stack[k] = k - 1 /\ k - 1 \in Indices
    BY <1>1, PoolAssumption DEF Indices
  <2>2. \A i \in Indices : i + 1 \in 1 .. Len(stack) /\ stack[i + 1] = i
    BY <1>1, PoolAssumption DEF Indices
  <2>3. \A k \in 1 .. Len(stack) : issued[stack[k]] = 0
    BY <2>1, Zenon DEF Init
  <2>4. \A j, k \in 1 .. Len(stack) : stack[j] = stack[k] => j = k
    BY <2>1
  <2> QED
    BY <1>5, <2>1, <2>2, <2>3, <2>4 DEF OnePlace
<1>9. LocalsAgree
  BY Zenon DEF Init, LocalsAgree, AcquireWindow
<1> QED
  BY <1>4, <1>6, <1>7, <1>8, <1>9 DEF IInv

(* A step that moves no buffer keeps every statement about where they are. *)
LEMMA QuietStep ==
  ASSUME IInv, TypeOK', UNCHANGED <<issued, stack>>,
         \A u \in Threads, i \in Indices : Returning(u, i)' <=> Returning(u, i)
  PROVE  NeverDoubleIssued' /\ OnePlace'
<1>1. \A k \in 1 .. Len(stack) : stack[k] \in Indices
  BY ElementOfSeq DEF IInv, TypeOK
<1>2. NeverDoubleIssued'
  BY DEF IInv, NeverDoubleIssued
<1>3. OnePlace'
  BY <1>1 DEF IInv, OnePlace
<1> QED
  BY <1>2, <1>3

(* Starting a call touches no shared memory. *)
LEMMA CallAcquireIInv ==
  ASSUME IInv, NEW t \in Threads, CallAcquire(t)
  PROVE  IInv'
<1> USE DEF CallAcquire, IInv
<1>1. TypeOK'
  BY DEF TypeOK, InAcquire
<1>2. \A u \in Threads, i \in Indices : Returning(u, i)' <=> Returning(u, i)
  BY DEF Returning, InRelease, TypeOK
<1>3. NeverDoubleIssued' /\ OnePlace'
  BY <1>1, <1>2, QuietStep
<1>4. ChainIsStack'
  BY DEF ChainIsStack
<1>5. LocalsAgree'
  BY DEF LocalsAgree, AcquireWindow, TypeOK
<1> QED
  BY <1>1, <1>3, <1>4, <1>5

(* Loading the head, first or after a failed compare-and-swap. *)
LEMMA AcquireLoopIInv ==
  ASSUME IInv, NEW t \in Threads, pc[t] \in InAcquire, AcquireLoop(t)
  PROVE  IInv'
<1> USE DEF AcquireLoop, Return, IInv
<1>1. TypeOK'
  <2>1. 0 \in Heads /\ 0 \in Links /\ 0 \in Indices /\ 0 \in 0 .. TagMod - 1
    BY IndexTypes, HeadTypes, PoolAssumption
  <2>2. CASE UnpackIndex(free_head) = kInvalidIndex
    BY <2>1, <2>2, Zenon DEF TypeOK
  <2>3. CASE UnpackIndex(free_head) # kInvalidIndex
    BY <2>1, <2>3, Zenon DEF TypeOK, InAcquire, AcquireWindow
  <2> QED
    BY <2>2, <2>3
<1>2. \A u \in Threads, i \in Indices : Returning(u, i)' <=> Returning(u, i)
  BY DEF Returning, InRelease, InAcquire, AcquireWindow, TypeOK
<1>3. NeverDoubleIssued' /\ OnePlace'
  BY <1>1, <1>2, QuietStep
<1>4. ChainIsStack'
  BY DEF ChainIsStack
<1>5. LocalsAgree'
  <2>1. UnpackIndex(free_head) # kInvalidIndex => UnpackIndex(free_head) \in Indices
    BY HeadTypes DEF TypeOK, Links
  <2>2. UnpackTag(free_head) \in 0 .. TagMod - 1
    BY HeadTypes DEF TypeOK
  <2>3. UnpackTag(free_head) = (UnpackTag(free_head) + 0) % TagMod
    BY <2>2, PoolAssumption
  <2> SUFFICES ASSUME NEW u \in Threads
               PROVE  LocalsAgree!(u)'
    BY DEF LocalsAgree
  <2> QED
    BY <2>1, <2>3 DEF LocalsAgree, AcquireWindow, TypeOK
<1> QED
  BY <1>1, <1>3, <1>4, <1>5

(* acquire reads the link of the index it loaded, which may be stale: the   *)
(* invariant only promises something of it while the head is unchanged.     *)
LEMMA AcquireNextIInv ==
  ASSUME IInv, NEW t \in Threads, AcquireNext(t)
  PROVE  IInv'
<1> USE DEF AcquireNext, IInv
<1>1. TypeOK'
  BY DEF TypeOK, InAcquire, AcquireWindow, LocalsAgree
<1>2. \A u \in Threads, i \in Indices : Returning(u, i)' <=> Returning(u, i)
  BY DEF Returning, InRelease, TypeOK
<1>3. NeverDoubleIssued' /\ OnePlace'
  BY <1>1, <1>2, QuietStep
<1>4. ChainIsStack'
  BY DEF ChainIsStack
<1>5. LocalsAgree'
  BY DEF LocalsAgree, AcquireWindow, TypeOK
<1> QED
  BY <1>1, <1>3, <1>4, <1>5

(* The caller gives the buffer up when it calls release: from issued to     *)
(* on its way back, in one step.                                            *)
LEMMA CallReleaseIInv ==
  ASSUME IInv, NEW t \in Threads, NEW i \in Indices, CallRelease(t, i)
  PROVE  IInv'
<1> USE DEF CallRelease, IInv
<1>1. issued[i] = 1 /\ \A u \in Threads : ~ Returning(u, i)
  BY DEF NeverDoubleIssued, TypeOK
<1>2. TypeOK'
  <2>1. issued' \in [Indices -> Nat]
    BY <1>1 DEF TypeOK
  <2> QED
    BY <2>1 DEF TypeOK, InRelease
<1>3. \A u \in Threads, j \in Indices :
        Returning(u, j)' <=> IF u = t THEN j = i ELSE Returning(u, j)
  BY DEF Returning, InRelease, TypeOK
<1>4. ~ \E j \in Indices : Returning(t, j)
  BY DEF Returning, InRelease
<1>5. issued'[i] = 0 /\ \A j \in Indices \ {i} : issued'[j] = issued[j]
  BY <1>1 DEF TypeOK
<1>6. NeverDoubleIssued'
  BY <1>3, <1>4, <1>5 DEF NeverDoubleIssued
<1>7. ChainIsStack'
  BY DEF ChainIsStack
<1>8. OnePlace'
  <2>1. \A k \in 1 .. Len(stack) : stack[k] \in Indices \ {i}
    BY <1>1, ElementOfSeq DEF TypeOK, OnePlace
  <2> QED
    BY <1>1, <1>3, <1>4, <1>5, <2>1 DEF OnePlace
<1>9. LocalsAgree'
  BY DEF LocalsAgree, AcquireWindow, TypeOK
<1> QED
  BY <1>2, <1>6, <1>7, <1>8, <1>9

(* Loading the head in release, first or after a failed compare-and-swap:   *)
(* the link has to be stored (again) before it can be published.            *)
LEMMA ReleaseLoadIInv ==
  ASSUME IInv, NEW t \in Threads, ReleaseLoad(t) \/ ReleaseRetry(t)
  PROVE  IInv'
<1> USE DEF ReleaseLoad, ReleaseRetry, IInv
<1>1. TypeOK'
  BY Zenon DEF TypeOK, InRelease
<1>2. \A u \in Threads, i \in Indices : Returning(u, i)' <=> Returning(u, i)
  BY DEF Returning, InRelease, TypeOK
<1>3. NeverDoubleIssued' /\ OnePlace'
  BY <1>1, <1>2, QuietStep
<1>4. ChainIsStack'
  BY DEF ChainIsStack
<1>5. LocalsAgree'
  BY Zenon DEF LocalsAgree, AcquireWindow, TypeOK
<1> QED
  BY <1>1, <1>3, <1>4, <1>5

(* The link a release stores is its own buffer's, which is neither on the   *)
(* chain nor linked by another release: no other thread relies on it.       *)
LEMMA ReleaseStoreIInv ==
  ASSUME IInv, NEW t \in Threads, ReleaseStore(t)
  PROVE  IInv'
<1> USE DEF ReleaseStore, IInv
<1>1. TypeOK'
  <2>1. UnpackIndex(head[t]) \in Links
    BY HeadTypes DEF TypeOK
  <2> QED
    BY <2>1 DEF TypeOK, InRelease
<1>2. \A u \in Threads, i \in Indices : Returning(u, i)' <=> Returning(u, i)
  BY DEF Returning, InRelease, TypeOK
<1>3. NeverDoubleIssued' /\ OnePlace'
  BY <1>1, <1>2, QuietStep
<1>4. index[t] \in Indices /\ Returning(t, index[t])
  BY DEF TypeOK, Returning, InRelease
<1>5. \A k \in 1 .. Len(stack) : stack[k] \in Indices /\ stack[k] # index[t]
  BY <1>4, ElementOfSeq DEF OnePlace, TypeOK
<1>6. ChainIsStack'
  BY <1>5 DEF ChainIsStack, TypeOK
<1>7. LocalsAgree'
  <2>1. \A u \in Threads : (pc[u] \in AcquireWindow /\ age[u] = 0) =>
          UnpackIndex(head[u]) # index[t]
    <3> SUFFICES ASSUME NEW u \in Threads, pc[u] \in AcquireWindow, age[u] = 0
                 PROVE  UnpackIndex(head[u]) # index[t]
      OBVIOUS
    <3>1. UnpackIndex(free_head) \in Indices /\ head[u] = free_head
      BY DEF LocalsAgree
    <3>2. stack # <<>> /\ UnpackIndex(free_head) = stack[Len(stack)]
      BY <3>1, IndexTypes DEF ChainIsStack
    <3>3. Len(stack) \in 1 .. Len(stack)
      BY <3>2, EmptySeq DEF TypeOK
    <3> QED
      BY <3>1, <3>2, <3>3, <1>5
  <2>2. \A u \in Threads : (u # t /\ pc[u] = "rel_cas") => index[u] # index[t]
    BY <1>4 DEF OnePlace, Returning, InRelease
  <2>3. \A u \in Threads : pc[u] \in AcquireWindow => u # t
    BY DEF AcquireWindow
  <2> SUFFICES ASSUME NEW u \in Threads
               PROVE  LocalsAgree!(u)'
    BY DEF LocalsAgree
  <2>4. CASE u = t
    BY <2>4, <1>4 DEF AcquireWindow, TypeOK
  <2>5. CASE u # t
    BY <2>1, <2>2, <2>5, <1>4 DEF LocalsAgree, AcquireWindow, TypeOK
  <2> QED
    BY <2>4, <2>5
<1> QED
  BY <1>1, <1>3, <1>6, <1>7

-----------------------------------------------------------------------------
(* Publishing a head with the next tag is seen by every acquire that holds  *)
(* an older one: its tag is one step further from the current one.          *)
LEMMA PublishLocals ==
  ASSUME IInv, NEW t \in Threads, NEW i \in Links, free_head = head[t],
         PublishHead(t, Pack(i, NextTag(head[t]))), Return(t),
         \A u \in Threads \ {t} : index'[u] = index[u], UNCHANGED free_next
  PROVE  LocalsAgree' /\ UnpackIndex(free_head)' = i /\ free_head' \in Heads
<1> USE DEF IInv, PublishHead, Return
<1>1. NextTag(free_head) \in 0 .. TagMod - 1
  BY HeadTypes DEF TypeOK
<1>2. /\ UnpackIndex(free_head)' = i
      /\ free_head' \in Heads
      /\ UnpackTag(free_head)' = NextTag(free_head)
  BY <1>1, HeadTypes
<1>3. ASSUME NEW u \in Threads
      PROVE  LocalsAgree!(u)'
  <2>1. CASE u = t
    BY <2>1 DEF AcquireWindow, TypeOK
  <2>2. CASE u # t /\ pc[u] \in AcquireWindow
    <3>1. age'[u] = age[u] + 1 /\ age[u] \in 0 .. TagMod - 1 /\ age[u] + 1 < TagMod
      BY <2>2 DEF TypeOK, TagWindow
    <3>2. UnpackTag(head[u]) \in 0 .. TagMod - 1
      BY HeadTypes DEF TypeOK
    <3>3. UnpackTag(free_head) = (UnpackTag(head[u]) + age[u]) % TagMod
      BY <2>2 DEF LocalsAgree
    <3>4. UnpackTag(free_head)' = (UnpackTag(head[u]) + (age[u] + 1)) % TagMod
      BY <1>2, <3>1, <3>2, <3>3, TagSuccessor DEF NextTag
    <3>5. age'[u] # 0
      BY <3>1
    <3>6. pc'[u] = pc[u] /\ head'[u] = head[u]
      BY <2>2 DEF TypeOK
    <3>7. pc[u] # "rel_cas" /\ UnpackIndex(head[u]) \in Indices
      BY <2>2 DEF AcquireWindow, LocalsAgree
    <3> QED
      BY <3>1, <3>4, <3>5, <3>6, <3>7
  <2>3. CASE u # t /\ pc[u] \notin AcquireWindow
    BY <2>3 DEF LocalsAgree, AcquireWindow, TypeOK
  <2> QED
    BY <2>1, <2>2, <2>3
<1> QED
  BY <1>2, <1>3 DEF LocalsAgree

(* A successful compare-and-swap in acquire: the tag says that the head has *)
(* not changed since it was loaded, so the link read is the link of the top *)
(* of the stack, and taking the top leaves the rest of the chain.           *)
LEMMA AcquireCasIInv ==
  ASSUME IInv, NEW t \in Threads, AcquireCas(t)
  PROVE  /\ IInv'
         /\ stack # <<>>
         /\ UnpackIndex(head[t]) = stack[Len(stack)]
<1> USE DEF AcquireCas, IInv
<1> DEFINE top == UnpackIndex(head[t])
           n == Len(stack)
<1>1. age[t] = 0
  <2>1. /\ UnpackTag(head[t]) \in 0 .. TagMod - 1
        /\ age[t] \in 0 .. TagMod - 1
        /\ UnpackTag(head[t]) = (UnpackTag(head[t]) + age[t]) % TagMod
    BY HeadTypes DEF TypeOK, LocalsAgree, AcquireWindow
  <2> QED
    BY <2>1, TagReturns
<1>2. top \in Indices /\ next[t] = free_next[top] /\ next[t] \in Links
  BY <1>1 DEF LocalsAgree, AcquireWindow, TypeOK
<1>3. stack # <<>> /\ top = stack[n]
  BY <1>2, IndexTypes DEF ChainIsStack
<1>4. /\ stack' \in Seq(Indices)
      /\ n \in Nat \ {0}
      /\ Len(stack') = n - 1
      /\ \A k \in 1 .. n - 1 : stack'[k] = stack[k]
  BY <1>3, Popped DEF TypeOK
<1>5. \A k \in 1 .. n : stack[k] \in Indices
  BY ElementOfSeq DEF TypeOK
<1>6. LocalsAgree' /\ UnpackIndex(free_head)' = next[t] /\ free_head' \in Heads
  BY <1>2, PublishLocals
<1>7. issued[top] = 0 /\ \A u \in Threads : ~ Returning(u, top)
  BY <1>3, <1>4 DEF OnePlace
<1>8. issued'[top] = 1 /\ \A i \in Indices \ {top} : issued'[i] = issued[i]
  BY <1>2, <1>7 DEF TypeOK
<1>9. \A u \in Threads, i \in Indices : Returning(u, i)' <=> Returning(u, i)
  BY DEF Return, Returning, InRelease, TypeOK
<1>10. TypeOK'
  <2>1. 0 \in Heads /\ 0 \in Links /\ 0 \in Indices
    BY IndexTypes, HeadTypes
  <2>2. age' \in [Threads -> 0 .. TagMod - 1]
    BY PoolAssumption DEF PublishHead, TagWindow, TypeOK
  <2>3. issued' \in [Indices -> Nat]
    BY <1>2 DEF TypeOK
  <2> QED
    BY <1>4, <1>6, <2>1, <2>2, <2>3, Zenon DEF TypeOK, Return
<1>11. NeverDoubleIssued'
  BY <1>7, <1>8, <1>9 DEF NeverDoubleIssued
<1>12. ChainIsStack'
  <2>1. stack' = <<>> <=> n = 1
    <3>1. Len(<<>>) = 0
      BY EmptySeq
    <3>2. stack' # <<>> => Len(stack') \in Nat \ {0}
      BY <1>4, EmptySeq, Zenon
    <3>3. stack' = <<>> => Len(stack') = 0
      BY <3>1, Zenon
    <3> QED
      BY <1>4, <3>2, <3>3
  <2>2. next[t] = IF n = 1 THEN kInvalidIndex ELSE stack[n - 1]
    BY <1>2, <1>3, <1>4 DEF ChainIsStack
  <2>3. n # 1 => stack'[Len(stack')] = stack[n - 1]
    BY <1>4
  <2>4. \A k \in 1 .. Len(stack') : free_next'[stack'[k]] =
          IF k = 1 THEN kInvalidIndex ELSE stack'[k - 1]
    BY <1>4 DEF ChainIsStack
  <2> QED
    BY <1>6, <2>1, <2>2, <2>3, <2>4 DEF ChainIsStack
<1>13. OnePlace'
  <2>1. \A k \in 1 .. n - 1 : stack[k] # top
    BY <1>3, <1>4 DEF OnePlace
  <2>2. \A j, k \in 1 .. Len(stack') : stack'[j] = stack'[k] => j = k
    BY <1>4 DEF OnePlace
  <2>3. \A k \in 1 .. Len(stack') :
          (issued[stack[k]] = 0 /\ \A u \in Threads : ~ Returning(u, stack[k]))'
    BY <1>4, <1>5, <1>8, <1>9, <2>1 DEF OnePlace
  <2>4. ASSUME NEW i \in Indices
        PROVE  \/ issued'[i] = 1
               \/ \E u \in Threads : Returning(u, i)'
               \/ \E k \in 1 .. Len(stack') : stack'[k] = i
    <3>1. CASE i = top
      BY <3>1, <1>8
    <3>2. CASE i # top /\ \E k \in 1 .. n : stack[k] = i
      <4>1. PICK k \in 1 .. n : stack[k] = i
        BY <3>2
      <4>2. k \in 1 .. n - 1
        BY <3>2, <4>1, <1>3, <1>4
      <4> QED
        BY <4>1, <4>2, <1>4
    <3> QED
      BY <3>1, <3>2, <1>8, <1>9 DEF OnePlace
  <2> QED
    BY <1>9, <2>2, <2>3, <2>4 DEF OnePlace
<1> QED
  BY <1>3, <1>6, <1>10, <1>11, <1>12, <1>13

(* A successful compare-and-swap in release: the buffer is linked to the    *)
(* index on top, whatever happened to the head between the load and here.   *)
LEMMA ReleaseCasIInv ==
  ASSUME IInv, NEW t \in Threads, ReleaseCas(t)
  PROVE  IInv'
<1> USE DEF ReleaseCas, IInv
<1> DEFINE i == index[t]
           n == Len(stack)
<1>1. i \in Indices /\ i \in Links /\ Returning(t, i)
  BY IndexTypes, Zenon DEF TypeOK, Returning, InRelease
<1>2. free_next[i] = UnpackIndex(free_head)
  BY DEF LocalsAgree
<1>3. /\ stack' \in Seq(Indices)
      /\ stack' # <<>>
      /\ n \in Nat
      /\ Len(stack') = n + 1
      /\ \A k \in 1 .. n : stack'[k] = stack[k]
      /\ stack'[n + 1] = i
  BY <1>1, Pushed, Zenon DEF TypeOK
<1>4. \A k \in 1 .. n : stack[k] \in Indices /\ stack[k] # i
  BY <1>1, ElementOfSeq DEF TypeOK, OnePlace
<1>5. LocalsAgree' /\ UnpackIndex(free_head)' = i /\ free_head' \in Heads
  <2>1. \A u \in Threads \ {t} : index'[u] = index[u]
    BY DEF TypeOK
  <2> QED
    BY <1>1, <2>1, PublishLocals
<1>6. issued[i] = 0
  BY <1>1 DEF NeverDoubleIssued, TypeOK
<1>7. \A u \in Threads, j \in Indices :
        Returning(u, j)' <=> (u # t /\ Returning(u, j))
  BY DEF Return, Returning, InRelease, TypeOK
<1>8. \A u \in Threads : Returning(u, i) => u = t
  BY <1>1 DEF OnePlace
<1>9. \A j \in Indices : Returning(t, j) => j = i
  BY DEF Returning
<1>10. TypeOK'
  <2>1. 0 \in Heads /\ 0 \in Links /\ 0 \in Indices
    BY IndexTypes, HeadTypes
  <2>2. age' \in [Threads -> 0 .. TagMod - 1]
    BY PoolAssumption DEF PublishHead, TagWindow, TypeOK
  <2> QED
    BY <1>3, <1>5, <2>1, <2>2, Zenon DEF TypeOK, Return
<1>11. NeverDoubleIssued'
  BY <1>7 DEF NeverDoubleIssued
<1>12. ChainIsStack'
  <2>1. free_next'[i] = IF n = 0 THEN kInvalidIndex ELSE stack[n]
    BY <1>2, <1>3, EmptySeq DEF ChainIsStack, TypeOK
  <2>2. \A k \in 1 .. n : free_next'[stack'[k]] =
          IF k = 1 THEN kInvalidIndex ELSE stack'[k - 1]
    BY <1>3 DEF ChainIsStack
  <2>3. free_next'[stack'[n + 1]] =
          IF n + 1 = 1 THEN kInvalidIndex ELSE stack'[(n + 1) - 1]
    BY <1>3, <2>1
  <2> QED
    BY <1>3, <1>5, <2>2, <2>3 DEF ChainIsStack
<1>13. OnePlace'
  <2>1. \A j, k \in 1 .. Len(stack') : stack'[j] = stack'[k] => j = k
    BY <1>3, <1>4 DEF OnePlace
  <2>2. \A k \in 1 .. Len(stack') :
          (issued[stack[k]] = 0 /\ \A u \in Threads : ~ Returning(u, stack[k]))'
    BY <1>1, <1>3, <1>4, <1>6, <1>7, <1>8 DEF OnePlace
  <2>3. ASSUME NEW j \in Indices
        PROVE  \/ issued'[j] = 1
               \/ \E u \in Threads : Returning(u, j)'
               \/ \E k \in 1 .. Len(stack') : stack'[k] = j
    <3>1. CASE j = i
      BY <3>1, <1>3
    <3>2. CASE j # i
      BY <3>2, <1>3, <1>7, <1>9 DEF OnePlace
    <3> QED
      BY <3>1, <3>2
  <2> QED
    BY <1>7, <2>1, <2>2, <2>3 DEF OnePlace
<1> QED
  BY <1>5, <1>10, <1>11, <1>12, <1>13

-----------------------------------------------------------------------------
(* Every step of the pool preserves the invariant. *)
LEMMA NextIInv == IInv /\ [Next]_vars => IInv'
<1> SUFFICES ASSUME IInv, [Next]_vars PROVE IInv'
  OBVIOUS
<1>1. CASE UNCHANGED vars
  BY <1>1 DEF vars, IInv, TypeOK, NeverDoubleIssued, ChainIsStack, OnePlace,
              LocalsAgree, Returning
<1>2. ASSUME NEW t \in Threads, CallAcquire(t) PROVE IInv'
  BY <1>2, CallAcquireIInv
<1>3. ASSUME NEW t \in Threads, AcquireLoad(t) \/ AcquireRetry(t) PROVE IInv'
  BY <1>3, AcquireLoopIInv DEF AcquireLoad, AcquireRetry, InAcquire, AcquireWindow
<1>4. ASSUME NEW t \in Threads, AcquireNext(t) PROVE IInv'
  BY <1>4, AcquireNextIInv
<1>5. ASSUME NEW t \in Threads, AcquireCas(t) PROVE IInv'
  BY <1>5, AcquireCasIInv
<1>6. ASSUME NEW t \in Threads, NEW i \in Indices, CallRelease(t, i) PROVE IInv'
  BY <1>6, CallReleaseIInv
<1>7. ASSUME NEW t \in Threads, ReleaseLoad(t) \/ ReleaseRetry(t) PROVE IInv'
  BY <1>7, ReleaseLoadIInv
<1>8. ASSUME NEW t \in Threads, ReleaseStore(t) PROVE IInv'
  BY <1>8, ReleaseStoreIInv
<1>9. ASSUME NEW t \in Threads, ReleaseCas(t) PROVE IInv'
  BY <1>9, ReleaseCasIInv
<1> QED
  BY <1>1, <1>2, <1>3, <1>4, <1>5, <1>6, <1>7, <1>8, <1>9 DEF Next

(* The inductive invariant holds in every reachable state of the pool, for  *)
(* any number of threads and buffers and any width of the tag.              *)
THEOREM Invariant == Spec => []IInv
  BY InitIInv, NextIInv, PTL DEF Spec

(* Every variable keeps a value of its type: in particular a head never     *)
(* names an index that is neither a buffer nor kInvalidIndex.               *)
THEOREM TypeCorrect == Spec => []TypeOK
  BY Invariant, PTL DEF IInv

(* No buffer is handed to two callers, nor handed out during its release.   *)
THEOREM ExclusiveOwnership == Spec => []NeverDoubleIssued
  BY Invariant, PTL DEF IInv

(* The chain in memory is always the stack of free buffers.                 *)
THEOREM ChainIntact == Spec => []ChainIsStack
  BY Invariant, PTL DEF IInv

(* Every buffer is always in exactly one place: none is lost.               *)
THEOREM NoBufferLost == Spec => []OnePlace
  BY Invariant, PTL DEF IInv

(* What a thread keeps between two steps of a call is worth what the code   *)
(* takes it for: as long as the head has not changed since acquire loaded   *)
(* it, the link acquire read is still the link of the top buffer.           *)
THEOREM LocalsStayValid == Spec => []LocalsAgree
  BY Invariant, PTL DEF IInv

(* acquire fails only when no buffer is free.                               *)
THEOREM FailsOnlyWhenExhausted == Spec => InvalidOnlyWhenExhausted
<1> DEFINE Exhausted ==
      \A t \in Threads :
        (pc[t] \in InAcquire /\ pc'[t] = "idle" /\ UNCHANGED issued) =>
          \A i \in Indices : issued[i] = 1 \/ \E u \in Threads : Returning(u, i)
<1>1. IInv /\ [Next]_vars => [Exhausted]_vars
  <2> SUFFICES ASSUME IInv, Next, NEW t \in Threads,
                      pc[t] \in InAcquire, pc'[t] = "idle", UNCHANGED issued,
                      NEW i \in Indices
               PROVE  issued[i] = 1 \/ \E u \in Threads : Returning(u, i)
    OBVIOUS
  <2>1. PICK u \in Threads :
          \/ CallAcquire(u)
          \/ AcquireLoad(u)
          \/ AcquireNext(u)
          \/ AcquireCas(u)
          \/ AcquireRetry(u)
          \/ \E j \in Indices : CallRelease(u, j)
          \/ ReleaseLoad(u)
          \/ ReleaseStore(u)
          \/ ReleaseCas(u)
          \/ ReleaseRetry(u)
    BY DEF Next
  <2>2. pc[t] # "idle" /\ pc[t] \notin InRelease
    BY DEF InAcquire, AcquireWindow, InRelease
  <2>3. u = t
    BY <2>1, <2>2 DEF CallAcquire, AcquireLoad, AcquireNext, AcquireCas,
         AcquireRetry, AcquireLoop, CallRelease, ReleaseLoad, ReleaseStore,
         ReleaseCas, ReleaseRetry, Return, IInv, TypeOK
  <2>4. CASE AcquireCas(t)
    <3>1. UnpackIndex(head[t]) \in Indices
      BY <2>4 DEF AcquireCas, IInv, LocalsAgree, AcquireWindow
    <3> QED
      BY <2>4, <3>1 DEF AcquireCas, IInv, TypeOK
  <2>5. CASE AcquireLoad(t) \/ AcquireRetry(t)
    <3>1. UnpackIndex(free_head) = kInvalidIndex
      BY <2>5 DEF AcquireLoad, AcquireRetry, AcquireLoop, IInv, TypeOK
    <3>2. stack = <<>>
      <4> SUFFICES ASSUME stack # <<>> PROVE FALSE
        OBVIOUS
      <4>1. stack[Len(stack)] \in Indices
        BY Popped DEF IInv, TypeOK
      <4> QED
        BY <3>1, <4>1, IndexTypes DEF IInv, ChainIsStack
    <3>3. Len(stack) = 0
      BY <3>2, EmptySeq
    <3> QED
      BY <3>3 DEF IInv, OnePlace
  <2>6. ~ (CallAcquire(t) \/ AcquireNext(t) \/ \E j \in Indices : CallRelease(t, j))
    BY <2>2 DEF CallAcquire, AcquireNext, CallRelease, IInv, TypeOK
  <2>7. ~ (ReleaseLoad(t) \/ ReleaseStore(t) \/ ReleaseCas(t) \/ ReleaseRetry(t))
    BY <2>2 DEF ReleaseLoad, ReleaseStore, ReleaseCas, ReleaseRetry, InRelease
  <2> QED
    BY <2>1, <2>3, <2>4, <2>5, <2>6, <2>7, Zenon
<1> QED
  BY <1>1, Invariant, PTL DEF Spec, InvalidOnlyWhenExhausted

-----------------------------------------------------------------------------
(* A step of one thread changes only that thread's abstract operation.      *)
LEMMA OpStep ==
  ASSUME NEW t \in Threads, NEW p, TypeOK,
         pc' = [pc EXCEPT ![t] = p]
  PROVE  AbstractOp' = [AbstractOp EXCEPT ![t] = OpOf(p)]
  BY Zenon DEF AbstractOp, TypeOK

(* The step of the atomic stack that a step of the pool stands for.         *)
LEMMA StepImplements ==
  IInv /\ [Next]_vars => [Abstract!Next]_(Abstract!vars)
<1> SUFFICES ASSUME IInv, [Next]_vars
             PROVE  Abstract!Next \/ UNCHANGED <<stack, issued, AbstractOp, index>>
  BY DEF Abstract!vars
<1>1. TypeOK
  BY DEF IInv
<1>2. /\ OpOf("idle") = "none"
      /\ OpOf("acq_load") = "acquire"
      /\ OpOf("rel_load") = "release"
      /\ \A p \in InAcquire : OpOf(p) = "acquire"
      /\ \A p \in InRelease : OpOf(p) = "release"
  BY DEF OpOf, InAcquire, InRelease, AcquireWindow
<1>3. /\ {"acq_load", "acq_next", "acq_cas"} = InAcquire
      /\ {"rel_load", "rel_store", "rel_cas"} = InRelease
  BY DEF InAcquire, InRelease, AcquireWindow
<1>4. ASSUME NEW t \in Threads, NEW p, pc' = [pc EXCEPT ![t] = p],
             OpOf(p) = OpOf(pc[t])
      PROVE  AbstractOp' = AbstractOp
  BY <1>1, <1>4 DEF AbstractOp, TypeOK
<1>5. CASE UNCHANGED vars
  BY <1>5 DEF vars, AbstractOp
<1>6. ASSUME NEW t \in Threads, CallAcquire(t)
      PROVE  Abstract!CallAcquire(t)
  <2>1. AbstractOp[t] = "none"
    BY <1>2, <1>6 DEF CallAcquire, AbstractOp
  <2>2. AbstractOp' = [AbstractOp EXCEPT ![t] = "acquire"]
    <3>1. pc' = [pc EXCEPT ![t] = "acq_load"]
      BY <1>6 DEF CallAcquire
    <3>2. AbstractOp' = [AbstractOp EXCEPT ![t] = OpOf("acq_load")]
      BY <1>1, <3>1, OpStep, Zenon
    <3> QED
      BY <1>2, <3>2, Zenon
  <2> QED
    BY <1>6, <2>1, <2>2 DEF Abstract!CallAcquire, CallAcquire
<1>7. ASSUME NEW t \in Threads, AcquireLoad(t) \/ AcquireRetry(t)
      PROVE  Abstract!AcquireNone(t) \/ UNCHANGED <<stack, issued, AbstractOp, index>>
  <2>1. pc[t] \in InAcquire /\ AcquireLoop(t)
    BY <1>3, <1>7 DEF AcquireLoad, AcquireRetry
  <2>2. CASE UnpackIndex(free_head) = kInvalidIndex
    <3>1. AbstractOp[t] = "acquire"
      BY <1>2, <2>1 DEF AbstractOp
    <3>2. AbstractOp' = [AbstractOp EXCEPT ![t] = "none"]
      <4>1. pc' = [pc EXCEPT ![t] = "idle"]
        BY <2>1, <2>2 DEF AcquireLoop, Return
      <4>2. AbstractOp' = [AbstractOp EXCEPT ![t] = OpOf("idle")]
        BY <1>1, <4>1, OpStep, Zenon
      <4> QED
        BY <1>2, <4>2, Zenon
    <3>3. stack = <<>>
      <4> SUFFICES ASSUME stack # <<>> PROVE FALSE
        OBVIOUS
      <4>1. stack[Len(stack)] \in Indices
        BY Popped DEF IInv, TypeOK
      <4> QED
        BY <2>2, <4>1, IndexTypes DEF IInv, ChainIsStack
    <3> QED
      BY <2>1, <3>1, <3>2, <3>3 DEF Abstract!AcquireNone, AcquireLoop
  <2>3. CASE UnpackIndex(free_head) # kInvalidIndex
    BY <1>2, <1>3, <1>4, <2>1, <2>3 DEF AcquireLoop
  <2> QED
    BY <2>2, <2>3
<1>8. ASSUME NEW t \in Threads,
             AcquireNext(t) \/ ReleaseLoad(t) \/ ReleaseStore(t) \/ ReleaseRetry(t)
      PROVE  UNCHANGED <<stack, issued, AbstractOp, index>>
  <2>1. PICK p \in {"acq_cas", "rel_store", "rel_cas"} :
          pc' = [pc EXCEPT ![t] = p] /\ OpOf(p) = OpOf(pc[t])
    BY <1>2, <1>3, <1>8 DEF AcquireNext, ReleaseLoad, ReleaseStore, ReleaseRetry
  <2>2. AbstractOp' = AbstractOp
    BY <1>4, <2>1, Zenon
  <2> QED
    BY <1>8, <2>2 DEF AcquireNext, ReleaseLoad, ReleaseStore, ReleaseRetry
<1>9. ASSUME NEW t \in Threads, AcquireCas(t)
      PROVE  Abstract!AcquireSome(t)
  <2>1. AbstractOp[t] = "acquire"
    BY <1>2, <1>3, <1>9 DEF AcquireCas, AbstractOp
  <2>2. AbstractOp' = [AbstractOp EXCEPT ![t] = "none"]
    <3>1. pc' = [pc EXCEPT ![t] = "idle"]
      BY <1>9 DEF AcquireCas, Return
    <3>2. AbstractOp' = [AbstractOp EXCEPT ![t] = OpOf("idle")]
      BY <1>1, <3>1, OpStep, Zenon
    <3> QED
      BY <1>2, <3>2, Zenon
  <2>3. stack # <<>> /\ UnpackIndex(head[t]) = stack[Len(stack)]
    BY <1>9, AcquireCasIInv
  <2> QED
    BY <1>9, <2>1, <2>2, <2>3 DEF Abstract!AcquireSome, AcquireCas
<1>10. ASSUME NEW t \in Threads, NEW i \in Indices, CallRelease(t, i)
       PROVE  Abstract!CallRelease(t, i)
  <2>1. AbstractOp[t] = "none"
    BY <1>2, <1>10 DEF CallRelease, AbstractOp
  <2>2. AbstractOp' = [AbstractOp EXCEPT ![t] = "release"]
    <3>1. pc' = [pc EXCEPT ![t] = "rel_load"]
      BY <1>10 DEF CallRelease
    <3>2. AbstractOp' = [AbstractOp EXCEPT ![t] = OpOf("rel_load")]
      BY <1>1, <3>1, OpStep, Zenon
    <3> QED
      BY <1>2, <3>2, Zenon
  <2> QED
    BY <1>10, <2>1, <2>2 DEF Abstract!CallRelease, CallRelease
<1>11. ASSUME NEW t \in Threads, ReleaseCas(t)
       PROVE  Abstract!Release(t)
  <2>1. AbstractOp[t] = "release"
    BY <1>2, <1>3, <1>11 DEF ReleaseCas, AbstractOp
  <2>2. AbstractOp' = [AbstractOp EXCEPT ![t] = "none"]
    <3>1. pc' = [pc EXCEPT ![t] = "idle"]
      BY <1>11 DEF ReleaseCas, Return
    <3>2. AbstractOp' = [AbstractOp EXCEPT ![t] = OpOf("idle")]
      BY <1>1, <3>1, OpStep, Zenon
    <3> QED
      BY <1>2, <3>2, Zenon
  <2> QED
    BY <1>11, <2>1, <2>2 DEF Abstract!Release, ReleaseCas
<1>12. Indices = Abstract!Indices
  BY DEF Indices, Abstract!Indices
<1> QED
  BY <1>5, <1>6, <1>7, <1>8, <1>9, <1>10, <1>11, <1>12 DEF Next, Abstract!Next

(* The pool implements the atomic stack: acquire and release are            *)
(* linearizable, for any number of threads and buffers.                     *)
THEOREM Linearizable == Spec => ImplementsFreeStack
<1>1. Init => Abstract!Init
  <2>1. OpOf("idle") = "none"
    BY DEF OpOf, InAcquire, InRelease, AcquireWindow
  <2> QED
    BY <2>1 DEF Init, Abstract!Init, AbstractOp, Indices, Abstract!Indices
<1> QED
  BY <1>1, StepImplements, Invariant, PTL DEF Spec, ImplementsFreeStack, Abstract!Spec
=============================================================================
