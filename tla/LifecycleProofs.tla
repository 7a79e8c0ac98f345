--------------------------- MODULE LifecycleProofs ---------------------------
(***************************************************************************)
(* Proofs about Lifecycle.tla for any number of pools and engines, any     *)
(* sizes and any heap: whichever constructors run, fail or are undone side *)
(* by side, memory is owned once, transfers stay inside it, and every      *)
(* engine keeps a poller whose own engine exists.                          *)
(***************************************************************************)
EXTENDS Lifecycle, TLAPS

Labels == {"none", "allocate", "lock", "reserve", "live", "free"}

(* The labels at which a pool has memory, and at which it is locked. *)
Holding == {"lock", "reserve", "live", "free"}
Locking == {"reserve", "live"}

Holders == {p \in Pools : ppc[p] \in Holding}
Lockers == {p \in Pools : ppc[p] \in Locking}

Aligned(a) == \E m \in Nat : a = m * PageSize

(* The variables have their types.  A constructor past its checks has a     *)
(* positive number of buffers, each of a whole number of pages, and memory  *)
(* that starts on a page.                                                   *)
TypeInv ==
  /\ ppc \in [Pools -> Labels]
  /\ args \in [Pools -> [count : Nat, size : Nat]]
  /\ base_ \in [Pools -> Nat \union {None}]
  /\ \A p \in Pools : ppc[p] # "none" => args[p].size % PageSize = 0
  /\ \A p \in Holders : base_[p] \in Nat /\ Aligned(base_[p])
  /\ \A b \in heap : b.base \in Nat /\ b.len \in Nat /\ Aligned(b.base)
  /\ epc \in [Engines -> {"none", "live"}]
  /\ attach \in [Engines -> Engines \union {None}]
  /\ poller \in [Engines -> Engines \union {None}]
  /\ DOMAIN reg = Engines

(* Memory has one owner: allocated blocks are apart, a pool that has memory *)
(* has an allocated block of its own, which is not among the leaked ones,   *)
(* and nothing else is allocated or locked.                                 *)
BlocksApart ==
  \A b, c \in heap : b # c => Room(b) \intersect Room(c) = {}

OwnBlocks ==
  /\ \A p \in Holders : Block(p) \notin leaked
  /\ \A p, q \in Holders : p # q => Block(p) # Block(q)

HeapOwned == heap = {Block(p) : p \in Holders} \union leaked

LockedOwned ==
  \A n : n \in locked <=> \/ \E p \in Lockers : n \in Pages(base_[p], Total(p))
                          \/ \E b \in leaked : n \in Pages(b.base, b.len)

(* A transfer uses a buffer of a pool that is in use. *)
TransfersLive ==
  \A t \in io : /\ t.pool \in Pools /\ ppc[t.pool] = "live"
                /\ t.index \in 0 .. args[t.pool].count - 1

(* Engines are attached to live ones and share their poller; no chain of    *)
(* attachments is closed; the poller of a live engine is the one of a live  *)
(* engine that is not attached.                                             *)
LiveEngines == {e \in Engines : epc[e] = "live"}

Attachments ==
  /\ \A e \in Engines : attach[e] # None =>
       /\ e \in LiveEngines /\ attach[e] \in LiveEngines
       /\ poller[e] = poller[attach[e]]
  /\ \A e \in LiveEngines : attach[e] = None => poller[e] = e
  /\ \A S \in SUBSET LiveEngines : S # {} => \E e \in S : attach[e] \notin S

Pollers ==
  \A e \in LiveEngines : poller[e] \in LiveEngines /\ attach[poller[e]] = None

IInv ==
  /\ TypeInv
  /\ BlocksApart /\ OwnBlocks /\ HeapOwned /\ LockedOwned
  /\ TransfersLive
  /\ Attachments /\ Pollers

-----------------------------------------------------------------------------
(* Pages.  A page of an aligned block starts inside it, so blocks that have *)
(* no address in common have no page in common either.                      *)
LEMMA PageBounds ==
  ASSUME NEW a \in Nat
  PROVE  /\ a \div PageSize \in Nat
         /\ (a \div PageSize) * PageSize <= a
         /\ a < (a \div PageSize) * PageSize + PageSize
<1>1. PageSize \in Nat /\ PageSize > 0
  BY LifecycleAssumption
<1>2. a \div PageSize \in Nat /\ a % PageSize \in 0 .. PageSize - 1
  BY <1>1
<1>3. a = (a \div PageSize) * PageSize + (a % PageSize)
  BY <1>1
<1>4. (a \div PageSize) * PageSize \in Nat
  BY <1>1, <1>2
<1> DEFINE x == (a \div PageSize) * PageSize
           r == a % PageSize
<1>5. x \in Nat /\ r \in 0 .. PageSize - 1 /\ a = x + r
  BY <1>2, <1>3, <1>4, Zenon
<1> HIDE DEF x, r
<1>6. x <= a /\ a < x + PageSize
  BY <1>1, <1>5
<1> QED
  BY <1>2, <1>6, Zenon DEF x

LEMMA Times ==
  ASSUME NEW m \in Nat, NEW n \in Nat, NEW s \in Nat, m <= n
  PROVE  m * s \in Nat /\ n * s \in Nat /\ m * s <= n * s
  OBVIOUS

LEMMA TimesLess ==
  ASSUME NEW m \in Nat, NEW n \in Nat, NEW s \in Nat, m < n
  PROVE  m * s \in Nat /\ n * s \in Nat /\ m * s + s <= n * s
<1>1. (m + 1) * s <= n * s /\ m * s \in Nat /\ n * s \in Nat
  BY Times
<1>2. (m + 1) * s = m * s + s
  OBVIOUS
<1> QED
  BY <1>1, <1>2, Zenon

LEMMA PageStart ==
  ASSUME NEW base \in Nat, NEW len \in Nat, Aligned(base),
         NEW n \in Pages(base, len)
  PROVE  n \in Nat /\ n * PageSize \in Bytes(base, len)
<1>1. PICK a \in Bytes(base, len) : n = a \div PageSize
  BY Zenon DEF Pages
<1>2. a \in Nat /\ base <= a /\ a < base + len
  BY <1>1 DEF Bytes
<1>3. n \in Nat /\ n * PageSize <= a /\ a < n * PageSize + PageSize
  BY <1>1, <1>2, PageBounds, Zenon
<1>4. PICK m \in Nat : base = m * PageSize
  BY Zenon DEF Aligned
<1>5. PageSize \in Nat
  BY LifecycleAssumption, Zenon
<1>6. ~ (n < m)
  <2> SUFFICES ASSUME n < m PROVE FALSE
    BY Zenon
  <2>1. n * PageSize + PageSize <= m * PageSize /\ n * PageSize \in Nat
    BY <1>3, <1>5, TimesLess, Zenon
  <2> QED
    BY <1>2, <1>3, <1>4, <1>5, <2>1
<1>7. m * PageSize <= n * PageSize /\ n * PageSize \in Nat
  BY <1>3, <1>5, <1>6, Times
<1> QED
  BY <1>2, <1>3, <1>4, <1>7 DEF Bytes

LEMMA PagesApart ==
  ASSUME TypeInv, BlocksApart, NEW b \in heap, NEW c \in heap, b # c,
         NEW n \in Pages(b.base, b.len)
  PROVE  n \notin Pages(c.base, c.len)
<1> SUFFICES ASSUME n \in Pages(c.base, c.len) PROVE FALSE
  BY Zenon
<1>1. n * PageSize \in Bytes(b.base, b.len) /\ n * PageSize \in Bytes(c.base, c.len)
  BY PageStart, Zenon DEF TypeInv
<1> QED
  BY <1>1, Zenon DEF BlocksApart, Room

-----------------------------------------------------------------------------
(* What a step of one pool leaves alone. *)
Others(p) ==
  \A q \in Pools \ {p} :
    ppc'[q] = ppc[q] /\ args'[q] = args[q] /\ base_'[q] = base_[q]

LEMMA SameBlock ==
  ASSUME NEW q, args'[q] = args[q], base_'[q] = base_[q]
  PROVE  Total(q)' = Total(q) /\ Block(q)' = Block(q)
  BY Zenon DEF Total, Block

LEMMA TotalType ==
  ASSUME TypeInv, NEW p \in Pools
  PROVE  Total(p) \in Nat
<1>1. args[p].size \in Nat /\ args[p].count \in Nat
  BY Zenon DEF TypeInv
<1>2. args[p].size * args[p].count \in Nat
  BY <1>1
<1> DEFINE x == args[p].size * args[p].count
<1> HIDE DEF x
<1>3. x % SizeMod \in Nat
  BY <1>2, LifecycleAssumption DEF x
<1> QED
  BY <1>3, Zenon DEF x, Total

LEMMA EnginesStay ==
  ASSUME IInv, UNCHANGED <<epc, attach, poller>>
  PROVE  Attachments' /\ Pollers'
  BY Zenon DEF IInv, Attachments, Pollers, LiveEngines

LEMMA PoolsStay ==
  ASSUME IInv, UNCHANGED pool
  PROVE  BlocksApart' /\ OwnBlocks' /\ HeapOwned' /\ LockedOwned'
<1> USE DEF IInv, pool
<1>1. BlocksApart'
  BY Zenon DEF BlocksApart, Room, Bytes
<1>2. OwnBlocks'
  BY Zenon DEF OwnBlocks, Holders, Block, Total
<1>3. HeapOwned'
  BY Zenon DEF HeapOwned, Holders, Block, Total
<1>4. LockedOwned'
  BY Zenon DEF LockedOwned, Lockers, Pages, Bytes, Total
<1> QED
  BY <1>1, <1>2, <1>3, <1>4, Zenon

LEMMA InitIInv == Init => IInv
<1> SUFFICES ASSUME Init PROVE IInv
  BY Zenon
<1> USE DEF Init
<1>1. TypeInv
  BY Zenon DEF TypeInv, Labels, NoArgs, Holders, Holding
<1>2. BlocksApart /\ OwnBlocks
  BY Zenon DEF BlocksApart, OwnBlocks, Holders, Holding
<1>3. HeapOwned /\ LockedOwned
  BY Zenon DEF HeapOwned, LockedOwned, Holders, Holding, Lockers, Locking
<1>4. TransfersLive
  BY Zenon DEF TransfersLive
<1>5. Attachments /\ Pollers
  BY Zenon DEF Attachments, Pollers, LiveEngines
<1> QED
  BY <1>1, <1>2, <1>3, <1>4, <1>5, Zenon DEF IInv

-----------------------------------------------------------------------------
(* Steps of a pool that change neither who has memory nor what is locked:   *)
(* p has none before or after, or keeps the block it has.                   *)
SameStanding(p) ==
  /\ p \in Holders <=> p \in Holders'
  /\ p \in Lockers <=> p \in Lockers'
  /\ p \in Holders => args'[p] = args[p] /\ base_'[p] = base_[p]

LEMMA MemoryStays ==
  ASSUME IInv, NEW p \in Pools, Others(p), SameStanding(p),
         UNCHANGED <<heap, locked, leaked>>
  PROVE  BlocksApart' /\ OwnBlocks' /\ HeapOwned' /\ LockedOwned'
<1> USE DEF IInv
<1>1. Holders' = Holders /\ Lockers' = Lockers
  BY Zenon DEF Holders, Lockers, Others, SameStanding
<1>2. \A q \in Holders : Block(q)' = Block(q) /\ Total(q)' = Total(q) /\ base_'[q] = base_[q]
  BY SameBlock, Zenon DEF Holders, Others, SameStanding
<1>3. Lockers \subseteq Holders
  BY Zenon DEF Lockers, Holders, Locking, Holding
<1>4. BlocksApart'
  BY Zenon DEF BlocksApart, Room, Bytes
<1>5. OwnBlocks'
  BY <1>1, <1>2 DEF OwnBlocks
<1>6. HeapOwned'
  BY <1>1, <1>2, Zenon DEF HeapOwned
<1>7. LockedOwned'
  <2>1. ASSUME NEW n, NEW q \in Lockers
        PROVE  (n \in Pages(base_[q], Total(q)))' <=> n \in Pages(base_[q], Total(q))
    BY <1>2, <1>3, Zenon DEF Pages, Bytes
  <2>2. ASSUME NEW n, NEW b
        PROVE  (n \in Pages(b.base, b.len))' <=> n \in Pages(b.base, b.len)
    BY Zenon DEF Pages, Bytes
  <2> QED
    BY <1>1, <2>1, <2>2, Zenon DEF LockedOwned
<1> QED
  BY <1>4, <1>5, <1>6, <1>7, Zenon

LEMMA TransfersStay ==
  ASSUME IInv, NEW p \in Pools, Others(p), UNCHANGED io,
         ppc[p] # "live" \/ Quiet(p)
  PROVE  TransfersLive'
  BY Zenon DEF IInv, TransfersLive, Others, Quiet

(* The types after a step of p, from those of p's own state. *)
LEMMA TypesStep ==
  ASSUME IInv, NEW p \in Pools, Others(p),
         ppc' \in [Pools -> Labels],
         args' \in [Pools -> [count : Nat, size : Nat]],
         base_' \in [Pools -> Nat \union {None}],
         ppc'[p] # "none" => args'[p].size % PageSize = 0,
         ppc'[p] \in Holding => base_'[p] \in Nat /\ Aligned(base_'[p]),
         \A b \in heap' : b \in heap \/ (b.base \in Nat /\ b.len \in Nat /\ Aligned(b.base)),
         UNCHANGED <<epc, attach, poller>>, DOMAIN reg' = Engines
  PROVE  TypeInv'
<1>1. (\A q \in Pools : ppc[q] # "none" => args[q].size % PageSize = 0)'
  BY Zenon DEF IInv, TypeInv, Others
<1>2. (\A q \in Holders : base_[q] \in Nat /\ Aligned(base_[q]))'
  BY Zenon DEF IInv, TypeInv, Others, Holders, Aligned
<1>3. (\A b \in heap : b.base \in Nat /\ b.len \in Nat /\ Aligned(b.base))'
  BY Zenon DEF IInv, TypeInv, Aligned
<1> QED
  BY <1>1, <1>2, <1>3, Zenon DEF IInv, TypeInv

LEMMA ConstructStep ==
  ASSUME IInv, NEW p \in Pools, Construct(p)
  PROVE  IInv'
<1> USE DEF Construct, Gone, Goto
<1>1. Others(p)
  BY Zenon DEF IInv, TypeInv, Others
<1>2. TypeInv'
  <2>1. \A c \in Counts, s \in Sizes : [count |-> c, size |-> s] \in [count : Nat, size : Nat]
    BY LifecycleAssumption
  <2>2. args' \in [Pools -> [count : Nat, size : Nat]]
    BY <2>1 DEF IInv, TypeInv, NoArgs
  <2>3. ppc' \in [Pools -> Labels] /\ base_' \in [Pools -> Nat \union {None}]
    BY Zenon DEF IInv, TypeInv, Labels
  <2>4. ppc'[p] # "none" => args'[p].size % PageSize = 0
    BY DEF IInv, TypeInv
  <2>5. ppc'[p] \notin Holding
    BY Zenon DEF IInv, TypeInv, Holding
  <2> QED
    BY <1>1, <2>2, <2>3, <2>4, <2>5, TypesStep, Zenon DEF engine, IInv, TypeInv
<1>3. SameStanding(p)
  BY Zenon DEF IInv, TypeInv, SameStanding, Holders, Lockers, Holding, Locking
<1>4. BlocksApart' /\ OwnBlocks' /\ HeapOwned' /\ LockedOwned'
  BY <1>1, <1>3, MemoryStays, Zenon
<1>5. TransfersLive'
  BY <1>1, TransfersStay, Zenon
<1>6. Attachments' /\ Pollers'
  BY EnginesStay, Zenon DEF engine
<1> QED
  BY <1>2, <1>4, <1>5, <1>6, Zenon DEF IInv

(* posix_memalign failed: the object is gone. *)
LEMMA AllocateFails ==
  ASSUME IInv, NEW p \in Pools, Allocate(p), Gone(p), UNCHANGED heap
  PROVE  IInv'
<1> USE DEF Allocate, Gone, Goto
<1>1. Others(p)
  BY Zenon DEF IInv, TypeInv, Others
<1>2. TypeInv'
  <2>1. args' \in [Pools -> [count : Nat, size : Nat]]
    BY Zenon DEF IInv, TypeInv, NoArgs
  <2>2. ppc' \in [Pools -> Labels] /\ base_' \in [Pools -> Nat \union {None}]
    BY Zenon DEF IInv, TypeInv, Labels
  <2>3. ppc'[p] = "none" /\ ppc'[p] \notin Holding
    BY Zenon DEF IInv, TypeInv, Holding
  <2> QED
    BY <1>1, <2>1, <2>2, <2>3, TypesStep, Zenon DEF engine, IInv, TypeInv
<1>3. SameStanding(p)
  BY Zenon DEF IInv, TypeInv, SameStanding, Holders, Lockers, Holding, Locking
<1>4. BlocksApart' /\ OwnBlocks' /\ HeapOwned' /\ LockedOwned'
  BY <1>1, <1>3, MemoryStays, Zenon
<1>5. TransfersLive'
  BY <1>1, TransfersStay, Zenon
<1>6. Attachments' /\ Pollers'
  BY EnginesStay, Zenon DEF engine
<1> QED
  BY <1>2, <1>4, <1>5, <1>6, Zenon DEF IInv

(* posix_memalign returned the block at page n. *)
Allocates(p, n) ==
  LET block == [base |-> n * PageSize, len |-> Total(p)] IN
  /\ ppc[p] = "allocate"
  /\ \A b \in heap : Room(b) \intersect Room(block) = {}
  /\ heap' = heap \union {block}
  /\ base_' = [base_ EXCEPT ![p] = block.base]
  /\ Goto(p, "lock") /\ UNCHANGED args
  /\ UNCHANGED <<locked, leaked, engine, io>>

LEMMA AllocateWorks ==
  ASSUME IInv, NEW p \in Pools, NEW n \in Nat, Allocates(p, n)
  PROVE  IInv'
<1> DEFINE block == [base |-> n * PageSize, len |-> Total(p)]
<1> USE DEF Allocates, Goto
<1>1. Others(p)
  BY Zenon DEF IInv, TypeInv, Others
<1>2. /\ block.base \in Nat /\ block.len \in Nat /\ Aligned(block.base)
      /\ block.base = n * PageSize
  <2>1. n * PageSize \in Nat /\ Aligned(n * PageSize)
    BY LifecycleAssumption DEF Aligned
  <2>2. Total(p) \in Nat
    BY TotalType, Zenon DEF IInv
  <2> QED
    BY <2>1, <2>2, Zenon
<1>3. block = Block(p)' /\ base_'[p] = block.base
  BY Zenon DEF Block, Total, IInv, TypeInv
<1>4. /\ heap' = heap \union {block}
      /\ \A b \in heap : Room(b) \intersect Room(block) = {}
  BY Zenon
<1>5. p \notin Holders /\ p \notin Lockers /\ ppc'[p] = "lock"
  BY Zenon DEF IInv, TypeInv, Holders, Lockers, Holding, Locking
<1> HIDE DEF block
<1>6. TypeInv'
  <2>1. args' \in [Pools -> [count : Nat, size : Nat]] /\ ppc' \in [Pools -> Labels]
    BY Zenon DEF IInv, TypeInv, Labels
  <2>2. base_' \in [Pools -> Nat \union {None}]
    BY <1>2, Zenon DEF IInv, TypeInv
  <2>3. args'[p].size % PageSize = 0
    BY Zenon DEF IInv, TypeInv
  <2>4. \A b \in heap' : b \in heap \/ (b.base \in Nat /\ b.len \in Nat /\ Aligned(b.base))
    BY <1>2, <1>4, Zenon
  <2> QED
    BY <1>1, <1>2, <1>3, <2>1, <2>2, <2>3, <2>4, TypesStep, Zenon DEF engine, IInv, TypeInv
<1>7. Holders' = Holders \union {p} /\ Lockers' = Lockers
  BY <1>1, <1>5, Zenon DEF Holders, Lockers, Others, Holding, Locking
<1>8. \A q \in Holders : Block(q)' = Block(q) /\ Total(q)' = Total(q) /\ base_'[q] = base_[q]
  BY <1>1, <1>5, SameBlock, Zenon DEF Holders, Others
<1>9. block \notin heap
  BY <1>4, Zenon DEF Room
<1>10. BlocksApart'
  BY <1>4, Zenon DEF IInv, BlocksApart, Room, Bytes
<1>11. OwnBlocks'
  BY <1>3, <1>7, <1>8, <1>9 DEF IInv, OwnBlocks, HeapOwned
<1>12. HeapOwned'
  BY <1>3, <1>4, <1>7, <1>8, Zenon DEF IInv, HeapOwned
<1>13. LockedOwned'
  <2>1. Lockers \subseteq Holders
    BY Zenon DEF Lockers, Holders, Locking, Holding
  <2>2. ASSUME NEW k, NEW q \in Lockers
        PROVE  (k \in Pages(base_[q], Total(q)))' <=> k \in Pages(base_[q], Total(q))
    BY <1>8, <2>1, Zenon DEF Pages, Bytes
  <2>3. ASSUME NEW k, NEW b
        PROVE  (k \in Pages(b.base, b.len))' <=> k \in Pages(b.base, b.len)
    BY Zenon DEF Pages, Bytes
  <2> QED
    BY <1>7, <2>2, <2>3, Zenon DEF IInv, LockedOwned
<1>14. TransfersLive'
  BY <1>1, TransfersStay, Zenon
<1>15. Attachments' /\ Pollers'
  BY EnginesStay, Zenon DEF engine
<1> QED
  BY <1>6, <1>10, <1>11, <1>12, <1>13, <1>14, <1>15, Zenon DEF IInv

(* A page's being in a block does not depend on the state. *)
LEMMA PagesRigid ==
  ASSUME NEW k, NEW b
  PROVE  (k \in Pages(b.base, b.len))' <=> k \in Pages(b.base, b.len)
  BY Zenon DEF Pages, Bytes

LEMMA OwnPages ==
  ASSUME NEW k, NEW q
  PROVE  k \in Pages(base_[q], Total(q)) <=> k \in Pages(Block(q).base, Block(q).len)
  BY Zenon DEF Block

(* The types after p is gone. *)
LEMMA TypesGone ==
  ASSUME IInv, NEW p \in Pools, Gone(p), heap' \subseteq heap,
         UNCHANGED <<epc, attach, poller, reg>>
  PROVE  Others(p) /\ ppc'[p] = "none" /\ TypeInv'
<1> USE DEF Gone, Goto
<1>1. Others(p)
  BY Zenon DEF IInv, TypeInv, Others
<1>2. args' \in [Pools -> [count : Nat, size : Nat]]
  BY Zenon DEF IInv, TypeInv, NoArgs
<1>3. ppc' \in [Pools -> Labels] /\ base_' \in [Pools -> Nat \union {None}]
  BY Zenon DEF IInv, TypeInv, Labels
<1>4. ppc'[p] = "none" /\ ppc'[p] \notin Holding
  BY Zenon DEF IInv, TypeInv, Holding
<1>5. DOMAIN reg' = Engines
  BY Zenon DEF IInv, TypeInv
<1>6. TypeInv'
  BY <1>1, <1>2, <1>3, <1>4, <1>5, TypesStep, Zenon
<1> QED
  BY <1>1, <1>4, <1>6, Zenon

(* free, in a constructor whose mlock failed or at the end of the           *)
(* destructor.                                                              *)
LEMMA FreeStep ==
  ASSUME IInv, NEW p \in Pools, ppc[p] \in {"lock", "free"},
         heap' = heap \ {Block(p)}, Gone(p),
         UNCHANGED <<locked, leaked, epc, attach, poller, reg, io>>
  PROVE  IInv'
<1>1. Others(p) /\ ppc'[p] = "none" /\ TypeInv'
  BY TypesGone, Zenon
<1>2. p \in Holders /\ p \notin Lockers
  BY Zenon DEF Holders, Lockers, Holding, Locking
<1>3. Holders' = Holders \ {p} /\ Lockers' = Lockers
  BY <1>1, <1>2, Zenon DEF Holders, Lockers, Others, Holding, Locking
<1>4. \A q \in Holders \ {p} : Block(q)' = Block(q) /\ Total(q)' = Total(q) /\ base_'[q] = base_[q]
  BY <1>1, SameBlock, Zenon DEF Holders, Others
<1>5. BlocksApart'
  BY Zenon DEF IInv, BlocksApart, Room, Bytes
<1>6. OwnBlocks'
  BY <1>3, <1>4 DEF IInv, OwnBlocks
<1>7. HeapOwned'
  <2>1. heap = {Block(q) : q \in Holders} \union leaked
    BY Zenon DEF IInv, HeapOwned
  <2>2. /\ Block(p) \notin leaked
        /\ \A q \in Holders \ {p} : Block(q) # Block(p)
    BY <1>2, Zenon DEF IInv, OwnBlocks
  <2>3. heap' = {Block(q) : q \in Holders \ {p}} \union leaked
    BY <1>2, <2>1, <2>2, Zenon
  <2>4. {Block(q)' : q \in Holders \ {p}} = {Block(q) : q \in Holders \ {p}}
    BY <1>4, Zenon
  <2> QED
    BY <1>3, <2>3, <2>4, Zenon DEF HeapOwned
<1>8. LockedOwned'
  <2>1. Lockers \subseteq Holders \ {p}
    BY <1>2, Zenon DEF Lockers, Holders, Locking, Holding
  <2>2. ASSUME NEW k, NEW q \in Lockers
        PROVE  (k \in Pages(base_[q], Total(q)))' <=> k \in Pages(base_[q], Total(q))
    BY <1>4, <2>1, Zenon DEF Pages, Bytes
  <2> QED
    BY <1>3, <2>2, PagesRigid, Zenon DEF IInv, LockedOwned
<1>9. TransfersLive'
  BY <1>1, TransfersStay, Zenon
<1>10. Attachments' /\ Pollers'
  BY EnginesStay, Zenon
<1> QED
  BY <1>1, <1>5, <1>6, <1>7, <1>8, <1>9, <1>10, Zenon DEF IInv

(* mlock worked. *)
LEMMA LockWorks ==
  ASSUME IInv, NEW p \in Pools, ppc[p] = "lock",
         locked' = locked \union Pages(base_[p], Total(p)), Goto(p, "reserve"),
         UNCHANGED <<args, base_, heap, leaked, engine, io>>
  PROVE  IInv'
<1> USE DEF Goto
<1>1. Others(p) /\ ppc'[p] = "reserve"
  BY Zenon DEF IInv, TypeInv, Others
<1>2. TypeInv'
  <2>1. ppc' \in [Pools -> Labels]
    BY Zenon DEF IInv, TypeInv, Labels
  <2>2. args'[p].size % PageSize = 0
    BY Zenon DEF IInv, TypeInv
  <2>3. base_'[p] \in Nat /\ Aligned(base_'[p])
    BY Zenon DEF IInv, TypeInv, Holders, Holding
  <2> QED
    BY <1>1, <2>1, <2>2, <2>3, TypesStep, Zenon DEF IInv, TypeInv, engine
<1>3. Holders' = Holders /\ Lockers' = Lockers \union {p}
  BY <1>1, Zenon DEF Holders, Lockers, Others, Holding, Locking
<1>4. \A q : Block(q)' = Block(q) /\ Total(q)' = Total(q)
  BY Zenon DEF Block, Total
<1>5. BlocksApart' /\ OwnBlocks'
  BY <1>3, <1>4, Zenon DEF IInv, BlocksApart, OwnBlocks, Room, Bytes
<1>6. HeapOwned'
  BY <1>3, <1>4, Zenon DEF IInv, HeapOwned
<1>7. LockedOwned'
  <2>1. ASSUME NEW k, NEW q
        PROVE  (k \in Pages(base_[q], Total(q)))' <=> k \in Pages(base_[q], Total(q))
    BY <1>4, Zenon DEF Pages, Bytes
  <2> QED
    BY <1>3, <2>1, PagesRigid, Zenon DEF IInv, LockedOwned
<1>8. TransfersLive'
  BY <1>1, TransfersStay, Zenon
<1>9. Attachments' /\ Pollers'
  BY EnginesStay, Zenon DEF engine
<1> QED
  BY <1>2, <1>5, <1>6, <1>7, <1>8, <1>9, Zenon DEF IInv

(* iovecs_.reserve threw: nobody frees the block or unlocks it. *)
LEMMA ReserveFails ==
  ASSUME IInv, NEW p \in Pools, ppc[p] = "reserve",
         leaked' = leaked \union {Block(p)}, Gone(p),
         UNCHANGED <<heap, locked, engine, io>>
  PROVE  IInv'
<1>1. Others(p) /\ ppc'[p] = "none" /\ TypeInv'
  BY TypesGone, Zenon DEF engine
<1>2. p \in Holders /\ p \in Lockers
  BY Zenon DEF Holders, Lockers, Holding, Locking
<1>3. Holders' = Holders \ {p} /\ Lockers' = Lockers \ {p}
  BY <1>1, <1>2, Zenon DEF Holders, Lockers, Others, Holding, Locking
<1>4. \A q \in Holders \ {p} : Block(q)' = Block(q) /\ Total(q)' = Total(q) /\ base_'[q] = base_[q]
  BY <1>1, SameBlock, Zenon DEF Holders, Others
<1>5. BlocksApart'
  BY Zenon DEF IInv, BlocksApart, Room, Bytes
<1>6. OwnBlocks'
  BY <1>2, <1>3, <1>4, Zenon DEF IInv, OwnBlocks
<1>7. HeapOwned'
  <2>1. heap = {Block(q) : q \in Holders} \union leaked
    BY Zenon DEF IInv, HeapOwned
  <2>2. heap = {Block(q) : q \in Holders \ {p}} \union leaked'
    BY <1>2, <2>1, Zenon
  <2>3. {Block(q)' : q \in Holders \ {p}} = {Block(q) : q \in Holders \ {p}}
    BY <1>4, Zenon
  <2> QED
    BY <1>3, <2>2, <2>3, Zenon DEF HeapOwned
<1>8. LockedOwned'
  <2>1. Lockers \ {p} \subseteq Holders \ {p}
    BY Zenon DEF Lockers, Holders, Locking, Holding
  <2>2. ASSUME NEW k, NEW q \in Lockers \ {p}
        PROVE  (k \in Pages(base_[q], Total(q)))' <=> k \in Pages(base_[q], Total(q))
    BY <1>4, <2>1, Zenon DEF Pages, Bytes
  <2>3. \A k : k \in locked <=> \/ \E q \in Lockers \ {p} : k \in Pages(base_[q], Total(q))
                                \/ k \in Pages(Block(p).base, Block(p).len)
                                \/ \E b \in leaked : k \in Pages(b.base, b.len)
    BY <1>2, OwnPages, Zenon DEF IInv, LockedOwned
  <2>4. \A k : k \in locked <=> \/ \E q \in Lockers \ {p} : k \in Pages(base_[q], Total(q))
                                \/ \E b \in leaked' : k \in Pages(b.base, b.len)
    BY <2>3, Zenon
  <2> QED
    BY <1>3, <2>2, <2>4, PagesRigid, Zenon DEF LockedOwned
<1>9. TransfersLive'
  BY <1>1, TransfersStay, Zenon
<1>10. Attachments' /\ Pollers'
  BY EnginesStay, Zenon DEF engine
<1> QED
  BY <1>1, <1>5, <1>6, <1>7, <1>8, <1>9, <1>10, Zenon DEF IInv

(* iovecs_.reserve worked: the pool is in use. *)
LEMMA ReserveWorks ==
  ASSUME IInv, NEW p \in Pools, ppc[p] = "reserve", Goto(p, "live"),
         UNCHANGED <<args, base_, heap, locked, leaked, engine, io>>
  PROVE  IInv'
<1> USE DEF Goto
<1>1. Others(p) /\ ppc'[p] = "live"
  BY Zenon DEF IInv, TypeInv, Others
<1>2. TypeInv'
  <2>1. ppc' \in [Pools -> Labels]
    BY Zenon DEF IInv, TypeInv, Labels
  <2>2. args'[p].size % PageSize = 0
    BY Zenon DEF IInv, TypeInv
  <2>3. base_'[p] \in Nat /\ Aligned(base_'[p])
    BY Zenon DEF IInv, TypeInv, Holders, Holding
  <2> QED
    BY <1>1, <2>1, <2>2, <2>3, TypesStep, Zenon DEF IInv, TypeInv, engine
<1>3. SameStanding(p)
  BY <1>1, Zenon DEF SameStanding, Holders, Lockers, Holding, Locking
<1>4. BlocksApart' /\ OwnBlocks' /\ HeapOwned' /\ LockedOwned'
  BY <1>1, <1>3, MemoryStays, Zenon
<1>5. TransfersLive'
  BY <1>1, TransfersStay, Zenon
<1>6. Attachments' /\ Pollers'
  BY EnginesStay, Zenon DEF engine
<1> QED
  BY <1>2, <1>4, <1>5, <1>6, Zenon DEF IInv

(* munlock: the pages of other blocks stay locked, as none is shared. *)
LEMMA UnlockStep ==
  ASSUME IInv, NEW p \in Pools, ppc[p] = "live", Quiet(p),
         locked' = locked \ Pages(base_[p], Total(p)), DOMAIN reg' = Engines,
         Goto(p, "free"),
         UNCHANGED <<args, base_, heap, leaked, epc, attach, poller, io>>
  PROVE  IInv'
<1> USE DEF Goto
<1>1. Others(p) /\ ppc'[p] = "free"
  BY Zenon DEF IInv, TypeInv, Others
<1>2. TypeInv'
  <2>1. ppc' \in [Pools -> Labels]
    BY Zenon DEF IInv, TypeInv, Labels
  <2>2. args'[p].size % PageSize = 0
    BY Zenon DEF IInv, TypeInv
  <2>3. base_'[p] \in Nat /\ Aligned(base_'[p])
    BY Zenon DEF IInv, TypeInv, Holders, Holding
  <2> QED
    BY <1>1, <2>1, <2>2, <2>3, TypesStep, Zenon DEF IInv, TypeInv
<1>3. p \in Holders /\ Holders' = Holders /\ Lockers' = Lockers \ {p}
  BY <1>1, Zenon DEF Holders, Lockers, Others, Holding, Locking
<1>4. \A q : Block(q)' = Block(q) /\ Total(q)' = Total(q)
  BY Zenon DEF Block, Total
<1>5. BlocksApart' /\ OwnBlocks'
  BY <1>3, <1>4, Zenon DEF IInv, BlocksApart, OwnBlocks, Room, Bytes
<1>6. HeapOwned'
  BY <1>3, <1>4, Zenon DEF IInv, HeapOwned
<1>7. LockedOwned'
  <2>1. Block(p) \in heap /\ leaked \subseteq heap
    BY <1>3, Zenon DEF IInv, HeapOwned
  <2>2. ASSUME NEW k \in Pages(base_[p], Total(p)), NEW b \in heap, b # Block(p)
        PROVE  k \notin Pages(b.base, b.len)
    BY <2>1, <2>2, OwnPages, PagesApart, Zenon DEF IInv
  <2>3. ASSUME NEW k \in Pages(base_[p], Total(p)), NEW q \in Lockers \ {p}
        PROVE  k \notin Pages(base_[q], Total(q))
    <3>1. q \in Holders
      BY Zenon DEF Lockers, Holders, Locking, Holding
    <3>2. Block(q) \in heap /\ Block(q) # Block(p)
      BY <1>3, <3>1, Zenon DEF IInv, HeapOwned, OwnBlocks
    <3> QED
      BY <2>2, <3>2, OwnPages, Zenon
  <2>4. ASSUME NEW k \in Pages(base_[p], Total(p)), NEW b \in leaked
        PROVE  k \notin Pages(b.base, b.len)
    BY <1>3, <2>1, <2>2, Zenon DEF IInv, OwnBlocks
  <2>5. \A k : k \in locked' <=> \/ \E q \in Lockers \ {p} : k \in Pages(base_[q], Total(q))
                                 \/ \E b \in leaked : k \in Pages(b.base, b.len)
    BY <2>3, <2>4, Zenon DEF IInv, LockedOwned
  <2>6. ASSUME NEW k, NEW q
        PROVE  (k \in Pages(base_[q], Total(q)))' <=> k \in Pages(base_[q], Total(q))
    BY <1>4, Zenon DEF Pages, Bytes
  <2> QED
    BY <1>3, <2>5, <2>6, PagesRigid, Zenon DEF LockedOwned
<1>8. TransfersLive'
  BY <1>1, TransfersStay, Zenon
<1>9. Attachments' /\ Pollers'
  BY EnginesStay, Zenon
<1> QED
  BY <1>2, <1>5, <1>6, <1>7, <1>8, <1>9, Zenon DEF IInv

-----------------------------------------------------------------------------
(* Steps of an engine. *)
LEMMA TypesEngine ==
  ASSUME IInv, UNCHANGED pool,
         epc' \in [Engines -> {"none", "live"}],
         attach' \in [Engines -> Engines \union {None}],
         poller' \in [Engines -> Engines \union {None}],
         DOMAIN reg' = Engines
  PROVE  TypeInv'
  BY Zenon DEF IInv, TypeInv, pool, Holders, Aligned

LEMMA ConstructEngineStep ==
  ASSUME IInv, NEW e \in Engines, NEW a \in Engines \union {None},
         ConstructEngine(e, a)
  PROVE  IInv'
<1> USE DEF ConstructEngine
<1>1. None \notin Engines
  BY LifecycleAssumption, Zenon
<1>2. e \notin LiveEngines /\ LiveEngines' = LiveEngines \union {e}
  BY Zenon DEF IInv, TypeInv, LiveEngines
<1>3. /\ attach'[e] = a /\ poller'[e] = IF a = None THEN e ELSE poller[a]
      /\ \A f \in Engines \ {e} : attach'[f] = attach[f] /\ poller'[f] = poller[f]
      /\ a # None => a \in LiveEngines /\ a # e
  BY Zenon DEF IInv, TypeInv, LiveEngines
<1>4. TypeInv'
  BY TypesEngine, Zenon DEF IInv, TypeInv
<1>5. Attachments'
  <2>1. ASSUME NEW f \in Engines, attach'[f] # None
        PROVE  /\ f \in LiveEngines' /\ attach'[f] \in LiveEngines'
               /\ poller'[f] = poller'[attach'[f]]
    <3>1. CASE f = e
      BY <1>2, <1>3, <2>1, <3>1 DEF LiveEngines
    <3>2. CASE f # e
      BY <1>2, <1>3, <2>1, <3>2 DEF IInv, Attachments, LiveEngines
    <3> QED
      BY <3>1, <3>2, Zenon
  <2>2. ASSUME NEW f \in LiveEngines', attach'[f] = None
        PROVE  poller'[f] = f
    BY <1>2, <1>3, <2>2, Zenon DEF IInv, Attachments, LiveEngines
  <2>3. ASSUME NEW S \in SUBSET LiveEngines', S # {}
        PROVE  \E f \in S : attach'[f] \notin S
    <3>1. CASE S = {e}
      BY <1>1, <1>3, <3>1
    <3>2. CASE S # {e}
      <4>1. S \ {e} \in SUBSET LiveEngines /\ S \ {e} # {}
        BY <1>2, <2>3, <3>2, Zenon
      <4>2. PICK f \in S \ {e} : attach[f] \notin S \ {e}
        BY <4>1, Zenon DEF IInv, Attachments
      <4>3. attach[f] # e
        BY <1>1, <1>2, <4>1 DEF IInv, Attachments, LiveEngines
      <4> QED
        BY <1>3, <4>1, <4>2, <4>3, Zenon DEF LiveEngines
    <3> QED
      BY <3>1, <3>2, Zenon
  <2> QED
    BY <2>1, <2>2, <2>3, Zenon DEF Attachments
<1>6. Pollers'
  <2> SUFFICES ASSUME NEW f \in LiveEngines'
               PROVE  poller'[f] \in LiveEngines' /\ attach'[poller'[f]] = None
    BY Zenon DEF Pollers
  <2>1. CASE f # e
    BY <1>2, <1>3, <2>1 DEF IInv, Pollers, LiveEngines
  <2>2. CASE f = e /\ a = None
    BY <1>2, <1>3, <2>2, Zenon
  <2>3. CASE f = e /\ a # None
    BY <1>2, <1>3, <2>3 DEF IInv, Pollers, LiveEngines
  <2> QED
    BY <2>1, <2>2, <2>3, Zenon
<1>7. BlocksApart' /\ OwnBlocks' /\ HeapOwned' /\ LockedOwned'
  BY PoolsStay, Zenon
<1>8. TransfersLive'
  BY Zenon DEF IInv, TransfersLive, pool
<1> QED
  BY <1>4, <1>5, <1>6, <1>7, <1>8, Zenon DEF IInv

(* The engine that goes is nobody's attach_to, so its poller serves nobody  *)
(* else: of all the engines that poller would serve, one would have to be   *)
(* attached to an engine outside their number, and that is only e.          *)
LEMMA DestroyEngineStep ==
  ASSUME IInv, NEW e \in Engines, DestroyEngine(e)
  PROVE  IInv'
<1> USE DEF DestroyEngine
<1>1. None \notin Engines
  BY LifecycleAssumption, Zenon
<1>2. e \in LiveEngines /\ LiveEngines' = LiveEngines \ {e}
  BY Zenon DEF IInv, TypeInv, LiveEngines
<1>3. /\ attach'[e] = None
      /\ \A f \in Engines \ {e} : attach'[f] = attach[f] /\ poller'[f] = poller[f]
  BY Zenon DEF IInv, TypeInv
<1>4. TypeInv'
  BY TypesEngine, Zenon DEF IInv, TypeInv
<1>5. Attachments'
  <2>1. ASSUME NEW f \in Engines, attach'[f] # None
        PROVE  /\ f \in LiveEngines' /\ attach'[f] \in LiveEngines'
               /\ poller'[f] = poller'[attach'[f]]
    BY <1>2, <1>3, <2>1 DEF IInv, Attachments, LiveEngines
  <2>2. ASSUME NEW f \in LiveEngines', attach'[f] = None
        PROVE  poller'[f] = f
    BY <1>2, <1>3, <2>2, Zenon DEF IInv, Attachments, LiveEngines
  <2>3. ASSUME NEW S \in SUBSET LiveEngines', S # {}
        PROVE  \E f \in S : attach'[f] \notin S
    <3>1. PICK f \in S : attach[f] \notin S
      BY <1>2, <2>3, Zenon DEF IInv, Attachments
    <3> QED
      BY <1>2, <1>3, <3>1, Zenon DEF LiveEngines
  <2> QED
    BY <2>1, <2>2, <2>3, Zenon DEF Attachments
<1>6. Pollers'
  <2> DEFINE Served == {f \in LiveEngines \ {e} : poller[f] = e}
  <2>1. Served = {}
    <3> SUFFICES ASSUME Served # {} PROVE FALSE
      BY Zenon
    <3>1. PICK f \in Served : attach[f] \notin Served
      BY Zenon DEF IInv, Attachments
    <3>2. attach[f] # None
      BY <3>1, Zenon DEF IInv, Attachments
    <3>3. attach[f] \in LiveEngines /\ poller[attach[f]] = e /\ attach[f] # e
      BY <3>1, <3>2, Zenon DEF IInv, Attachments, LiveEngines
    <3> QED
      BY <3>1, <3>3, Zenon
  <2> QED
    BY <1>2, <1>3, <2>1 DEF IInv, Pollers, LiveEngines
<1>7. BlocksApart' /\ OwnBlocks' /\ HeapOwned' /\ LockedOwned'
  BY PoolsStay, Zenon
<1>8. TransfersLive'
  BY Zenon DEF IInv, TransfersLive, pool
<1> QED
  BY <1>4, <1>5, <1>6, <1>7, <1>8, Zenon DEF IInv

(* register_buffers, the submission of a transfer and its completion. *)
LEMMA RegisterStep ==
  ASSUME IInv, NEW e \in Engines, NEW p \in Pools, RegisterBuffers(e, p)
  PROVE  IInv'
<1> USE DEF RegisterBuffers
<1>1. TypeInv'
  BY TypesEngine, Zenon DEF IInv, TypeInv
<1>2. BlocksApart' /\ OwnBlocks' /\ HeapOwned' /\ LockedOwned'
  BY PoolsStay, Zenon
<1>3. TransfersLive'
  BY Zenon DEF IInv, TransfersLive, pool
<1>4. Attachments' /\ Pollers'
  BY EnginesStay, Zenon
<1> QED
  BY <1>1, <1>2, <1>3, <1>4, Zenon DEF IInv

LEMMA TransferStep ==
  ASSUME IInv, UNCHANGED <<pool, engine>>, TransfersLive'
  PROVE  IInv'
<1>1. TypeInv'
  BY TypesEngine, Zenon DEF IInv, TypeInv, engine
<1>2. BlocksApart' /\ OwnBlocks' /\ HeapOwned' /\ LockedOwned'
  BY PoolsStay, Zenon
<1>3. Attachments' /\ Pollers'
  BY EnginesStay, Zenon DEF engine
<1> QED
  BY <1>1, <1>2, <1>3, Zenon DEF IInv

LEMMA NextIInv == IInv /\ [Next]_vars => IInv'
<1> SUFFICES ASSUME IInv, [Next]_vars PROVE IInv'
  BY Zenon
<1>1. CASE UNCHANGED vars
  <2>1. TransfersLive'
    BY <1>1, Zenon DEF vars, pool, IInv, TransfersLive
  <2> QED
    BY <1>1, <2>1, TransferStep, Zenon DEF vars
<1>2. ASSUME NEW p \in Pools, Construct(p) PROVE IInv'
  BY <1>2, ConstructStep, Zenon
<1>3. ASSUME NEW p \in Pools, Allocate(p) PROVE IInv'
  <2>1. CASE Gone(p) /\ UNCHANGED heap
    BY <1>3, <2>1, AllocateFails, Zenon
  <2>2. CASE ~ (Gone(p) /\ UNCHANGED heap)
    <3>1. PICK n \in 0 .. HeapPages - 1 : Allocates(p, n)
      BY <1>3, <2>2, Zenon DEF Allocate, Allocates
    <3> QED
      BY <3>1, AllocateWorks, LifecycleAssumption
  <2> QED
    BY <2>1, <2>2, Zenon
<1>4. ASSUME NEW p \in Pools, Lock(p) PROVE IInv'
  <2>1. CASE heap' = heap \ {Block(p)} /\ Gone(p) /\ UNCHANGED locked
    BY <1>4, <2>1, FreeStep, Zenon DEF Lock, engine
  <2>2. CASE ~ (heap' = heap \ {Block(p)} /\ Gone(p) /\ UNCHANGED locked)
    BY <1>4, <2>2, LockWorks, Zenon DEF Lock
  <2> QED
    BY <2>1, <2>2, Zenon
<1>5. ASSUME NEW p \in Pools, Reserve(p) PROVE IInv'
  <2>1. CASE leaked' = leaked \union {Block(p)} /\ Gone(p)
    BY <1>5, <2>1, ReserveFails, Zenon DEF Reserve
  <2>2. CASE Goto(p, "live") /\ UNCHANGED <<args, base_, leaked>>
    BY <1>5, <2>2, ReserveWorks, Zenon DEF Reserve
  <2> QED
    BY <1>5, <2>1, <2>2, Zenon DEF Reserve
<1>6. ASSUME NEW p \in Pools, Destroy(p) PROVE IInv'
  <2>1. CASE ppc[p] = "live"
    BY <1>6, <2>1, UnlockStep, Zenon DEF Destroy
  <2>2. CASE ppc[p] = "free"
    BY <1>6, <2>2, FreeStep, Zenon DEF Destroy
  <2> QED
    BY <1>6, <2>1, <2>2, Zenon DEF Destroy
<1>7. ASSUME NEW e \in Engines, NEW a \in Engines \union {None}, ConstructEngine(e, a)
      PROVE  IInv'
  BY <1>7, ConstructEngineStep, Zenon
<1>8. ASSUME NEW e \in Engines, NEW p \in Pools, RegisterBuffers(e, p) PROVE IInv'
  BY <1>8, RegisterStep, Zenon
<1>9. ASSUME NEW e \in Engines, NEW p \in Pools, NEW i \in 0 .. args[p].count - 1,
             Submit(e, p, i)
      PROVE  IInv'
  <2>1. TransfersLive'
    BY <1>9 DEF Submit, pool, IInv, TransfersLive
  <2> QED
    BY <1>9, <2>1, TransferStep, Zenon DEF Submit
<1>10. ASSUME NEW e \in Engines, DestroyEngine(e) PROVE IInv'
  BY <1>10, DestroyEngineStep, Zenon
<1>11. ASSUME NEW t \in io, Complete(t) PROVE IInv'
  <2>1. TransfersLive'
    BY <1>11, Zenon DEF Complete, pool, IInv, TransfersLive
  <2> QED
    BY <1>11, <2>1, TransferStep, Zenon DEF Complete
<1> QED
  BY <1>1, <1>2, <1>3, <1>4, <1>5, <1>6, <1>7, <1>8, <1>9, <1>10, <1>11, Zenon DEF Next

(* The inductive invariant holds in every reachable state: memory has one   *)
(* owner, transfers use pools in use, and attachments end at a live engine. *)
THEOREM Inductive == Spec => []IInv
  BY InitIInv, NextIInv, PTL DEF Spec

-----------------------------------------------------------------------------
(* Where the buffers of a pool are.  The product of count and size must not *)
(* have wrapped around; then every buffer is inside the pool's block.       *)
LEMMA BufferInBlock ==
  ASSUME TypeInv, NEW p \in Holders, Fits(p), NEW i \in 0 .. args[p].count - 1
  PROVE  /\ Data(p, i) \in Nat /\ args[p].size \in Nat
         /\ base_[p] <= Data(p, i)
         /\ Data(p, i) + args[p].size <= base_[p] + Total(p)
<1> DEFINE c == args[p].count
           s == args[p].size
           x == i * s
<1>1. c \in Nat /\ s \in Nat /\ base_[p] \in Nat /\ i \in Nat /\ i < c
  BY DEF TypeInv, Holders
<1> HIDE DEF c, s
<1>2. x \in Nat /\ c * s \in Nat /\ x + s <= c * s
  BY <1>1, TimesLess, Zenon
<1>3. Total(p) = c * s
  <2>1. s * c = c * s /\ s * c < SizeMod
    BY <1>1 DEF Fits, s, c
  <2>2. Total(p) = (s * c) % SizeMod
    BY Zenon DEF Total, s, c
  <2> DEFINE y == c * s
  <2>3. y \in Nat /\ y < SizeMod /\ Total(p) = y % SizeMod
    BY <1>2, <2>1, <2>2, Zenon
  <2> HIDE DEF y
  <2>4. Total(p) = y
    BY <2>3, LifecycleAssumption
  <2> QED
    BY <2>4, Zenon DEF y
<1>4. Data(p, i) = base_[p] + x
  BY Zenon DEF Data, s
<1> HIDE DEF x
<1>5. /\ base_[p] + x \in Nat /\ base_[p] <= base_[p] + x
      /\ (base_[p] + x) + s <= base_[p] + c * s
  BY <1>1, <1>2
<1> QED
  BY <1>1, <1>3, <1>4, <1>5, Zenon DEF s

LEMMA BytesInBlock ==
  ASSUME TypeInv, NEW p \in Holders, Fits(p), NEW i \in 0 .. args[p].count - 1
  PROVE  Bytes(Data(p, i), args[p].size) \subseteq Bytes(base_[p], Total(p))
<1>1. base_[p] \in Nat /\ Total(p) \in Nat
  BY TotalType, Zenon DEF TypeInv, Holders
<1>2. /\ Data(p, i) \in Nat /\ args[p].size \in Nat
      /\ base_[p] <= Data(p, i)
      /\ Data(p, i) + args[p].size <= base_[p] + Total(p)
  BY BufferInBlock, Zenon
<1> QED
  BY <1>1, <1>2 DEF Bytes

LEMMA BufferAligned ==
  ASSUME TypeInv, NEW p \in Holders, NEW i \in 0 .. args[p].count - 1
  PROVE  Data(p, i) % PageSize = 0
<1> DEFINE s == args[p].size
<1>1. s \in Nat /\ i \in Nat /\ PageSize \in Nat \ {0}
  BY LifecycleAssumption DEF TypeInv, Holders
<1>2. s % PageSize = 0
  BY Zenon DEF TypeInv, Holders, Holding
<1> HIDE DEF s
<1>3. PICK k \in Nat : s = k * PageSize
  <2> DEFINE n == s \div PageSize
  <2>1. s = n * PageSize + (s % PageSize) /\ n \in Nat
    BY <1>1
  <2> HIDE DEF n
  <2>2. s = n * PageSize
    BY <1>1, <1>2, <2>1
  <2> QED
    BY <2>1, <2>2, Zenon
<1>4. PICK m \in Nat : base_[p] = m * PageSize
  BY Zenon DEF TypeInv, Aligned
<1>5. i * k \in Nat /\ i * (k * PageSize) = (i * k) * PageSize
  BY <1>1, <1>3
<1>6. Data(p, i) = m * PageSize + (i * k) * PageSize
  BY <1>3, <1>4, <1>5, Zenon DEF Data, s
<1> DEFINE j == i * k
<1> HIDE DEF j
<1>7. m * PageSize + j * PageSize = (m + j) * PageSize /\ m + j \in Nat
  BY <1>1, <1>4, <1>5 DEF j
<1>8. \A n \in Nat : (n * PageSize) % PageSize = 0
  BY <1>1
<1> QED
  BY <1>6, <1>7, <1>8, Zenon DEF j

LEMMA OneBlock ==
  ASSUME IInv, NEW p \in Holders, Fits(p),
         NEW i \in 0 .. args[p].count - 1, NEW j \in 0 .. args[p].count - 1, i < j
  PROVE  Bytes(Data(p, i), args[p].size) \intersect Bytes(Data(p, j), args[p].size) = {}
<1> DEFINE s == args[p].size
           x == i * s
           y == j * s
<1>1. s \in Nat /\ base_[p] \in Nat /\ i \in Nat /\ j \in Nat
  BY DEF IInv, TypeInv, Holders
<1> HIDE DEF s
<1>2. x \in Nat /\ y \in Nat /\ x + s <= y
  BY <1>1, TimesLess, Zenon
<1>3. Data(p, i) = base_[p] + x /\ Data(p, j) = base_[p] + y
  BY Zenon DEF Data, s
<1> HIDE DEF x, y
<1>4. \A b \in Nat : Bytes(b + x, s) \intersect Bytes(b + y, s) = {}
  BY <1>1, <1>2 DEF Bytes
<1> QED
  BY <1>1, <1>3, <1>4, Zenon DEF s

LEMMA DisjointBuffers == IInv => BuffersDisjoint
<1> SUFFICES ASSUME IInv,
                    NEW p \in Pools, ppc[p] = "live", Fits(p),
                    NEW q \in Pools, ppc[q] = "live", Fits(q),
                    NEW i \in 0 .. args[p].count - 1, NEW j \in 0 .. args[q].count - 1
             PROVE  /\ Data(p, i) % PageSize = 0
                    /\ <<p, i>> # <<q, j>> =>
                         Bytes(Data(p, i), args[p].size)
                           \intersect Bytes(Data(q, j), args[q].size) = {}
  BY Zenon DEF BuffersDisjoint
<1>1. p \in Holders /\ q \in Holders
  BY Zenon DEF Holders, Holding
<1>2. Data(p, i) % PageSize = 0
  BY <1>1, BufferAligned, Zenon DEF IInv
<1>3. ASSUME p # q
      PROVE  Bytes(Data(p, i), args[p].size) \intersect Bytes(Data(q, j), args[q].size) = {}
  <2>1. Block(p) \in heap /\ Block(q) \in heap /\ Block(p) # Block(q)
    BY <1>1, <1>3, Zenon DEF IInv, HeapOwned, OwnBlocks
  <2>2. /\ Bytes(Data(p, i), args[p].size) \subseteq Bytes(Block(p).base, Block(p).len)
        /\ Bytes(Data(q, j), args[q].size) \subseteq Bytes(Block(q).base, Block(q).len)
    BY <1>1, BytesInBlock, Zenon DEF IInv, Block
  <2>3. Room(Block(p)) \intersect Room(Block(q)) = {}
    BY <2>1, Zenon DEF IInv, BlocksApart
  <2> QED
    BY <2>2, <2>3, Zenon DEF Room
<1>4. ASSUME p = q, i # j
      PROVE  Bytes(Data(p, i), args[p].size) \intersect Bytes(Data(q, j), args[q].size) = {}
  <2>1. i < j \/ j < i
    BY <1>4
  <2>2. CASE i < j
    BY <1>1, <1>4, <2>2, OneBlock, Zenon
  <2>3. CASE j < i
    BY <1>1, <1>4, <2>3, OneBlock, Zenon
  <2> QED
    BY <2>1, <2>2, <2>3, Zenon
<1> QED
  BY <1>2, <1>3, <1>4, Zenon

LEMMA LockedTransfers == IInv => TransfersIntoLockedMemory
<1> SUFFICES ASSUME IInv, NEW t \in io, Fits(t.pool)
             PROVE  /\ Pages(Data(t.pool, t.index), args[t.pool].size) \subseteq locked
                    /\ \E b \in heap : Bytes(Data(t.pool, t.index), args[t.pool].size)
                                         \subseteq Bytes(b.base, b.len)
  BY Zenon DEF TransfersIntoLockedMemory
<1> DEFINE p == t.pool
           i == t.index
<1>1. /\ p \in Pools /\ i \in 0 .. args[p].count - 1
      /\ p \in Holders /\ p \in Lockers
  BY Zenon DEF IInv, TransfersLive, Holders, Holding, Lockers, Locking
<1> HIDE DEF p, i
<1>2. Bytes(Data(p, i), args[p].size) \subseteq Bytes(base_[p], Total(p))
  BY <1>1, BytesInBlock, Zenon DEF IInv, p
<1>3. Pages(Data(p, i), args[p].size) \subseteq locked
  <2>1. Pages(Data(p, i), args[p].size) \subseteq Pages(base_[p], Total(p))
    BY <1>2, Zenon DEF Pages
  <2> QED
    BY <1>1, <2>1, Zenon DEF IInv, LockedOwned
<1>4. /\ Block(p) \in heap
      /\ Bytes(Data(p, i), args[p].size) \subseteq Bytes(Block(p).base, Block(p).len)
  BY <1>1, <1>2, Zenon DEF IInv, HeapOwned, Block
<1> QED
  BY <1>3, <1>4, Zenon DEF p, i

(* Whatever other pools are built, fail or are destroyed meanwhile, a       *)
(* transfer in flight only touches memory that BufferPool allocated and     *)
(* keeps locked.                                                            *)
THEOREM TransfersStayLocked == Spec => []TransfersIntoLockedMemory
  BY Inductive, LockedTransfers, PTL

(* No two buffers overlap, of one pool or of two, and data(index) is always *)
(* on a page boundary.                                                      *)
THEOREM NoOverlap == Spec => []BuffersDisjoint
  BY Inductive, DisjointBuffers, PTL

(* Whatever step of a constructor fails, all that is allocated or locked    *)
(* belongs to a pool, except the memory of a constructor that threw from    *)
(* iovecs_.reserve.                                                         *)
THEOREM OnlyOneLeak == Spec => []OnlyReserveLeaks
<1>1. IInv => OnlyReserveLeaks
  <2> SUFFICES ASSUME IInv PROVE OnlyReserveLeaks
    BY Zenon
  <2> DEFINE Owned(labels) == {Block(p) : p \in {q \in Pools : ppc[q] \in labels}}
             PagesOf(blocks) == UNION {Pages(b.base, b.len) : b \in blocks}
  <2>1. heap = Owned({"lock", "reserve", "live", "free"}) \union leaked
    BY Zenon DEF IInv, HeapOwned, Holders, Holding
  <2>2. Owned({"reserve", "live"}) = {Block(p) : p \in Lockers}
    BY Zenon DEF Lockers, Locking
  <2>3. \A n : n \in locked <=> \/ \E p \in Lockers : n \in Pages(Block(p).base, Block(p).len)
                                \/ \E b \in leaked : n \in Pages(b.base, b.len)
    BY OwnPages, Zenon DEF IInv, LockedOwned
  <2>4. locked = PagesOf({Block(p) : p \in Lockers} \union leaked)
    BY <2>3, Zenon
  <2> QED
    BY <2>1, <2>2, <2>4, Zenon DEF OnlyReserveLeaks
<1> QED
  BY <1>1, Inductive, PTL

(* There is exactly one polling thread for every engine without attach_to,  *)
(* over any chain of attachments and any order of destruction that respects *)
(* "attach_to must outlive this engine".                                    *)
THEOREM OnePoller == Spec => []OnePollerPerFamily
<1>1. IInv => OnePollerPerFamily
  <2> SUFFICES ASSUME IInv
               PROVE  {poller[e] : e \in LiveEngines} = {e \in LiveEngines : attach[e] = None}
    BY Zenon DEF OnePollerPerFamily, LiveEngines
  <2>1. \A e \in LiveEngines : poller[e] \in LiveEngines /\ attach[poller[e]] = None
    BY Zenon DEF IInv, Pollers
  <2>2. \A e \in LiveEngines : attach[e] = None => poller[e] = e
    BY Zenon DEF IInv, Attachments
  <2> QED
    BY <2>1, <2>2
<1> QED
  BY <1>1, Inductive, PTL
=============================================================================
