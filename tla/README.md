# A TLA+ model of ringio

ringio (`src/include/ringio`) is a C++20 header library for asynchronous block
I/O on Linux: a pool of page-locked buffers, two lock-free rings, and an engine
that feeds an io_uring whose submission queue is polled by a kernel thread
(SQPOLL). This directory models the parts whose correctness rests on the order
of steps of several threads, checks them with TLC on small instances, and proves
their safety properties and refinements for every size with TLAPS.

## 1. Inventory

    clients --SpscRing/MpmcRing<IoRequest>--> drain_and_submit --SQ--> poller
       |  ^                                                              |
    acquire|release (BufferPool)                                       device
       v  |                                                              |
    clients <--SpscRing/MpmcRing<IoCompletion>-- harvest_completions <--CQ

| Part | State | Operations | What makes it hard | What makes it correct |
|---|---|---|---|---|
| `BufferPool` free list | `free_head_` (tag, index), `free_next_` | `acquire`, `release` | ABA between load and compare-and-swap, stale links, tag wraparound, spurious failures | a linearizable stack; no buffer with two holders, none lost; lock-free |
| `BufferPool` lifecycle | `base_`, `locked_`, `iovecs_` | constructor, destructor, `data`, `register_with` | failure between two steps, memory that changes hands between pools, product overflow | buffers are disjoint, allocated and locked while in use; nothing leaks |
| `SpscRing` | `head_`, `tail_`, `buffer_` | `try_push`, `try_pop` | each side sees an old copy of the other's cursor; wraparound | bounded FIFO; no race on a slot |
| `MpmcRing` | cursors, per-slot sequence numbers and values | `try_push`, `try_pop` | a thread stalled between claim and hand-over; stale cursors; signed difference | bounded FIFO up to overlapping calls; one owner per slot |
| `SqpollEngine` I/O | SQ, CQ, poller | `drain_and_submit`, `harvest_completions` | poller sleep and wake-up; full queues; completions in any order | every request answered once; no buffer in two places |
| `SqpollEngine` lifecycle | the ring, the poller it shares | constructor (`attach_to`), destructor, registration | lifetimes of engines that share a poller | a poller outlives the engines attached to it |
| Core-budget experiment | rings, worker threads, shared poller | `main`, `RunWorkload` | one poller asleep or awake for several rings, failing waits and wake-ups, an entry taken from a full queue, teardown order | one operation outstanding per worker; it ends |
| Benchmarks | pipelines over the above | closed submit/reap loops | bursts that start with requests in flight; teardown | the depth is kept; no transfer into freed memory |
| `CacheLinePadded`, `IoRequest`, `IoCompletion` | layout and plain data | none | none | none to state |

`PROJECT.json` lists the hazards with the line where each one bites.

## 2. Modules

| Module | Models | Correspondence |
|---|---|---|
| `FreeStack` | what `acquire` and `release` promise | an atomic stack; calls, effects and returns |
| `BufferPool` | the free list | one action per access to shared memory; `pc[t]` is the next access, `head[t]`, `next[t]`, `index[t]` the locals of the same name |
| `BufferPoolProofs` | | proofs about `BufferPool` |
| `BoundedFifo` | what the rings promise | an atomic bounded queue; `failure_mode` says when a call may fail: "exact", "overlap" or "any" |
| `SpscRing` | the class | `phead` and `ctail` are the last copies of the other side's cursor; `stale` says whether a load may return an old value |
| `SpscRingProofs` | | proofs about `SpscRing` |
| `MpmcRing` | the class | as `BufferPool`; `queue` is a history variable |
| `MpmcRingInv` | | its inductive invariant: initial states, every step but the two claims, what it implies |
| `MpmcRingProofs` | | the claims, the theorems about `MpmcRing`, then those about `HarvestMpmc` |
| `SqpollEngine` | `drain_and_submit`, `harvest_completions` and their surroundings | one action per loop step; poller, device and clients are external and act between any two of them; `setup` holds the sizes of one behaviour; `Prep` turns a request into a kernel opcode, `asked` remembers what its client wanted |
| `SqpollEngineInv` | | lemmas on counting, its inductive invariant |
| `SqpollEngineProofs` | | one lemma per step, the theorems about `SqpollEngine` |
| `HarvestMpmc` | `harvest_completions` into an `MpmcRing` | extends `MpmcRing`: the engine's thread is its producer and the clients its consumers, access by access |
| `Lifecycle` | constructors and destructors of `BufferPool` and `SqpollEngine`, `data`, `register_buffers` | one action per system call, each with its failure; the heap, the locked pages and the transfers in flight are explicit |
| `LifecycleProofs` | | proofs about `Lifecycle` |
| `CoreBudget` | `experiments/sqpoll_core_budget.cpp` | `mpc` and `i` are the loop `main` is in, `wpc[t]` the next step of worker `t`; `faults` says which system calls may fail in this behaviour |
| `CoreBudgetProofs` | | proofs about `CoreBudget` |
| `MC...` | | symmetry sets for TLC |

History variables (`stack`, `age`, `queue` in `MpmcRing`, `lost`, `dropped`,
`leaked`, `asked`)
record what happened. Only `age` appears in a guard, in the bound `TagWindow`.
Some variables never change and are chosen in `Init` (`stale`, `setup`, `active`,
`mode`, `faults`): one run then covers all their values.
Definitions with an underscore and a suffix (`NextTag_NoTag`) are deliberately
wrong variants, used by nothing: each is put in place of the definition it is
named after to confirm that a property notices.

Memory model. The atomics of `BufferPool` and `MpmcRing` are sequentially
consistent in the model. For the pool the comment at the top of the module argues
that this loses nothing. For `MpmcRing` it is an assumption: relaxed loads of the cursors may
be older than the model's, but the compare-and-swap rejects an old one, and the
values are ordered by acquire and release on the sequence number. `SpscRing` is
checked both ways; with `stale` a load may return any value since the last one
seen.

Rules that `Lifecycle` takes from the callers: `attach_to` outlives the engine
(documented), and an object is destroyed only when none of its requests is in
flight (not documented; see the hazard at `sqpoll_engine.hpp:114`).

## 3. Runs

States are distinct states found.

| Run | Instance | Checks | States |
|---|---|---|---|
| `pool` | 3 threads, 3 buffers, tags mod 4, spurious failures | `TypeOK`, `NeverDoubleIssued`, `ChainIsStack`, `OnePlace`, `LocalsAgree`, `InvalidOnlyWhenExhausted`, `ImplementsFreeStack` | 276,536 |
| `pool_live` | 3 threads, 2 buffers | `LockFree` | 43,452 |
| `spsc` | capacity 4, counters mod 8, current loads and stale loads | `TypeOK`, `CursorsInOrder`, `NoDataRace`, `ImplementsBoundedFifo` (exact; any when stale), `Delivered` | 146,360 |
| `mpmc` | 2+2 threads, capacity 2, counters mod 8, any overflow, spurious failures | `TypeOK`, `NoDataRace`, `SlotOwnership`, `ImplementsBoundedFifo` (any) | 1,044,877 |
| `mpmc_live` | 3 threads, one of them both producer and consumer | `ImplementsBoundedFifo` (overlap), `Delivered`, `RetriesOnlyUnderContention` | 91,641 |
| `mpmc_one` | capacity 1 | violates `NeverOverfull` | |
| `engine` | 1 to 3 buffers, 1 and 4 entries, completion ring of 2 and 4, with and without failing wake-ups | `TypeOK`, `OnePlace`, `IoAsRequested`, `NoRequestLost`, `NoCompletionDropped`, `CqFits`, `SleepIsSafe`, `EveryRequestAnswered` | 527,136 |
| `engine_lost` | more requests than entries | violates `FullQueueLosesNothing` | |
| `harvest_mpmc` | 1 and 2 consumers, as many slots as tokens | `OneToken`, `OneConsumerDropsNothing`, `DropsOnlyBehindStalledPop`, `EveryCompletionEnds` | 542,464 |
| `lifecycle` | 2 pools, 3 engines, 4 pages, sizes mod 8 | `TransfersIntoLockedMemory`, `BuffersDisjoint`, `OnlyReserveLeaks`, `OnePollerPerFamily` | 337,173 |
| `core_budget` | 2 workers, separate and shared poller, 2 entries; no failing call, failing waits, failing wake-ups | `SingleOutstanding`, `SleepIsSafe`, `RingsOutliveWorkers`, `Terminates` | 184,760 |
| `core_budget_wait` | 1 worker, failing waits | violates `NeverTwoOutstanding` | |

What the three compositions show:

- `harvest_mpmc`: a completion ring with room for every token is enough with one
  consumer. With two it is not: a consumer stalled between its claim and its
  hand-over keeps a slot while the other empties the ring, and the push that
  comes round to the slot is refused and its completion dropped.
  `DropsOnlyBehindStalledPop` says that nothing else makes it refuse.
- `lifecycle`: the constructor's failure paths clean up except the last
  (`iovecs_.reserve`), and the destructor's order, unlock before free, matters as
  soon as another thread allocates in between.
- `core_budget`: while waits succeed the loop is what its comment says, and the
  pointer of `io_uring_get_sqe` that it does not check is never null. A wait
  that fails is counted as an operation done. It leaves one outstanding for good
  (`core_budget_wait`), every later latency is that of an earlier operation, and
  enough of them fill the submission queue, which ends the process
  (`SubmitNull`). A wake-up that fails can leave a worker waiting for ever, and
  `main` with it: such behaviours stop short of an end, so the run does not look
  for deadlocks, and `Terminates` says that there is no other way to get stuck.

### Bounds

- Pool: ABA needs three head changes while one thread is stalled (pop A, pop B,
  push A), hence three buffers and tags mod 4, which let a thread be three
  changes old. `TagWindow` excludes a stall of `TagMod` changes (2^32 in the
  code), after which the tag does repeat: that is a limit of the algorithm. It
  restricts only threads other than the one that swaps, so it never hides a
  swap that should have failed.
- `MpmcRing`: `StaleBound` lets a cursor copy be a whole lap old with counters
  mod 8. Beyond half the counter (2^63) the signed difference changes sign.
- `SpscRing`: the counters wrap after two laps of the ring, so full, empty and every fill in between meet wraparound.
- Engine: pools of 1 to 3 buffers against 1 or 4 entries, a completion ring of
  2 or 4 and a request ring and batches of 2 make every queue more than
  sufficient, exactly sufficient and too small in some
  behaviour; each property states its condition on the sizes. No symmetry is
  used, as the run checks liveness.
- `harvest_mpmc`: two tokens and two slots, so that one token comes round to the
  slot of the pop that is stalled on the other; counters mod 8.
- `lifecycle`: two pools compete for four pages, so memory changes hands between
  them and sits side by side; three engines make chains of attachments. One
  transfer in flight (`MaxInFlight`) suffices, as the properties speak of one at
  a time. The sizes contain products that fit, that wrap to zero and that wrap
  to something smaller, and one that is not a multiple of the page size.
- `core_budget`: three operations per worker, so that two failed waits can
  precede a regular one, and two entries (256 in the code), so that they fill
  the queue; two workers share a poller or not. `num_threads` is at
  least 1: 0 makes `init_ring(0)` index an empty vector.

### Fairness

- `LockFree`: weak fairness of the whole next-state relation. The scheduler runs
  somebody; no thread is promised anything.
- `SpscRing`: the consumer keeps polling, and a store becomes visible to it
  after finitely many loads. The producer may stop anywhere.
- `MpmcRing`: threads inside a call keep running and consumers keep polling.
  Without the first, a producer that stops after its claim blocks the ring.
- Engine: its thread alternates between both functions for ever (strong
  fairness, as each is only enabled between two calls), clients pop
  completions, the poller runs and the device answers.
- `harvest_mpmc`: the same for its three parties, each consumer on its own.
- `core_budget`: `main`, each worker and the kernel's threads keep running and
  the device answers. The deadline of a worker comes after at most `MaxOps`
  operations. `Terminates` is stated for wake-ups that succeed.

### Disagreements between comments and code

Shown by a run of their own:

1. `sqpoll_engine.hpp:127` (`engine_lost`): a request popped when the submission
   queue is full is lost with its buffer; the comments speak of a retry.
2. `mpmc_ring.hpp:24` (`mpmc_one`): `Capacity` 1 is accepted, and a push then
   overwrites the value that is there.
3. `sqpoll_core_budget.cpp:94` (`core_budget_wait`) speaks of a single
   outstanding operation. The result of `io_uring_wait_cqe` (line 119) is
   ignored, so a wait that fails leads to a second one with the same `buf`, which
   may be gone before they are done.

Met while modelling, without a run:

4. `buffer_pool.hpp:153` says that `acquire` hands out index 0 first. The list
   the constructor builds (`Init`) has the last index on top.
5. `mpmc_ring.hpp:72` calls a failing `try_pop` "empty". With "exact" for
   "overlap" in `MpmcRing`, TLC refutes `ImplementsBoundedFifo` by a pop that
   fails while a push has claimed its slot and not handed it on. `try_pop` looks
   at no later slot, so values behind it are out of reach too.
6. `sqpoll_engine.hpp:172` asks for an `out_queue` of `max_batch`. With a
   completion ring of 2, the `MaxBatch` of `engine`, TLC refutes `dropped = {}`:
   two harvests run before the ring is drained. `NoCompletionDropped` is stated
   for a ring as large as the pool. With an `MpmcRing` and several
   consumers no size is enough (`harvest_mpmc`).
7. `buffer_pool.hpp:149`: the constructor frees its memory when `mlock` fails
   and not when `iovecs_.reserve` throws (`OnlyReserveLeaks`).
8. `buffer_pool.hpp:132`: the product of size and count is not checked, and
   without `Fits` TLC refutes `TransfersIntoLockedMemory`: a pool is constructed
   whose buffers lie outside its memory.

## 4. Proofs

Every safety property, action property and refinement of section 3 is also a
theorem, for every value of the constants that the last column of the table
admits. `PROJECT.json` lists them. Each component has an inductive invariant:
`IInv`, and `HInv` for `HarvestMpmc`. The proof is the same everywhere: the
initial states satisfy it, one lemma per action says that it is preserved, and it
implies the properties.

| About | Theorems | Assumed |
|---|---|---|
| `BufferPool` | `TypeCorrect`, `ExclusiveOwnership`, `ChainIntact`, `NoBufferLost`, `LocalsStayValid`, `FailsOnlyWhenExhausted`, `Linearizable` | `PoolAssumption`: fewer buffers than indices, any tag width |
| `SpscRing` | `Types`, `CursorsStayInOrder`, `RaceFree`, `Refinement` | `SpscAssumption`: the capacity divides the counter's range |
| `MpmcRing` | `TypeCorrect`, `RaceFree`, `SlotsOwnedOnce`, `HoldsCapacity`, `Refinement` | `MpmcAssumption`: likewise, and four laps fit into the range; capacity above one |
| `HarvestMpmc` | `HarvestKeepsTokens`, `HarvestDropsBehindPop`, `HarvestDropsNothing` | also `HarvestAssumption`, and the engine is a producer; the last two: signed overflow wraps, finitely many tokens and (the last) consumers |
| `SqpollEngine` | `Types`, `BufferInOnePlace`, `KernelToldWhatWasAsked`, `NothingLost`, `NothingDropped`, `CompletionQueueFits`, `NoWakeupMissed` | `EngineAssumption`: finitely many buffers, sizes above zero |
| `Lifecycle` | `TransfersStayLocked`, `NoOverlap`, `OnlyOneLeak`, `OnePoller` | `LifecycleAssumption`: the page size divides the range of `std::size_t` |
| `CoreBudget` | `OneOperationPerWorker`, `PollerSleepsSafely`, `NothingTornDownEarly` | `CoreBudgetAssumption`: at least one thread |

All are about the models, so those about `BufferPool` hold under `TagWindow` and
those about `MpmcRing` and `HarvestMpmc` under `StaleBound`.

**BufferPool.** Exclusive ownership is not inductive: that the popped buffer is
nobody's depends on the chain being the stack, which depends on the link a
stalled thread has read still being right when its compare-and-swap succeeds.
`IInv` adds these: `ChainIsStack`, `OnePlace`, and `LocalsAgree`, which says that
the tag has moved by exactly the number of head changes since the load. An equal
head then means no change at all (`TagReturns`), so the link is current.
`release` needs no tag: it has stored the index it compares with, and whatever
happened in between, the link is to the index on top. `Linearizable` maps each
compare-and-swap that succeeds, and each load that finds the list empty, to a
step of `FreeStack`, and every other step to a call or a stutter.

**SpscRing.** `CursorsInOrder` puts the cursors and both stale copies in the
order in which the code relies on them, as distances modulo the counter's range.
`ValuesInPlace` says that the slots between the cursors hold the queue. The
lemmas at the start turn remainders into linear arithmetic: two positions less
than a lap apart have different slots.

**MpmcRing.** `SlotsInv` gives the sequence number of every position of the lap
from `dequeue_pos_`: filled or owned by a push up to `enqueue_pos_`, free or
owned by a pop beyond it. `OwnersInv` says that an owner's position is its own.
`ClaimsInv` is what a compare-and-swap relies on: if the cursor has not moved
since the load, neither has the sequence number. It survives the steps of others
only while a copy of a cursor is less than the counter's range old (`WindowInv`).
`ValuesInv` relates slots and owners to `queue`. A capacity of one is excluded
because there the two sequence numbers of `SlotsInv` coincide: the proof fails
at that point, and `mpmc_one` shows the behaviour. In the refinement a push takes
effect when it claims its position and a pop when it claims its own, and
`PushFails` and `PopFails` show what a call that gives up has met.

**HarvestMpmc.** `HInv` is `IInv` with `Tokens`, which says that every token is
in one of six places, and `Distinct`, by which none is twice in one place. A pop
takes the head of `queue` when it claims and keeps it in a slot that nobody
writes (`ClaimTakesHead`, `WriteKeepsValues`). A refused push has found the ring
full or a pop in its slot (`RefusedPush`). With no more tokens than slots the
first is impossible: the queue and the token in the engine's hand are too many
distinct ones (`RoomForAll`). With one consumer so is the second, because the
ring behind its pop is then full but for one slot (`AlmostFull`).

**SqpollEngine.** `Places` counts, for each buffer, its occurrences with the
clients, in every queue, in the request being prepared and in the kernel: they
add up to one. A completion that was walked over stays in the completion queue
until the harvest ends, when its buffer may already be requested again, so
`KernelOnce` says separately that the kernel sees a buffer once. A queue over
distinct buffers is no longer than the pool, which is why nothing is lost,
dropped or overflows when the sizes suffice. `AsAsked` follows a request
from the ring to the device: before `Prep` it carries the client's `op`, after
it the opcode that belongs to it. That no push changes `asked` under an entry on
its way is a consequence of `Places` (`OnTheWay`). `Locals` is the state of the two
loops between their steps.

**Lifecycle.** `HeapOwned` and `LockedOwned` say that all memory allocated or
locked belongs to one pool, under construction or not, or was leaked by
`iovecs_.reserve`. `BlocksApart` and the lemmas on pages then give that
unlocking one pool's pages unlocks no other's. `Attachments` says that no chain
of attachments is closed and `Pollers` that each ends in a live engine, whose
poller all of the chain share.

**CoreBudget.** `MainInv` ties the loop `main` is in to what exists. `Unstarted`
says that the ring of a worker that does not run yet is empty, which a poller
that sleeps when the ring is added relies on.

Only model-checked: liveness (`LockFree`, `Delivered`,
`RetriesOnlyUnderContention`, `EveryRequestAnswered`, `EveryCompletionEnds`,
`Terminates`), since fairness and `ENABLED` are out of the prover's reach. The three
runs that end in a violation have nothing to prove.

## 5. Not modelled, and the plan

1. The pipelines of `iops_throughput_benchmark.cpp`. Within one burst they are
   clients of the kind `SqpollEngine` has. Across bursts, the next one starts
   with the requests of the last one still in flight, and the pool, declared
   after the engine, is destroyed before it: hazards listed without a property.
2. `register_files` and `io_uring_register_ring_fd`: they change tables of the
   kernel that no other operation of the library reads.
3. Proofs of liveness, which stay with TLC.

Outside the model for good: layout and padding, CPU affinity, percentiles and reporting, and
the kernel beyond what the engine relies on.
