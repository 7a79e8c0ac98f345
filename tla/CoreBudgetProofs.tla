-------------------------- MODULE CoreBudgetProofs --------------------------
(***************************************************************************)
(* Proofs about CoreBudget.tla, for any number of workers and operations,  *)
(* separate and shared pollers, waits and wake-ups that fail or do not.    *)
(* What the workers may rely on depends on where main is: MainInv says     *)
(* which rings, files, pollers and workers there are at each of its loops. *)
(* With it, IInv is inductive.                                             *)
(***************************************************************************)
EXTENDS CoreBudget, TLAPS

(* The loops of main that come before, between and after the two steps that *)
(* matter to a worker: its start and its join.                              *)
Labels ==
  {"open", "init", "spawn", "join", "exit", "close", "done", "failed", "crashed"}

TypeInv ==
  /\ mode \in Modes /\ faults \in SUBSET {"wait", "wake"}
  /\ mpc \in Labels /\ i \in Threads
  /\ fds \in SUBSET Threads
  /\ rings \in [Threads -> {"none", "up", "exited"}]
  /\ wpc \in [Threads -> {"none", "loop", "wake", "wait", "returned"}]
  /\ ops \in [Threads -> Nat]
  /\ sq \in [Threads -> Nat]
  /\ inflight \in [Threads -> Nat]
  /\ cq \in [Threads -> Nat]
  /\ poller \in [Threads -> {"none", "polling", "flagged", "asleep"}]

(* Where main is, for each thread t. *)
MainInv ==
  \A t \in Threads :
    /\ mpc \in {"open", "init", "failed"} => wpc[t] = "none"
    /\ mpc = "open" => rings[t] = "none" /\ (t < i => t \in fds)
    /\ mpc = "init" =>
         /\ rings[t] = IF t < i THEN "up" ELSE "none"
         /\ t \in fds
         /\ t < i => poller[PollerOf(t)] # "none"
    /\ mpc \in {"spawn", "join", "crashed"} =>
         /\ rings[t] = "up" /\ t \in fds
         /\ poller[PollerOf(t)] # "none"
    /\ mpc = "spawn" /\ i <= t => wpc[t] = "none"
    /\ mpc = "join" /\ t < i => wpc[t] = "returned"
    /\ mpc \in {"exit", "close", "done"} => wpc[t] = "returned"

(* A worker that has not been started has submitted nothing. *)
Unstarted ==
  \A t \in Threads : wpc[t] = "none" => sq[t] = 0 /\ inflight[t] = 0 /\ cq[t] = 0

IInv ==
  /\ TypeInv
  /\ MainInv
  /\ Unstarted
  /\ SingleOutstanding
  /\ SleepIsSafe

-----------------------------------------------------------------------------
(* Ring 0 serves ring 0, and the poller of a ring belongs to a ring. *)
LEMMA Pollers ==
  /\ 0 \in Threads
  /\ \A t \in Threads : PollerOf(t) \in Threads
  /\ PollerOf(0) = 0
  BY CoreBudgetAssumption DEF Threads, PollerOf

LEMMA InitIInv == Init => IInv
  BY Pollers, CoreBudgetAssumption
  DEF Init, IInv, TypeInv, MainInv, Unstarted, SingleOutstanding, SleepIsSafe,
      Labels, Threads

(* The loops of main visit every thread once, in order. *)
LEMMA LoopOverThreads ==
  /\ Threads \subseteq Nat
  /\ \A n \in Threads :
       /\ n + 1 < num_threads => n + 1 \in Threads
       /\ ~ (n + 1 < num_threads) => \A t \in Threads : t <= n
  BY CoreBudgetAssumption DEF Threads

-----------------------------------------------------------------------------
(* Every action preserves the invariant.  The steps of main ...             *)
LEMMA MakeScratchFileStep ==
  ASSUME IInv, MakeScratchFile
  PROVE  IInv'
<1> USE Pollers, LoopOverThreads DEF MakeScratchFile, NextIteration, Fail, IInv, TypeInv, main, worker, kernel
<1>1. TypeInv'
  BY Zenon DEF Labels
<1>2. MainInv'
  BY DEF MainInv, PollerOf
<1>3. Unstarted'
  BY DEF Unstarted, MainInv
<1>4. SingleOutstanding'
  BY DEF SingleOutstanding, Unstarted, MainInv
<1>5. SleepIsSafe'
  BY DEF SleepIsSafe, SingleOutstanding, Unstarted, MainInv, Served, PollerOf
<1> QED
  BY <1>1, <1>2, <1>3, <1>4, <1>5

LEMMA InitRingStep ==
  ASSUME IInv, init_ring
  PROVE  IInv'
<1> USE Pollers, LoopOverThreads DEF init_ring, NextIteration, Fail, IInv, TypeInv, main, worker, kernel
<1>1. TypeInv'
  BY DEF Labels
<1>2. MainInv'
  BY DEF MainInv, PollerOf
<1>3. Unstarted'
  BY DEF Unstarted, MainInv
<1>4. SingleOutstanding'
  BY DEF SingleOutstanding, Unstarted, MainInv
<1>5. SleepIsSafe'
  BY DEF SleepIsSafe, SingleOutstanding, Unstarted, MainInv, Served, PollerOf
<1> QED
  BY <1>1, <1>2, <1>3, <1>4, <1>5

LEMMA SpawnStep ==
  ASSUME IInv, Spawn
  PROVE  IInv'
<1> USE Pollers, LoopOverThreads DEF Spawn, NextIteration, IInv, TypeInv, main, worker, kernel
<1>1. TypeInv'
  BY DEF Labels
<1>2. MainInv'
  BY DEF MainInv, PollerOf
<1>3. Unstarted'
  BY DEF Unstarted, MainInv
<1>4. SingleOutstanding'
  BY DEF SingleOutstanding, Unstarted, MainInv
<1>5. SleepIsSafe'
  BY DEF SleepIsSafe, SingleOutstanding, Unstarted, MainInv, Served, PollerOf
<1> QED
  BY <1>1, <1>2, <1>3, <1>4, <1>5

LEMMA JoinStep ==
  ASSUME IInv, Join
  PROVE  IInv'
<1> USE Pollers, LoopOverThreads DEF Join, NextIteration, IInv, TypeInv, main, worker, kernel
<1>1. TypeInv'
  BY DEF Labels
<1>2. MainInv'
  BY DEF MainInv, PollerOf
<1>3. Unstarted'
  BY DEF Unstarted, MainInv
<1>4. SingleOutstanding'
  BY DEF SingleOutstanding, Unstarted, MainInv
<1>5. SleepIsSafe'
  BY DEF SleepIsSafe, SingleOutstanding, Unstarted, MainInv, Served, PollerOf
<1> QED
  BY <1>1, <1>2, <1>3, <1>4, <1>5

LEMMA ExitStep ==
  ASSUME IInv, Exit
  PROVE  IInv'
<1> USE Pollers, LoopOverThreads DEF Exit, NextIteration, IInv, TypeInv, main, worker, kernel
<1>1. TypeInv'
  BY DEF Labels
<1>2. MainInv'
  BY DEF MainInv, PollerOf
<1>3. Unstarted'
  BY DEF Unstarted, MainInv
<1>4. SingleOutstanding'
  BY DEF SingleOutstanding, Unstarted, MainInv
<1>5. SleepIsSafe'
  BY DEF SleepIsSafe, SingleOutstanding, Unstarted, MainInv, Served, PollerOf
<1> QED
  BY <1>1, <1>2, <1>3, <1>4, <1>5

LEMMA CloseStep ==
  ASSUME IInv, Close
  PROVE  IInv'
<1> USE Pollers, LoopOverThreads DEF Close, NextIteration, IInv, TypeInv, main, worker, kernel
<1>1. TypeInv'
  BY DEF Labels
<1>2. MainInv'
  BY DEF MainInv, PollerOf
<1>3. Unstarted'
  BY DEF Unstarted, MainInv
<1>4. SingleOutstanding'
  BY DEF SingleOutstanding, Unstarted, MainInv
<1>5. SleepIsSafe'
  BY DEF SleepIsSafe, SingleOutstanding, Unstarted, MainInv, Served, PollerOf
<1> QED
  BY <1>1, <1>2, <1>3, <1>4, <1>5

-----------------------------------------------------------------------------
(* ... those of the workers ...                                             *)
LEMMA SubmitStep ==
  ASSUME IInv, NEW t \in Threads, Submit(t)
  PROVE  IInv'
<1> USE Pollers, LoopOverThreads DEF Submit, IInv, TypeInv, main, worker, kernel
<1>1. TypeInv'
  BY DEF Labels
<1>2. MainInv'
  BY DEF MainInv, PollerOf
<1>3. Unstarted'
  BY DEF Unstarted, MainInv
<1>4. SingleOutstanding'
  <2>1. ASSUME "wait" \notin faults, NEW u \in Threads
        PROVE  sq'[u] + inflight[u] + cq[u] = IF wpc'[u] \in {"wake", "wait"} THEN 1 ELSE 0
    <3>1. sq[u] + inflight[u] + cq[u] = IF wpc[u] \in {"wake", "wait"} THEN 1 ELSE 0
      BY <2>1, Zenon DEF SingleOutstanding
    <3> QED
      BY <3>1
  <2> QED
    BY <2>1, Zenon DEF SingleOutstanding
<1>5. SleepIsSafe'
  BY DEF SleepIsSafe, SingleOutstanding, Unstarted, MainInv, Served, PollerOf
<1> QED
  BY <1>1, <1>2, <1>3, <1>4, <1>5

LEMMA SubmitNullStep ==
  ASSUME IInv, NEW t \in Threads, SubmitNull(t)
  PROVE  IInv'
<1> USE Pollers, LoopOverThreads DEF SubmitNull, IInv, TypeInv, main, worker, kernel
<1>1. TypeInv'
  BY DEF Labels
<1>2. MainInv'
  BY DEF MainInv, PollerOf, Labels
<1>3. Unstarted'
  BY DEF Unstarted, MainInv
<1>4. SingleOutstanding'
  <2>1. sq[t] > 0
    BY CoreBudgetAssumption
  <2> QED
    BY <2>1 DEF SingleOutstanding
<1>5. SleepIsSafe'
  BY DEF SleepIsSafe, SingleOutstanding, Unstarted, MainInv, Served, PollerOf
<1> QED
  BY <1>1, <1>2, <1>3, <1>4, <1>5

LEMMA WakeStep ==
  ASSUME IInv, NEW t \in Threads, Wake(t)
  PROVE  IInv'
<1> USE Pollers, LoopOverThreads DEF Wake, IInv, TypeInv, main, worker, kernel
<1>1. TypeInv'
  BY DEF Labels
<1>2. MainInv'
  BY DEF MainInv, PollerOf
<1>3. Unstarted'
  BY DEF Unstarted, MainInv
<1>4. SingleOutstanding'
  BY DEF SingleOutstanding, Unstarted, MainInv
<1>5. SleepIsSafe'
  BY DEF SleepIsSafe, SingleOutstanding, Unstarted, MainInv, Served, PollerOf
<1> QED
  BY <1>1, <1>2, <1>3, <1>4, <1>5

LEMMA WaitCqeStep ==
  ASSUME IInv, NEW t \in Threads, WaitCqe(t)
  PROVE  IInv'
<1> USE Pollers, LoopOverThreads DEF WaitCqe, IInv, TypeInv, main, worker, kernel
<1>1. TypeInv'
  BY DEF Labels
<1>2. MainInv'
  BY DEF MainInv, PollerOf
<1>3. Unstarted'
  BY DEF Unstarted, MainInv
<1>4. SingleOutstanding'
  BY DEF SingleOutstanding, Unstarted, MainInv
<1>5. SleepIsSafe'
  BY DEF SleepIsSafe, SingleOutstanding, Unstarted, MainInv, Served, PollerOf
<1> QED
  BY <1>1, <1>2, <1>3, <1>4, <1>5

LEMMA ReturnStep ==
  ASSUME IInv, NEW t \in Threads, Return(t)
  PROVE  IInv'
<1> USE Pollers, LoopOverThreads DEF Return, IInv, TypeInv, main, worker, kernel
<1>1. TypeInv'
  BY DEF Labels
<1>2. MainInv'
  BY DEF MainInv, PollerOf
<1>3. Unstarted'
  BY DEF Unstarted, MainInv
<1>4. SingleOutstanding'
  BY DEF SingleOutstanding, Unstarted, MainInv
<1>5. SleepIsSafe'
  BY DEF SleepIsSafe, SingleOutstanding, Unstarted, MainInv, Served, PollerOf
<1> QED
  BY <1>1, <1>2, <1>3, <1>4, <1>5

-----------------------------------------------------------------------------
(* ... and those of the pollers and the device.                             *)
LEMMA ConsumeStep ==
  ASSUME IInv, NEW t \in Threads, Consume(t)
  PROVE  IInv'
<1> USE Pollers, LoopOverThreads DEF Consume, IInv, TypeInv, main, worker, kernel
<1>1. TypeInv'
  BY DEF Labels
<1>2. MainInv'
  BY DEF MainInv, PollerOf
<1>3. Unstarted'
  BY DEF Unstarted, MainInv
<1>4. SingleOutstanding'
  BY DEF SingleOutstanding, Unstarted, MainInv
<1>5. SleepIsSafe'
  BY DEF SleepIsSafe, SingleOutstanding, Unstarted, MainInv, Served, PollerOf
<1> QED
  BY <1>1, <1>2, <1>3, <1>4, <1>5

LEMMA IdleStep ==
  ASSUME IInv, NEW t \in Threads, Idle(t)
  PROVE  IInv'
<1> USE Pollers, LoopOverThreads DEF Idle, IInv, TypeInv, main, worker, kernel
<1>1. TypeInv'
  BY DEF Labels
<1>2. MainInv'
  BY DEF MainInv, PollerOf
<1>3. Unstarted'
  BY DEF Unstarted, MainInv
<1>4. SingleOutstanding'
  BY DEF SingleOutstanding, Unstarted, MainInv
<1>5. SleepIsSafe'
  BY DEF SleepIsSafe, SingleOutstanding, Unstarted, MainInv, Served, PollerOf
<1> QED
  BY <1>1, <1>2, <1>3, <1>4, <1>5

LEMMA CompleteStep ==
  ASSUME IInv, NEW t \in Threads, Complete(t)
  PROVE  IInv'
<1> USE Pollers, LoopOverThreads DEF Complete, IInv, TypeInv, main, worker, kernel
<1>1. TypeInv'
  BY DEF Labels
<1>2. MainInv'
  BY DEF MainInv, PollerOf
<1>3. Unstarted'
  BY DEF Unstarted, MainInv
<1>4. SingleOutstanding'
  BY DEF SingleOutstanding, Unstarted, MainInv
<1>5. SleepIsSafe'
  BY DEF SleepIsSafe, SingleOutstanding, Unstarted, MainInv, Served, PollerOf
<1> QED
  BY <1>1, <1>2, <1>3, <1>4, <1>5

-----------------------------------------------------------------------------
LEMMA NextIInv == IInv /\ [Next]_vars => IInv'
<1> SUFFICES ASSUME IInv, [Next]_vars
             PROVE  IInv'
  OBVIOUS
<1>1. CASE MainStep
  BY <1>1, MakeScratchFileStep, InitRingStep, SpawnStep, JoinStep, ExitStep, CloseStep
  DEF MainStep
<1>2. CASE \E t \in Threads : WorkerStep(t)
  BY <1>2, SubmitStep, SubmitNullStep, WakeStep, WaitCqeStep, ReturnStep DEF WorkerStep
<1>3. CASE \E t \in Threads : KernelStep(t)
  BY <1>3, ConsumeStep, IdleStep, CompleteStep DEF KernelStep
<1>4. CASE UNCHANGED vars
  BY <1>4 DEF vars, main, worker, kernel, IInv, TypeInv, MainInv, Unstarted,
              SingleOutstanding, SleepIsSafe, Served, PollerOf
<1> QED
  BY <1>1, <1>2, <1>3, <1>4 DEF Next

(* What holds at every step of the program, for any number of workers. *)
THEOREM Inductive == Spec => []IInv
  BY InitIInv, NextIInv, PTL DEF Spec

(* If no wait fails, a worker of sqpoll_core_budget has one operation       *)
(* outstanding while it waits and none between operations or after it has   *)
(* returned, and io_uring_get_sqe never returns null to it.                 *)
THEOREM OneOperationPerWorker == Spec => []SingleOutstanding
  BY Inductive, PTL DEF IInv

(* A poller, shared or not, never sleeps on work that has been submitted to *)
(* one of its rings, unless the worker of that ring is about to wake it, if *)
(* waking it works.                                                         *)
THEOREM PollerSleepsSafely == Spec => []SleepIsSafe
  BY Inductive, PTL DEF IInv

(* While a worker runs, its ring, the ring it is attached to, its file and  *)
(* its poller are there: main tears nothing down before the last join.      *)
THEOREM NothingTornDownEarly == Spec => []RingsOutliveWorkers
<1>1. IInv => RingsOutliveWorkers
  BY Pollers DEF IInv, TypeInv, MainInv, RingsOutliveWorkers, Labels
<1> QED
  BY <1>1, Inductive, PTL

=============================================================================
