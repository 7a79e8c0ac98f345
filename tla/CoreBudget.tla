----------------------------- MODULE CoreBudget -----------------------------
(***************************************************************************)
(* experiments/sqpoll_core_budget.cpp: one SQPOLL ring per worker thread,  *)
(* each with a kernel poller of its own or, in mode "attach", all with the *)
(* poller of ring 0.  main opens the files and rings, starts the workers,  *)
(* joins them and tears everything down; each worker runs a loop that      *)
(* submits one operation and waits for its completion.                     *)
(*                                                                         *)
(* Modes "idle" and "pinned" differ from "baseline" in a timeout and in    *)
(* CPU affinities (a failure of which is only reported): they take the     *)
(* same steps.  All operations of a worker use one buffer, so they are     *)
(* counted, not told apart.  The kernel is external.                       *)
(***************************************************************************)
EXTENDS Integers

CONSTANTS
  num_threads,   \* the command-line argument
  Modes,         \* values of the argument `mode`
  Entries,       \* 256 in the code: the size of a submission queue
  Faults,        \* which system calls may fail: sets of "wait" and "wake"
  MaxOps         \* bound: operations of a worker before its deadline

ASSUME CoreBudgetAssumption ==
  /\ num_threads \in Nat \ {0}
  /\ Modes \subseteq {"baseline", "attach"}
  /\ Entries \in Nat \ {0}
  /\ Faults \subseteq SUBSET {"wait", "wake"}
  /\ MaxOps \in Nat

Threads == 0 .. num_threads - 1

VARIABLES
  mode, faults,      \* those of this behaviour
  mpc, i,            \* main: the loop it is in, and its index
  fds,               \* the rings whose scratch file is open
  rings,             \* rings[t]: "none", "up" or "exited"
  wpc, ops,          \* the workers: next step, and operations counted
  sq, inflight, cq,  \* per ring: operations submitted, in progress, completed
  poller             \* poller[q]: the kernel thread of ring q

main == <<mpc, i, fds, rings>>
worker == <<wpc, ops>>
kernel == <<sq, inflight, cq, poller>>
vars == <<mode, faults, main, worker, kernel>>

Init ==
  /\ mode \in Modes /\ faults \in Faults
  /\ mpc = "open" /\ i = 0 /\ fds = {}
  /\ rings = [t \in Threads |-> "none"]
  /\ wpc = [t \in Threads |-> "none"]
  /\ ops = [t \in Threads |-> 0]
  /\ sq = [t \in Threads |-> 0]
  /\ inflight = [t \in Threads |-> 0]
  /\ cq = [t \in Threads |-> 0]
  /\ poller = [t \in Threads |-> "none"]

(* The poller that serves a ring, and the rings a poller serves. *)
PollerOf(t) == IF mode = "attach" THEN 0 ELSE t
Served(q) == {t \in Threads : rings[t] = "up" /\ PollerOf(t) = q}

-----------------------------------------------------------------------------
(* main's loops over 0 .. num_threads - 1, one after the other.             *)
NextIteration(this, then) ==
  IF i + 1 < num_threads THEN mpc' = this /\ i' = i + 1 ELSE mpc' = then /\ i' = 0

(* std::exit(1) *)
Fail == mpc' = "failed" /\ UNCHANGED i

MakeScratchFile ==
  /\ mpc = "open"
  /\ \/ fds' = fds \union {i} /\ NextIteration("open", "init")
     \/ Fail /\ UNCHANGED fds
  /\ UNCHANGED <<mode, faults, rings, worker, kernel>>

init_ring ==
  /\ mpc = "init"
  /\ \/ /\ rings' = [rings EXCEPT ![i] = "up"]
        /\ poller' = IF PollerOf(i) = i THEN [poller EXCEPT ![i] = "polling"] ELSE poller
        /\ NextIteration("init", "spawn")
     \/ Fail /\ UNCHANGED <<rings, poller>>
  /\ UNCHANGED <<mode, faults, fds, worker, sq, inflight, cq>>

Spawn ==
  /\ mpc = "spawn"
  /\ wpc' = [wpc EXCEPT ![i] = "loop"]
  /\ NextIteration("spawn", "join")
  /\ UNCHANGED <<mode, faults, fds, rings, ops, kernel>>

Join_None ==
  /\ mpc = "join"
  /\ NextIteration("join", "exit")
  /\ UNCHANGED <<mode, faults, fds, rings, worker, kernel>>
Join ==
  /\ mpc = "join"
  /\ wpc[i] = "returned"
  /\ NextIteration("join", "exit")
  /\ UNCHANGED <<mode, faults, fds, rings, worker, kernel>>

(* io_uring_queue_exit, ring 0 first; a poller ends with its last ring.     *)
Exit ==
  /\ mpc = "exit"
  /\ rings' = [rings EXCEPT ![i] = "exited"]
  /\ poller' = IF Served(PollerOf(i)) = {i}
               THEN [poller EXCEPT ![PollerOf(i)] = "none"] ELSE poller
  /\ NextIteration("exit", "close")
  /\ UNCHANGED <<mode, faults, fds, worker, sq, inflight, cq>>

Close ==
  /\ mpc = "close"
  /\ fds' = fds \ {i}
  /\ NextIteration("close", "done")
  /\ UNCHANGED <<mode, faults, rings, worker, kernel>>

-----------------------------------------------------------------------------
(* RunWorkload.  io_uring_get_sqe, io_uring_prep_* and the first half of    *)
(* io_uring_submit, which shows the entry to the kernel; ...                *)
Submit(t) ==
  /\ wpc[t] = "loop" /\ ops[t] < MaxOps
  /\ sq[t] < Entries
  /\ sq' = [sq EXCEPT ![t] = @ + 1]
  /\ wpc' = [wpc EXCEPT ![t] = "wake"]
  /\ UNCHANGED <<mode, faults, main, ops, inflight, cq, poller>>

(* (io_uring_get_sqe returns null on a full queue; io_uring_prep_* writes   *)
(* through it, and the process dies.)                                       *)
SubmitNull(t) ==
  /\ wpc[t] = "loop" /\ ops[t] < MaxOps
  /\ sq[t] >= Entries
  /\ mpc' = "crashed"
  /\ UNCHANGED <<mode, faults, i, fds, rings, worker, kernel>>

(* ... its second half, which wakes the poller if that has asked for it.    *)
(* What io_uring_submit returns is ignored.                                 *)
Wake_None(t) ==
  /\ wpc[t] = "wake"
  /\ wpc' = [wpc EXCEPT ![t] = "wait"]
  /\ UNCHANGED <<mode, faults, main, ops, kernel>>
Wake(t) ==
  LET q == PollerOf(t)
      asks == poller[q] \in {"flagged", "asleep"}
  IN
  /\ wpc[t] = "wake"
  /\ \/ asks /\ poller' = [poller EXCEPT ![q] = "polling"]
     \/ asks /\ "wake" \in faults /\ UNCHANGED poller
     \/ ~ asks /\ UNCHANGED poller
  /\ wpc' = [wpc EXCEPT ![t] = "wait"]
  /\ UNCHANGED <<mode, faults, main, ops, sq, inflight, cq>>

(* io_uring_wait_cqe, io_uring_cqe_seen and the count.  A wait that fails   *)
(* leaves cqe null: nothing is marked as seen, the operation counts.        *)
WaitCqe_NotSeen(t) ==
  /\ wpc[t] = "wait"
  /\ cq[t] > 0 \/ "wait" \in faults
  /\ ops' = [ops EXCEPT ![t] = @ + 1]
  /\ wpc' = [wpc EXCEPT ![t] = "loop"]
  /\ UNCHANGED <<mode, faults, main, kernel>>
WaitCqe(t) ==
  /\ wpc[t] = "wait"
  /\ \/ cq[t] > 0 /\ cq' = [cq EXCEPT ![t] = @ - 1]
     \/ "wait" \in faults /\ UNCHANGED cq
  /\ ops' = [ops EXCEPT ![t] = @ + 1]
  /\ wpc' = [wpc EXCEPT ![t] = "loop"]
  /\ UNCHANGED <<mode, faults, main, sq, inflight, poller>>

(* The deadline has passed; the buffer goes with the call.                  *)
Return(t) ==
  /\ wpc[t] = "loop"
  /\ wpc' = [wpc EXCEPT ![t] = "returned"]
  /\ UNCHANGED <<mode, faults, main, ops, kernel>>

-----------------------------------------------------------------------------
(* External: a polling thread takes entries from any ring it serves; when   *)
(* all are empty it raises their wake-up flags, looks once more and sleeps. *)
Consume(t) ==
  /\ t \in Served(PollerOf(t)) /\ poller[PollerOf(t)] = "polling"
  /\ sq[t] > 0
  /\ sq' = [sq EXCEPT ![t] = @ - 1]
  /\ inflight' = [inflight EXCEPT ![t] = @ + 1]
  /\ UNCHANGED <<mode, faults, main, worker, cq, poller>>

Idle(q) ==
  LET empty == \A t \in Served(q) : sq[t] = 0 IN
  /\ \/ poller[q] = "polling" /\ empty /\ poller' = [poller EXCEPT ![q] = "flagged"]
     \/ /\ poller[q] = "flagged"
        /\ poller' = [poller EXCEPT ![q] = IF empty THEN "asleep" ELSE "polling"]
  /\ UNCHANGED <<mode, faults, main, worker, sq, inflight, cq>>

(* External: the device. *)
Complete(t) ==
  /\ inflight[t] > 0
  /\ inflight' = [inflight EXCEPT ![t] = @ - 1]
  /\ cq' = [cq EXCEPT ![t] = @ + 1]
  /\ UNCHANGED <<mode, faults, main, worker, sq, poller>>

-----------------------------------------------------------------------------
MainStep ==
  MakeScratchFile \/ init_ring \/ Spawn \/ Join \/ Exit \/ Close
WorkerStep(t) ==
  Submit(t) \/ SubmitNull(t) \/ Wake(t) \/ WaitCqe(t) \/ Return(t)
KernelStep(t) ==
  Consume(t) \/ Idle(t) \/ Complete(t)

Ended == mpc \in {"done", "failed", "crashed"}

Next ==
  ~ Ended /\ (MainStep \/ \E t \in Threads : WorkerStep(t) \/ KernelStep(t))

(* main and the workers keep running, the kernel's threads too, and the     *)
(* device answers.  A deadline comes: after MaxOps operations at the latest.*)
Spec ==
  /\ Init /\ [][Next]_vars
  /\ WF_vars(~ Ended /\ MainStep)
  /\ \A t \in Threads :
       /\ WF_vars(~ Ended /\ WorkerStep(t))
       /\ WF_vars(~ Ended /\ Consume(t))
       /\ WF_vars(~ Ended /\ Idle(t))
       /\ WF_vars(~ Ended /\ Complete(t))

-----------------------------------------------------------------------------
(* If no wait fails, a worker has one operation outstanding while it waits  *)
(* and none between operations or when it has returned and its buffer is    *)
(* gone, however long the pollers sleep.  The submission queue is then      *)
(* empty at the head of the loop, and the pointer that io_uring_get_sqe     *)
(* returns there is never the null that line 110 does not check for.        *)
SingleOutstanding ==
  "wait" \notin faults =>
    /\ mpc # "crashed"
    /\ \A t \in Threads :
         sq[t] + inflight[t] + cq[t] = IF wpc[t] \in {"wake", "wait"} THEN 1 ELSE 0

(* "Single-outstanding-op write/read loop", as the comment on RunWorkload   *)
(* has it: whatever io_uring_wait_cqe returns.                              *)
NeverTwoOutstanding ==
  \A t \in Threads : sq[t] + inflight[t] + cq[t] <= 1

(* A shared poller never sleeps on submitted work of any of its rings: the  *)
(* worker of that ring is about to wake it, and if the system call works it *)
(* will.                                                                    *)
SleepIsSafe ==
  "wake" \notin faults =>
    \A q \in Threads : poller[q] = "asleep" =>
      \A t \in Served(q) : sq[t] > 0 => wpc[t] = "wake"

(* "`attach_to` must outlive this engine": while a worker runs, its ring,   *)
(* the ring whose poller it uses and its file are there, although ring 0 is *)
(* the first to be torn down.                                               *)
RingsOutliveWorkers ==
  \A t \in Threads :
    wpc[t] \notin {"none", "returned"} =>
      /\ rings[t] = "up" /\ rings[PollerOf(t)] = "up"
      /\ t \in fds
      /\ poller[PollerOf(t)] # "none"

(* The program ends, if wake-ups work: no worker waits for a completion     *)
(* that never comes, on a poller of its own or a shared one, and main does  *)
(* not wait for ever.                                                       *)
Terminates == "wake" \notin faults => <>Ended
=============================================================================
