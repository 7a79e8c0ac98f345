------------------------------ MODULE FreeStack ------------------------------
(***************************************************************************)
(* What BufferPool::acquire and BufferPool::release promise a caller: each *)
(* call takes effect at one instant between its invocation and its return, *)
(* on one stack of free buffer indices.  acquire takes the top of the      *)
(* stack, or fails if the stack is empty at that instant; release puts its *)
(* argument on top.  BufferPool.tla, the compare-and-swap algorithm the    *)
(* code runs, is shown to implement this specification.                    *)
(***************************************************************************)
EXTENDS Integers, Sequences

CONSTANTS
  Threads,       \* the threads that share the pool
  BufferCount    \* buffer_count: the number of buffers

VARIABLES
  stack,         \* the free indices, the next one to hand out last
  issued,        \* issued[i]: how many callers hold buffer i
  op,            \* op[t]: the call thread t is in
  arg            \* arg[t]: the index thread t passed to release

vars == <<stack, issued, op, arg>>

Indices == 0 .. BufferCount - 1

Init ==
  /\ stack = [k \in 1 .. BufferCount |-> k - 1]
  /\ issued = [i \in Indices |-> 0]
  /\ op = [t \in Threads |-> "none"]
  /\ arg = [t \in Threads |-> 0]

CallAcquire(t) ==
  /\ op[t] = "none"
  /\ op' = [op EXCEPT ![t] = "acquire"]
  /\ UNCHANGED <<stack, issued, arg>>

AcquireSome(t) ==
  /\ op[t] = "acquire"
  /\ stack # <<>>
  /\ issued' = [issued EXCEPT ![stack[Len(stack)]] = @ + 1]
  /\ stack' = SubSeq(stack, 1, Len(stack) - 1)
  /\ op' = [op EXCEPT ![t] = "none"]
  /\ UNCHANGED arg

AcquireNone(t) ==
  /\ op[t] = "acquire"
  /\ stack = <<>>
  /\ op' = [op EXCEPT ![t] = "none"]
  /\ UNCHANGED <<stack, issued, arg>>

CallRelease(t, i) ==
  /\ op[t] = "none"
  /\ issued[i] > 0
  /\ issued' = [issued EXCEPT ![i] = @ - 1]
  /\ op' = [op EXCEPT ![t] = "release"]
  /\ arg' = [arg EXCEPT ![t] = i]
  /\ UNCHANGED stack

Release(t) ==
  /\ op[t] = "release"
  /\ stack' = Append(stack, arg[t])
  /\ op' = [op EXCEPT ![t] = "none"]
  /\ arg' = [arg EXCEPT ![t] = 0]
  /\ UNCHANGED issued

Next ==
  \E t \in Threads :
    \/ CallAcquire(t)
    \/ AcquireSome(t)
    \/ AcquireNone(t)
    \/ \E i \in Indices : CallRelease(t, i)
    \/ Release(t)

Spec == Init /\ [][Next]_vars
=============================================================================
