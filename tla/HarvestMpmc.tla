----------------------------- MODULE HarvestMpmc -----------------------------
(***************************************************************************)
(* SqpollEngine::harvest_completions (include/ringio/sqpoll_engine.hpp)    *)
(* delivering into an MpmcRing that several client threads pop from.       *)
(* SqpollEngine.tla takes the completion ring for an atomic queue; here it *)
(* is MpmcRing.tla, access by access, with the engine as its one producer. *)
(* The way of a request from a client to the device is one step: what      *)
(* matters is that a popped buffer comes back as a new completion.         *)
(***************************************************************************)
EXTENDS MpmcRing

CONSTANTS
  Engine,     \* the thread that harvests
  MaxBatch    \* max_batch

(* It pushes and never pops.  No other thread pushes in HNext.              *)
ASSUME HarvestAssumption ==
  /\ Engine \notin Consumers
  /\ MaxBatch \in Nat \ {0}

VARIABLES
  active,     \* the consumers of this behaviour
  held,       \* tokens with a client
  inflight,   \* tokens of requests the kernel works on
  cq,         \* tokens completed and not yet advanced past
  walked,     \* harvest_completions: the count
  dropped     \* history variable: tokens that try_push refused

hvars == <<vars, active, held, inflight, cq, walked, dropped>>

HInit ==
  /\ Init
  /\ active \in SUBSET Consumers \ {{}}
  /\ held = Values
  /\ inflight = {} /\ cq = <<>> /\ walked = 0 /\ dropped = {}

-----------------------------------------------------------------------------
Submit(b) ==
  /\ b \in held
  /\ held' = held \ {b}
  /\ inflight' = inflight \union {b}
  /\ UNCHANGED <<vars, active, cq, walked, dropped>>

Complete(b) ==
  /\ b \in inflight
  /\ inflight' = inflight \ {b}
  /\ cq' = Append(cq, b)
  /\ UNCHANGED <<vars, active, held, walked, dropped>>

(* The loop over the completion queue calls try_push for the next entry ... *)
HarvestCall ==
  /\ walked < MaxBatch /\ walked < Len(cq)
  /\ CallPush(Engine, cq[walked + 1])
  /\ UNCHANGED <<active, held, inflight, cq, walked, dropped>>

(* ... and counts the entry when that returns, whatever it returns. *)
HarvestPush ==
  LET returns == pc'[Engine] = "idle"
      refused == pc[Engine] = "push_seq"
  IN  /\ PushStep(Engine)
      /\ walked' = IF returns THEN walked + 1 ELSE walked
      /\ dropped' = dropped \union IF returns /\ refused THEN {val[Engine]} ELSE {}
      /\ UNCHANGED <<active, held, inflight, cq>>

HarvestAdvance_One ==
  /\ pc[Engine] = "idle"
  /\ walked > 0 /\ (walked = MaxBatch \/ walked = Len(cq))
  /\ cq' = Tail(cq)
  /\ walked' = 0
  /\ UNCHANGED <<vars, active, held, inflight, dropped>>
HarvestAdvance ==
  /\ pc[Engine] = "idle"
  /\ walked > 0 /\ (walked = MaxBatch \/ walked = Len(cq))
  /\ cq' = SubSeq(cq, walked + 1, Len(cq))
  /\ walked' = 0
  /\ UNCHANGED <<vars, active, held, inflight, dropped>>

(* A client has the token once its try_pop returns. *)
ClientPop(c) ==
  /\ CallPop(c) \/ PopStep(c)
  /\ held' = held \union IF pc[c] = "pop_store" THEN {val[c]} ELSE {}
  /\ UNCHANGED <<active, inflight, cq, walked, dropped>>

-----------------------------------------------------------------------------
HNext ==
  \/ \E b \in Values : Submit(b) \/ Complete(b)
  \/ HarvestCall
  \/ HarvestPush
  \/ HarvestAdvance
  \/ \E c \in active : ClientPop(c)

(* The engine's thread keeps harvesting, the clients keep polling and the   *)
(* device answers.  Nobody has to submit anything.                          *)
HSpec ==
  /\ HInit /\ [][HNext]_hvars
  /\ WF_hvars(HarvestCall \/ HarvestPush \/ HarvestAdvance)
  /\ \A c \in Consumers : WF_hvars(c \in active /\ ClientPop(c))
  /\ \A b \in Values : WF_hvars(Complete(b))

-----------------------------------------------------------------------------
(* Every token is in exactly one place between the clients, the kernel, the *)
(* walk and the ring: no completion reaches two clients or is both dropped  *)
(* and delivered, although popped buffers are at once submitted again.      *)
OneToken ==
  \A b \in Values :
    LET In(set) == IF b \in set THEN 1 ELSE 0
        Count(seq) == Cardinality({k \in DOMAIN seq : seq[k] = b})
        popping == {c \in Consumers :
                      \/ pc[c] = "pop_store" /\ val[c] = b
                      \/ pc[c] = "pop_read" /\ b = slot_value[Slot(pos[c])]}
        walk == IF pc[Engine] \in PushOwns THEN walked + 1 ELSE walked
    IN  In(held) + In(inflight) + Count(SubSeq(cq, walk + 1, Len(cq)))
          + Count(queue) + Cardinality(popping) + In(dropped) = 1

(* "Size out_queue for at least max_batch so a full queue doesn't silently  *)
(* drop completions": with one consumer, a ring with room for every token   *)
(* never refuses one.                                                       *)
OneConsumerDropsNothing ==
  (Cardinality(active) = 1 /\ Cardinality(Values) <= Capacity) => dropped = {}

(* With several, it may: a consumer stalled in try_pop keeps its slot while *)
(* the others empty the rest of the ring, and the push that comes round to  *)
(* that slot reports full.  Nothing else makes a large enough ring refuse.  *)
DropsOnlyBehindStalledPop ==
  [][Cardinality(Values) <= Capacity /\ dropped' # dropped =>
       \E c \in active : pc[c] \in PopOwns /\ Slot(pos[c]) = Slot(pos[Engine])]_hvars

(* Every request ends: its token is handed to a client or dropped.          *)
EveryCompletionEnds ==
  \A b \in Values : (b \in inflight) ~> (b \in held \union dropped)
=============================================================================
