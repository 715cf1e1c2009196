--------------------------- MODULE DecisionState ---------------------------
(***************************************************************************)
(* The stored state of one decision and what the service's handlers do to  *)
(* it (ecommerce_cs_agent/services/decision.py, the _..._locked methods),  *)
(* as operators without state.  DecisionService runs them in transactions. *)
(*                                                                         *)
(* A state is [request, response, ledger].  The ledger holds the entries   *)
(* of context_refills, action_results and feedback in the order in which   *)
(* they were accepted; an entry is [op, id, key, payload, answer]: the     *)
(* context_request_id (one per context type and decision) or action it     *)
(* names, its idempotency key, its payload, and what the client was told.  *)
(***************************************************************************)
EXTENDS ReplyGraph, Sequences, FiniteSets

CONSTANTS
  Keys,         \* idempotency keys
  ScoreSets,    \* what knowledge recall may find: sets of relevance scores
  MaxFeedback   \* bound: feedback entries per decision (the code has none)

ASSUME KeysAssumption == MaxFeedback \in Nat
ASSUME ScoreSetsAssumption ==
  \A scores \in ScoreSets : scores \subseteq RelevanceThreshold .. 100

\* decision_status of an accepted refill that leaves others pending.
PartialContext == [action |-> "partial_context"]

ResultStatuses == {"succeeded", "failed", "timeout", "rejected"}

\* decision_status of an accepted action result.
ResultAnswer(status) ==
  [action |-> IF status = "succeeded" THEN "answer_ready" ELSE "handoff"]

FeedbackAnswer == [action |-> "accepted"]

(***************************************************************************)
(* What a client may send about a decision.  mine: the credentials and the *)
(* scope fields of the call belong to the decision's organization and      *)
(* store (_same_tenant_store).  A refill is posted to the URL of a context *)
(* type; a result names "action", the planned action with its type, or     *)
(* something else.                                                         *)
(***************************************************************************)
RefillBody ==
  [ op : {"refill"}, mine : BOOLEAN, id : CtxTypes, url : CtxTypes,
    key : Keys, payload : SUBSET Statuses ]

ResultBody ==
  [ op : {"result"}, mine : BOOLEAN, id : {"action", "other"}, url : {"none"},
    key : Keys, payload : {{s} : s \in ResultStatuses} ]

FeedbackBody ==
  [ op : {"feedback"}, mine : BOOLEAN, id : {"none"}, url : {"none"},
    key : {"none"}, payload : {{}} ]

Bodies == RefillBody \cup ResultBody \cup FeedbackBody

(***************************************************************************)
(* The states a decision may be stored in.                                 *)
(***************************************************************************)
Requests ==
  [message : SUBSET Terms, context : Contexts, auto : BOOLEAN, simulation : BOOLEAN]

Replied ==
  Responses \cup {PartialContext, FeedbackAnswer}
    \cup {ResultAnswer(status) : status \in ResultStatuses}

Entries ==
  [ op : {"refill"}, id : CtxTypes, key : Keys, payload : SUBSET Statuses, answer : Replied ]
    \cup [ op : {"result", "feedback"}, id : {"action", "none"}, key : Keys \cup {"none"},
           payload : SUBSET ResultStatuses, answer : Replied ]

States == [request : Requests, response : Responses, ledger : Seq(Entries)]

-----------------------------------------------------------------------------
Same(entry, c) == entry.op = c.op /\ entry.id = c.id /\ entry.key = c.key

\* Variant: a refill that ran the graph is not found again.
KnownWhilePending(s, c) ==
  \E i \in DOMAIN s.ledger : Same(s.ledger[i], c) /\ s.ledger[i].answer = PartialContext

Known(s, c) == \E i \in DOMAIN s.ledger : Same(s.ledger[i], c)

\* The key is known with another payload: 409.
Conflict(s, c) ==
  \E i \in DOMAIN s.ledger : Same(s.ledger[i], c) /\ s.ledger[i].payload # c.payload

RefillEntries(ledger) == {ledger[i] : i \in {j \in DOMAIN ledger : ledger[j].op = "refill"}}

\* Variant: one refill is enough.
RemainingAfterFirst(s, c) ==
  IF RefillEntries(s.ledger) # {} THEN {} ELSE s.response.context_requests \ {c.id}

(***************************************************************************)
(* The context requests still pending.  Refills of every earlier round     *)
(* count, except those that ran the graph: the answer stored for them is   *)
(* the graph's, which names no context_request_id.                         *)
(***************************************************************************)
Remaining(s, c) ==
  s.response.context_requests
    \ ({e.id : e \in {f \in RefillEntries(s.ledger) : f.answer = PartialContext}} \cup {c.id})

(***************************************************************************)
(* _request_with_refill_contexts: every refill accepted so far is added,   *)
(* in every round.                                                         *)
(***************************************************************************)
Merged(request, ledger) ==
  [request EXCEPT !.context =
     [t \in CtxTypes |->
        request.context[t]
          \cup UNION {e.payload : e \in {f \in RefillEntries(ledger) : f.id = t}}]]

Entry(c, answer) ==
  [op |-> c.op, id |-> c.id, key |-> c.key, payload |-> c.payload, answer |-> answer]

Logged(s, c, answer) == Append(s.ledger, Entry(c, answer))

\* Variant: a refill need not have been asked for.
RefuseRefillUnplanned(s, c) == ~c.mine \/ c.id # c.url \/ Conflict(s, c)

(***************************************************************************)
(* The handlers.  Refused: the handler raises (403, 409 or 422) and leaves *)
(* no trace.  Otherwise a known key replays the stored answer and changes  *)
(* nothing, and a new one is accepted.                                     *)
(***************************************************************************)
RefuseRefill(s, c) ==
  \/ ~c.mine
  \/ c.id # c.url
  \/ Conflict(s, c)
  \/ ~Known(s, c) /\ c.id \notin s.response.context_requests

RefuseResult(s, c) ==
  \/ ~c.mine
  \/ ~(s.response.action_requested /\ c.id = "action")
  \/ Conflict(s, c)

Refuse(s, c) ==
  \/ c.op = "refill" /\ RefuseRefill(s, c)
  \/ c.op = "result" /\ RefuseResult(s, c)
  \/ c.op = "feedback" /\ ~c.mine

\* The refill that leaves nothing pending runs the graph again.
Redecides(s, c) == c.op = "refill" /\ ~Known(s, c) /\ Remaining(s, c) = {}

\* Variant: the call is kept without the answer given.
RefillWaitsUnanswered(s, c) == [s EXCEPT !.ledger = Append(s.ledger, c)]

RefillWaits(s, c) ==
  [s EXCEPT !.ledger = Logged(s, c, PartialContext)]

\* Variant: the last refill is told to wait although the graph has run.
RefillDecidesSilently(s, c) ==
  LET request == Merged(s.request, Logged(s, c, PartialContext))
  IN  { [request |-> request, response |-> r, ledger |-> Logged(s, c, PartialContext)] :
          r \in Replies(request, ScoreSets) }

RefillDecides(s, c) ==
  LET request == Merged(s.request, Logged(s, c, PartialContext))
  IN  { [request |-> request, response |-> r, ledger |-> Logged(s, c, r)] :
          r \in Replies(request, ScoreSets) }

ResultAccepted(s, c) ==
  [s EXCEPT !.ledger = Logged(s, c, ResultAnswer(CHOOSE x \in c.payload : TRUE))]

\* Feedback has no key: every call gets a fresh human_reply_id.
FeedbackAccepted(s, c) == [s EXCEPT !.ledger = Logged(s, c, FeedbackAnswer)]

FeedbackCount(s) == Cardinality({i \in DOMAIN s.ledger : s.ledger[i].op = "feedback"})

\* The states a call that is not refused may leave behind.
Outcomes(s, c) ==
  IF c.op = "feedback" THEN {FeedbackAccepted(s, c)}
  ELSE IF Known(s, c) THEN {s}
  ELSE IF c.op = "result" THEN {ResultAccepted(s, c)}
  ELSE IF Redecides(s, c) THEN RefillDecides(s, c)
  ELSE {RefillWaits(s, c)}

-----------------------------------------------------------------------------
\* No two refills, and no two action results, have the same key.
UniqueKeys(s) ==
  \A i, j \in DOMAIN s.ledger :
    s.ledger[i].op # "feedback" /\ Same(s.ledger[i], s.ledger[j]) => i = j

\* Whatever result was accepted, the response still plans the action.
Retryable(s) ==
  \A i \in DOMAIN s.ledger : s.ledger[i].op = "result" => s.response.action_requested
=============================================================================
