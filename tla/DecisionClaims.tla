--------------------------- MODULE DecisionClaims ---------------------------
(***************************************************************************)
(* What the documents say of the decision service and its code does not    *)
(* do: each is checked by a run of its own and found violated.             *)
(***************************************************************************)
EXTENDS DecisionService

(***************************************************************************)
(* docs/system-architecture.md line 167: the idempotency of request_id     *)
(* keeps retries of external systems from producing a second decision.     *)
(* Two creates that overlap both build, and the second to commit replaces  *)
(* the state of the first with the refills and results accepted since.     *)
(***************************************************************************)
NothingAcceptedIsLost ==
  [][ \A d \in Decisions :
        Exists(d) => Keeps(stored[d].ledger, stored'[d].ledger) ]_vars

(***************************************************************************)
(* docs/http-api-design.md line 403: waiting for context has a budget of   *)
(* at most five seconds, after which the agent returns a candidate or a    *)
(* handoff.  Nothing in the service ends a wait but a refill.              *)
(***************************************************************************)
Waiting(d) == Exists(d) /\ stored[d].response.decision_status = "waiting_context"

WaitingEnds == \A d \in Decisions : Waiting(d) ~> ~Waiting(d)

(***************************************************************************)
(* docs/implementation-plan.md line 196: filling the same                  *)
(* context_request_id again does not produce a second effective snapshot.  *)
(* Under another idempotency key it is accepted again, and both payloads   *)
(* are merged into the request the answer is built from.                   *)
(***************************************************************************)
OneSnapshotPerContextRequest ==
  \A d \in Decisions : Exists(d) =>
    LET ledger == stored[d].ledger IN
    \A i, j \in DOMAIN ledger :
      /\ i < j /\ ledger[i].op = "refill" /\ ledger[j].op = "refill"
      /\ \A k \in i .. j - 1 : ledger[k].answer = PartialContext
      => ledger[i].id # ledger[j].id

(***************************************************************************)
(* docs/http-api-design.md line 242: while critical context is still       *)
(* missing, a refill is answered partial_context.  In a later round the    *)
(* refills of the first still count as answers to the same request ids, so *)
(* the graph runs although what it asked for again has not come.           *)
(***************************************************************************)
EveryAnswerAwaitsAll ==
  \A d \in Decisions : Exists(d) =>
    LET ledger  == stored[d].ledger
        answers == {i \in DOMAIN ledger :
                      ledger[i].op = "refill" /\ ledger[i].answer # PartialContext}
    IN  \A i, j \in answers :
          i < j /\ (\A k \in answers : k <= i \/ j <= k) =>
            ledger[i].answer.context_requests \subseteq {ledger[k].id : k \in i + 1 .. j}
=============================================================================
