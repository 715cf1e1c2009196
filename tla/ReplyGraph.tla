----------------------------- MODULE ReplyGraph -----------------------------
(***************************************************************************)
(* What the nodes of the reply-decision graph compute                      *)
(* (ecommerce_cs_agent/services/decision_graph.py), as operators without   *)
(* state.  ReplyDecisionGraph runs them node by node; DecisionService uses *)
(* their composition, Replies, as the outcome of one invocation.           *)
(*                                                                         *)
(* A request is [message, context, auto, simulation]: its message (history *)
(* included) as a set of term groups, its typed context, whether its mode  *)
(* is auto_when_safe and whether its source is "simulation".               *)
(*                                                                         *)
(* What the graph asks of the outside world in one invocation is an        *)
(* answer: the knowledge recalled from the database, and what the reply    *)
(* provider and the grounded-reply composer did.                           *)
(***************************************************************************)
EXTENDS ServiceStage, Integers

(***************************************************************************)
(* Knowledge.  A recalled item is [score, signal, bound]: its overlap with *)
(* the question in percent, whether the overlapping terms are specific     *)
(* enough (_knowledge_relevance) and whether its scope or product binding  *)
(* admits the request (_knowledge_binding).                                *)
(***************************************************************************)
RelevanceThreshold == 70        \* percent

Relevant(item) == item.score >= RelevanceThreshold /\ item.signal /\ item.bound

\* Confidences are in hundredths of a percent: 0.85 is 8500.
AutoReplyConfidence == 8500
BaseConfidence      == 6800

EvidenceConfidence(score) == BaseConfidence + 25 * (IF score > 100 THEN 100 ELSE score)

(***************************************************************************)
(* The reasons for which compose_grounded_reply refuses to answer, and the *)
(* two outcomes for which the draft goes to rewrite_grounded.              *)
(***************************************************************************)
GroundedRefusals ==
  {"fabrication_request", "unsupported_claim", "missing_product_guidance",
   "ambiguous_reference"}

GroundedOutcomes == {"answer", "insufficient_context"} \cup GroundedRefusals

(***************************************************************************)
(* classify_service_stage, classify_intent                                 *)
(***************************************************************************)
AsksAction(m) == m \cap {"action", "address_pattern"} # {}

Satisfied(m, known) ==
  (IF known THEN {"products"} ELSE {})
    \cup (IF AsksAction(m) THEN {"orders", "products", "logistics"} ELSE {})

\* A classifier that raises yields the unknown stage, which needs nothing.
StageNeeds(m, context, known, classified) ==
  IF classified THEN NeededContext(m, context) \ Satisfied(m, known) ELSE {}

\* Variant: shipping questions ask for the order only.
KeywordNeedsOrderOnly(m, context, known) ==
  {t \in CtxTypes :
     /\ ~Has(context, t)
     /\ \/ t = "orders"    /\ m \cap {"topic_shipping", "topic_order"} # {}
        \/ t = "products"  /\ "topic_product" \in m /\ ~known
        \/ t = "rules"     /\ "topic_rule" \in m}

KeywordNeeds(m, context, known) ==
  {t \in CtxTypes :
     /\ ~Has(context, t)
     /\ \/ t = "orders"    /\ m \cap {"topic_shipping", "topic_order"} # {}
        \/ t = "logistics" /\ "topic_shipping" \in m
        \/ t = "products"  /\ "topic_product" \in m /\ ~known
        \/ t = "rules"     /\ "topic_rule" \in m}

MissingContext(m, context, known, classified) ==
  StageNeeds(m, context, known, classified)
    \cup (IF AsksAction(m) THEN {} ELSE KeywordNeeds(m, context, known))

RiskFlags(m, classified) ==
  {f \in {"llm_unavailable", "refund_or_complaint", "cross_tenant_data_access"} :
     \/ f = "llm_unavailable" /\ ~classified
     \/ f = "refund_or_complaint" /\ "risk" \in m
     \/ f = "cross_tenant_data_access" /\ "other_tenant" \in m}

(***************************************************************************)
(* context_gate, action_gate                                               *)
(***************************************************************************)
\* Variant: only failed model calls count as a risk.
ContextGateTrusting(risks, missing) ==
  IF "llm_unavailable" \in risks THEN "handoff"
  ELSE IF missing # {} THEN "context_request" ELSE "context_complete"

ContextGate(risks, missing) ==
  IF risks # {} THEN "handoff"
  ELSE IF missing # {} THEN "context_request" ELSE "context_complete"

ActionGate(m) == IF AsksAction(m) THEN "action_request" ELSE "candidate"

(***************************************************************************)
(* generate_candidate.  The composer runs only on business context; its    *)
(* refusal routes to a person with the draft kept; a provider that raises  *)
(* routes to a person without one.                                         *)
(***************************************************************************)
NoDraft == [drafted |-> FALSE, confidence |-> 0]

Draft(scores) ==
  [ drafted    |-> TRUE,
    confidence |-> IF scores = {} THEN BaseConfidence
                   ELSE EvidenceConfidence(CHOOSE s \in scores : \A r \in scores : r <= s) ]

Grounds(context) == \E t \in {"products", "orders", "logistics"} : Has(context, t)

(***************************************************************************)
(* policy_gate                                                             *)
(***************************************************************************)
AutoReplyEligible(request, confidence) ==
  confidence >= AutoReplyConfidence /\ request.auto /\ ~request.simulation

HandoffReason(refusal, risks) ==
  IF refusal # "none" THEN refusal
  ELSE IF "llm_unavailable" \in risks THEN "llm_unavailable"
  ELSE IF "cross_tenant_data_access" \in risks THEN "cross_tenant_data_access"
  ELSE "high_risk_request"

PolicyAction(route, request, draft) ==
  IF route \in {"handoff", "context_request", "action_request"} THEN route
  ELSE IF AutoReplyEligible(request, draft.confidence) THEN "auto_reply"
  ELSE "candidate"

PolicyStatus(action) ==
  CASE action = "context_request" -> "waiting_context"
    [] action = "auto_reply"      -> "answer_ready"
    [] OTHER                      -> action

\* Variant: an action is requested whenever the message asks for one.
PolicyGateEager(route, request, draft, missing, risks, refusal) ==
  LET action == PolicyAction(route, request, draft) IN
  [ action           |-> action,
    decision_status  |-> PolicyStatus(action),
    context_requests |-> missing,
    action_requested |-> AsksAction(request.message),
    handoff_reason   |-> IF route = "handoff" THEN HandoffReason(refusal, risks) ELSE "none" ]

PolicyGate(route, request, draft, missing, risks, refusal) ==
  LET action == PolicyAction(route, request, draft) IN
  [ action           |-> action,
    decision_status  |-> PolicyStatus(action),
    context_requests |-> missing,
    action_requested |-> route = "action_request",
    handoff_reason   |-> IF route = "handoff" THEN HandoffReason(refusal, risks) ELSE "none" ]

Actions == {"handoff", "context_request", "action_request", "auto_reply", "candidate"}

HandoffReasons ==
  {"none", "llm_unavailable", "cross_tenant_data_access", "high_risk_request"}
    \cup GroundedRefusals

Responses ==
  [ action           : Actions,
    decision_status  : {PolicyStatus(a) : a \in Actions},
    context_requests : SUBSET CtxTypes,
    action_requested : BOOLEAN,
    handoff_reason   : HandoffReasons ]

(***************************************************************************)
(* One whole invocation, for an answer                                     *)
(*   [scores, classified, grounded, generated]                             *)
(* of the outside world: the scores of the relevant knowledge, whether the *)
(* stage classifier and the generator returned, and what the composer said *)
(* when it ran ("none" when it had no business context to work on).        *)
(***************************************************************************)
Reply(request, answer) ==
  LET m       == request.message
      known   == answer.scores # {}
      missing == MissingContext(m, request.context, known, answer.classified)
      risks   == RiskFlags(m, answer.classified)
      gate    == ContextGate(risks, missing)
      route   == IF gate = "context_complete" THEN ActionGate(m) ELSE gate
      refusal == IF answer.grounded \in GroundedRefusals THEN answer.grounded ELSE "none"
      failed  == answer.grounded \in {"none", "insufficient_context"} /\ ~answer.generated
  IN  IF route # "candidate"
      THEN PolicyGate(route, request, NoDraft, missing, risks, "none")
      ELSE IF failed
      THEN PolicyGate("handoff", request, NoDraft, missing, risks \cup {"llm_unavailable"}, "none")
      ELSE PolicyGate(IF refusal = "none" THEN "candidate" ELSE "handoff",
                      request, Draft(answer.scores), missing, risks, refusal)

\* The answers the outside world may give to a request.
Answers(request, scoreSets) ==
  [ scores     : scoreSets,
    classified : BOOLEAN,
    grounded   : IF Grounds(request.context) THEN GroundedOutcomes ELSE {"none"},
    generated  : BOOLEAN ]

Replies(request, scoreSets) == {Reply(request, a) : a \in Answers(request, scoreSets)}
=============================================================================
