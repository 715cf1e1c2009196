---------------------- MODULE ReplyDecisionGraphProofs ----------------------
(***************************************************************************)
(* Theorems about ReplyDecisionGraph, for every set of requests and        *)
(* whatever the database may recall.                                       *)
(*                                                                         *)
(* The argument: what a node finds in the graph's state is a function of   *)
(* the request and of what the outside world has answered so far (Walk),   *)
(* so the run ends in Reply(request, answer), and what a released reply    *)
(* promises is a fact about the operator Reply (ReplyGraphProofs).         *)
(***************************************************************************)
EXTENDS ReplyDecisionGraph, ReplyGraphProofs

-----------------------------------------------------------------------------
(***************************************************************************)
(* The run.  Before generate_candidate nothing has been drafted; what the  *)
(* gates decided is what they decide about the state as it is; at          *)
(* policy_gate the response is the one of Reply.                           *)
(***************************************************************************)
Scored == SUBSET (RelevanceThreshold .. 100)

AnswerRow ==
  [ scores : Scored, classified : BOOLEAN, grounded : GroundedOutcomes \cup {"none"},
    generated : BOOLEAN ]

RiskNames == {"llm_unavailable", "refund_or_complaint", "cross_tenant_data_access"}

Routes == {"none", "handoff", "context_request", "context_complete", "action_request",
           "candidate", "persist"}

Typed ==
  /\ node \in Nodes \cup {"end", "raised"}
  /\ request \in Requests
  /\ answer \in AnswerRow
  /\ risks \in SUBSET RiskNames /\ missing \in SUBSET CtxTypes
  /\ route \in Routes
  /\ draft \in {NoDraft, Draft(scores)}
  /\ taken \subseteq walked
  /\ walked \subseteq taken \cup AlwaysMarked \cup {"candidate_ready"}
  /\ node \notin {"normalize_request", "raised"} => "normalized" \in walked
  /\ node \notin {"normalize_request", "retrieve_context", "raised"} => "context_loaded" \in walked
  /\ node \notin {"normalize_request", "retrieve_context", "classify_service_stage", "raised"} =>
       "stage_classified" \in walked
  /\ node \in {"context_gate", "action_gate", "generate_candidate", "policy_gate",
               "persist_trace", "end"} => "intent_classified" \in walked

Early == {"normalize_request", "retrieve_context", "classify_service_stage", "classify_intent",
          "context_gate", "action_gate", "generate_candidate"}

Judged == {"context_gate", "action_gate", "generate_candidate"}

Ended == {"persist_trace", "end"}

Walk ==
  /\ answer.scores = scores /\ answer.classified = classified
  /\ node \in Early =>
       draft = NoDraft /\ refusal = "none" /\ answer.grounded = "none" /\ answer.generated = TRUE
  /\ node = "classify_intent" =>
       missing = StageNeeds(request.message, request.context, scores # {}, classified)
  /\ node \in Judged \cup {"policy_gate"} \cup Ended => missing = MissingFor(request, answer)
  /\ node \in Judged => risks = RisksFor(request, answer)
  /\ node \in {"action_gate", "generate_candidate"} =>
       ContextGate(risks, missing) = "context_complete"
  /\ node = "generate_candidate" => route = "candidate" /\ Drafts(request, answer)
  /\ node = "policy_gate" =>
       PolicyGate(route, request, draft, missing, risks, refusal) = Reply(request, answer)
  /\ node \in Ended => response = Reply(request, answer)
  /\ node \notin Ended => response = NoResponse

GraphInv == Typed /\ Walk

USE RecallsAssumption DEF AlwaysMarked

LEMMA InitInv == Init => GraphInv
<1> SUFFICES ASSUME Init PROVE GraphInv
  OBVIOUS
<1>1. answer \in AnswerRow
  BY DEF Init, AnswerRow, Scored
<1>2. Typed
  BY <1>1 DEF Init, Typed, Nodes, Routes
<1>3. Walk
  BY DEF Init, Walk, Judged, Ended
<1>4. QED
  BY <1>2, <1>3 DEF GraphInv

\* Where a run may be.
LEMMA NodesDiffer ==
  /\ Early \cap ({"policy_gate", "raised"} \cup Ended) = {}
  /\ Nodes = Early \cup {"policy_gate", "persist_trace"}
BY DEF Early, Ended, Nodes

LEMMA NormalizeStep ==
  ASSUME GraphInv, NormalizeRequest
  PROVE  GraphInv'
<1>1. Typed'
  BY DEF GraphInv, Typed, NormalizeRequest, Nodes
<1>2. Walk'
  BY DEF GraphInv, Walk, NormalizeRequest, Early, Judged, Ended
<1>3. QED
  BY <1>1, <1>2 DEF GraphInv

LEMMA RetrieveStep ==
  ASSUME GraphInv, RetrieveContext
  PROVE  GraphInv'
<1>1. PICK recalled \in Recalls :
        /\ scores' = {item.score : item \in {i \in recalled : Relevant(i)}}
        /\ answer' = [answer EXCEPT !.scores = scores']
  BY DEF RetrieveContext
<1>2. scores' \in Scored
  <2>1. \A item \in recalled : Relevant(item) => item.score \in RelevanceThreshold .. 100
    BY DEF Relevant, RelevanceThreshold
  <2>2. QED
    BY <1>1, <2>1 DEF Scored
<1>3. answer \in AnswerRow /\ draft = NoDraft
  BY DEF GraphInv, Typed, Walk, RetrieveContext, Early
<1>4. answer' = [ scores |-> scores', classified |-> answer.classified,
                  grounded |-> answer.grounded, generated |-> answer.generated ]
  BY <1>1, <1>3 DEF AnswerRow
<1>5. answer' \in AnswerRow
  BY <1>2, <1>3, <1>4 DEF AnswerRow
<1>6. Typed'
  BY <1>3, <1>5 DEF GraphInv, Typed, RetrieveContext, Nodes
<1>7. Walk'
  BY <1>4 DEF GraphInv, Walk, RetrieveContext, Early, Judged, Ended
<1>8. QED
  BY <1>6, <1>7 DEF GraphInv

LEMMA RaiseStep ==
  ASSUME GraphInv, Raise, node \in Early
  PROVE  GraphInv'
<1>1. Typed'
  BY DEF GraphInv, Typed, Raise
<1>2. Walk'
  BY DEF GraphInv, Walk, Raise, Early, Judged, Ended
<1>3. QED
  BY <1>1, <1>2 DEF GraphInv

LEMMA ClassifyStageStep ==
  ASSUME GraphInv, ClassifyServiceStage
  PROVE  GraphInv'
<1>1. /\ classified' \in BOOLEAN /\ answer' = [answer EXCEPT !.classified = classified']
      /\ answer \in AnswerRow
  BY DEF GraphInv, Typed, ClassifyServiceStage
<1>2. answer' = [ scores |-> answer.scores, classified |-> classified',
                  grounded |-> answer.grounded, generated |-> answer.generated ]
  BY <1>1 DEF AnswerRow
<1>3. answer' \in AnswerRow
  BY <1>1, <1>2 DEF AnswerRow
<1>4. missing' \in SUBSET CtxTypes
  BY DEF ClassifyServiceStage, StageNeeds, NeededContext
<1>5. Typed'
  BY <1>3, <1>4 DEF GraphInv, Typed, ClassifyServiceStage, Nodes
<1>6. Walk'
  BY <1>2 DEF GraphInv, Walk, ClassifyServiceStage, Early, Judged, Ended
<1>7. QED
  BY <1>5, <1>6 DEF GraphInv

LEMMA ClassifyIntentStep ==
  ASSUME GraphInv, ClassifyIntent
  PROVE  GraphInv'
<1>1. /\ node = "classify_intent" /\ node' = "context_gate"
      /\ risks' = RiskFlags(request.message, classified)
      /\ missing' = missing \cup
           (IF AsksAction(request.message) THEN {}
            ELSE KeywordNeeds(request.message, request.context, scores # {}))
      /\ UNCHANGED << request, scores, classified, route, draft, refusal, taken, answer, response >>
  BY DEF ClassifyIntent
<1>2. /\ missing = StageNeeds(request.message, request.context, scores # {}, classified)
      /\ answer.scores = scores /\ answer.classified = classified
  BY <1>1 DEF GraphInv, Walk
<1>3. missing' = MissingFor(request, answer) /\ risks' = RisksFor(request, answer)
  BY <1>1, <1>2 DEF MissingFor, MissingContext, RisksFor
<1>4. missing' \in SUBSET CtxTypes /\ risks' \in SUBSET RiskNames
  BY <1>1, <1>3, MissingIsTypes DEF RiskFlags, RiskNames
<1>5. Typed'
  BY <1>1, <1>4 DEF GraphInv, Typed, ClassifyIntent, Nodes
<1>6. MissingFor(request, answer)' = MissingFor(request, answer)
      /\ RisksFor(request, answer)' = RisksFor(request, answer)
  BY <1>1
<1>7. Walk'
  BY <1>1, <1>3, <1>6 DEF GraphInv, Walk, Early, Judged, Ended
<1>8. QED
  BY <1>5, <1>7 DEF GraphInv

LEMMA ContextGateStep ==
  ASSUME GraphInv, ContextGateNode
  PROVE  GraphInv'
<1> DEFINE gate == ContextGate(risks, missing)
<1>1. /\ node = "context_gate" /\ route' = gate
      /\ node' = IF gate = "context_complete" THEN "action_gate" ELSE "policy_gate"
      /\ taken' = taken \cup {gate} /\ walked' = walked \cup {gate}
      /\ UNCHANGED << request, scores, classified, risks, missing, draft, refusal, answer, response >>
  BY DEF ContextGateNode, Take
<1>2. /\ missing = MissingFor(request, answer) /\ risks = RisksFor(request, answer)
      /\ draft = NoDraft /\ refusal = "none"
  BY <1>1 DEF GraphInv, Walk, Early, Judged
<1>3. gate \in {"handoff", "context_request", "context_complete"}
  BY GateRoutes
<1>4. gate # "context_complete" =>
        PolicyGate(route', request, draft, missing, risks, refusal) = Reply(request, answer)
  <2> SUFFICES ASSUME gate # "context_complete"
               PROVE  PolicyGate(gate, request, draft, missing, risks, refusal)
                        = Reply(request, answer)
    BY <1>1
  <2>1. ~Drafts(request, answer)
    BY <1>2 DEF Drafts
  <2>2. QED
    BY <1>2, <2>1, ReplyAtGate
<1>5. /\ MissingFor(request, answer)' = MissingFor(request, answer)
      /\ RisksFor(request, answer)' = RisksFor(request, answer)
      /\ Reply(request, answer)' = Reply(request, answer)
      /\ PolicyGate(route, request, draft, missing, risks, refusal)'
           = PolicyGate(route', request, draft, missing, risks, refusal)
      /\ ContextGate(risks, missing)' = gate
  BY <1>1
<1> HIDE DEF gate
<1>6. Typed'
  BY <1>1, <1>3 DEF GraphInv, Typed, Nodes, Routes
<1>7. Walk'
  BY <1>1, <1>2, <1>4, <1>5 DEF GraphInv, Walk, Early, Judged, Ended
<1>8. QED
  BY <1>6, <1>7 DEF GraphInv

LEMMA ActionGateStep ==
  ASSUME GraphInv, ActionGateNode
  PROVE  GraphInv'
<1> DEFINE gate == ActionGate(request.message)
<1>1. /\ node = "action_gate" /\ route' = gate
      /\ node' = IF gate = "action_request" THEN "policy_gate" ELSE "generate_candidate"
      /\ taken' = taken \cup {gate} /\ walked' = walked \cup {gate}
      /\ UNCHANGED << request, scores, classified, risks, missing, draft, refusal, answer, response >>
  BY DEF ActionGateNode, Take
<1>2. /\ missing = MissingFor(request, answer) /\ risks = RisksFor(request, answer)
      /\ draft = NoDraft /\ refusal = "none"
      /\ ContextGate(risks, missing) = "context_complete"
  BY <1>1 DEF GraphInv, Walk, Early, Judged
<1>3. gate \in {"action_request", "candidate"}
  BY ActionRoutes
<1>4. gate = "candidate" => Drafts(request, answer)
  BY <1>2 DEF Drafts
<1>5. gate = "action_request" =>
        PolicyGate(route', request, draft, missing, risks, refusal) = Reply(request, answer)
  <2> SUFFICES ASSUME gate = "action_request"
               PROVE  PolicyGate(gate, request, draft, missing, risks, refusal)
                        = Reply(request, answer)
    BY <1>1
  <2>1. ~Drafts(request, answer)
    BY <1>2 DEF Drafts
  <2>2. QED
    BY <1>2, <2>1, ReplyAtGate
<1>6. /\ MissingFor(request, answer)' = MissingFor(request, answer)
      /\ RisksFor(request, answer)' = RisksFor(request, answer)
      /\ Reply(request, answer)' = Reply(request, answer)
      /\ Drafts(request, answer)' = Drafts(request, answer)
      /\ PolicyGate(route, request, draft, missing, risks, refusal)'
           = PolicyGate(route', request, draft, missing, risks, refusal)
      /\ ContextGate(risks, missing)' = ContextGate(risks, missing)
  BY <1>1
<1> HIDE DEF gate
<1>7. Typed'
  BY <1>1, <1>3 DEF GraphInv, Typed, Nodes, Routes
<1>8. Walk'
  BY <1>1, <1>2, <1>3, <1>4, <1>5, <1>6 DEF GraphInv, Walk, Early, Judged, Ended
<1>9. QED
  BY <1>7, <1>8 DEF GraphInv

LEMMA GenerateStep ==
  ASSUME GraphInv, GenerateCandidate
  PROVE  GraphInv'
<1>1. PICK grounded \in (IF Grounds(request.context) THEN GroundedOutcomes ELSE {"none"}),
           generated \in BOOLEAN :
        /\ answer' = [answer EXCEPT !.grounded = grounded, !.generated = generated]
        /\ IF grounded \in {"none", "insufficient_context"} /\ ~generated
             THEN /\ route' = "handoff"
                  /\ risks' = risks \cup {"llm_unavailable"}
                  /\ UNCHANGED << draft, refusal >>
             ELSE /\ draft' = Draft(scores)
                  /\ refusal' = IF grounded \in GroundedRefusals THEN grounded ELSE refusal
                  /\ route' = IF grounded \in GroundedRefusals THEN "handoff" ELSE route
                  /\ UNCHANGED risks
  BY DEF GenerateCandidate
<1>2. /\ node = "generate_candidate" /\ node' = "policy_gate"
      /\ walked' = walked \cup {"candidate_ready"}
      /\ UNCHANGED << request, scores, classified, missing, taken, response >>
  BY DEF GenerateCandidate
<1>3. /\ missing = MissingFor(request, answer) /\ risks = RisksFor(request, answer)
      /\ draft = NoDraft /\ refusal = "none" /\ route = "candidate"
      /\ Drafts(request, answer) /\ response = NoResponse
      /\ answer.scores = scores /\ answer.classified = classified
  BY <1>2 DEF GraphInv, Walk, Early, Judged, Ended
<1>4. /\ answer \in AnswerRow /\ risks \in SUBSET RiskNames
      /\ grounded \in GroundedOutcomes \cup {"none"}
  BY DEF GraphInv, Typed
<1>5. answer' = [ scores |-> answer.scores, classified |-> answer.classified,
                  grounded |-> grounded, generated |-> generated ]
  BY <1>1, <1>4 DEF AnswerRow
<1>6. /\ answer' \in AnswerRow /\ answer'.scores = scores /\ answer'.classified = classified
      /\ answer'.grounded = grounded /\ answer'.generated = generated
  BY <1>3, <1>4, <1>5 DEF AnswerRow
<1>7. /\ MissingFor(request, answer') = missing /\ RisksFor(request, answer') = risks
      /\ Drafts(request, answer')
  BY <1>3, <1>6 DEF MissingFor, RisksFor, Drafts
<1>8. PolicyGate(route', request, draft', missing, risks', refusal') = Reply(request, answer')
  <2>1. CASE ProviderFailed(answer')
    <3>1. /\ route' = "handoff" /\ risks' = risks \cup {"llm_unavailable"}
          /\ draft' = NoDraft /\ refusal' = "none"
      BY <1>1, <1>3, <1>6, <2>1 DEF ProviderFailed
    <3>2. QED
      BY <1>7, <2>1, <3>1, ReplyAfterFailure
  <2>2. CASE ~ProviderFailed(answer') /\ grounded \in GroundedRefusals
    <3>1. /\ route' = "handoff" /\ risks' = risks /\ draft' = Draft(scores) /\ refusal' = grounded
      BY <1>1, <1>6, <2>2 DEF ProviderFailed
    <3>2. QED
      BY <1>6, <1>7, <2>2, <3>1, ReplyAfterDraft
  <2>3. CASE ~ProviderFailed(answer') /\ grounded \notin GroundedRefusals
    <3>1. /\ route' = "candidate" /\ risks' = risks /\ draft' = Draft(scores) /\ refusal' = "none"
      BY <1>1, <1>3, <1>6, <2>3 DEF ProviderFailed
    <3>2. QED
      BY <1>6, <1>7, <2>3, <3>1, ReplyAfterDraft
  <2>4. QED
    BY <2>1, <2>2, <2>3
<1>9. /\ risks' \in SUBSET RiskNames /\ route' \in Routes /\ draft' \in {NoDraft, Draft(scores)}
  BY <1>1, <1>3, <1>4 DEF RiskNames, Routes
<1>10. Typed'
  BY <1>2, <1>6, <1>9 DEF GraphInv, Typed, Nodes
<1>11. /\ MissingFor(request, answer)' = MissingFor(request, answer')
       /\ Reply(request, answer)' = Reply(request, answer')
       /\ PolicyGate(route, request, draft, missing, risks, refusal)'
            = PolicyGate(route', request, draft', missing, risks', refusal')
  BY <1>2
<1>12. Walk'
  BY <1>2, <1>3, <1>6, <1>7, <1>8, <1>11 DEF Walk, Early, Judged, Ended
<1>13. QED
  BY <1>10, <1>12 DEF GraphInv

LEMMA PolicyGateStep ==
  ASSUME GraphInv, PolicyGateNode
  PROVE  GraphInv'
<1>1. /\ node = "policy_gate" /\ node' = "persist_trace"
      /\ response' = PolicyGate(route, request, draft, missing, risks, refusal)
      /\ UNCHANGED << request, scores, classified, risks, missing, route, draft, refusal, taken,
                      walked, answer >>
  BY DEF PolicyGateNode
<1>2. /\ response' = Reply(request, answer) /\ missing = MissingFor(request, answer)
      /\ answer.scores = scores /\ answer.classified = classified
  BY <1>1 DEF GraphInv, Walk
<1>3. Typed'
  BY <1>1 DEF GraphInv, Typed, Nodes
<1>4. /\ MissingFor(request, answer)' = MissingFor(request, answer)
      /\ Reply(request, answer)' = Reply(request, answer)
  BY <1>1
<1>5. Walk'
  BY <1>1, <1>2, <1>4 DEF Walk, Early, Judged, Ended
<1>6. QED
  BY <1>3, <1>5 DEF GraphInv

LEMMA PersistStep ==
  ASSUME GraphInv, PersistTrace
  PROVE  GraphInv'
<1>1. /\ node = "persist_trace" /\ node' = "end" /\ route' = "persist"
      /\ taken' = taken \cup {"persist"} /\ walked' = walked \cup {"persist"}
      /\ UNCHANGED << request, scores, classified, risks, missing, draft, refusal, answer, response >>
  BY DEF PersistTrace, Take
<1>2. /\ response = Reply(request, answer) /\ missing = MissingFor(request, answer)
      /\ answer.scores = scores /\ answer.classified = classified
  BY <1>1 DEF GraphInv, Walk, Ended
<1>3. Typed'
  BY <1>1 DEF GraphInv, Typed, Nodes, Routes
<1>4. /\ MissingFor(request, answer)' = MissingFor(request, answer)
      /\ Reply(request, answer)' = Reply(request, answer)
  BY <1>1
<1>5. Walk'
  BY <1>1, <1>2, <1>4 DEF Walk, Early, Judged, Ended
<1>6. QED
  BY <1>3, <1>5 DEF GraphInv

LEMMA StepInv == GraphInv /\ [Next]_vars => GraphInv'
<1> SUFFICES ASSUME GraphInv, [Next]_vars PROVE GraphInv'
  OBVIOUS
<1>1. CASE UNCHANGED vars
  <2>1. Typed'
    BY <1>1 DEF vars, GraphInv, Typed
  <2>2. Walk'
    BY <1>1 DEF vars, GraphInv, Walk
  <2>3. QED
    BY <2>1, <2>2 DEF GraphInv
<1>2. CASE RecallFails
  BY <1>2, RaiseStep DEF RecallFails, Early
<1>3. CASE RewriteRaises
  BY <1>3, RaiseStep DEF RewriteRaises, Early
<1>4. QED
  BY <1>1, <1>2, <1>3, NormalizeStep, RetrieveStep, ClassifyStageStep, ClassifyIntentStep,
     ContextGateStep, ActionGateStep, GenerateStep, PolicyGateStep, PersistStep DEF Next

LEMMA GraphInvHolds == Spec => []GraphInv
BY InitInv, StepInv, PTL DEF Spec

-----------------------------------------------------------------------------
\* Every key of the graph's state holds a value that its readers expect.
THEOREM TypeCorrect == Spec => []TypeOK
<1>1. GraphInv => TypeOK
  <2> SUFFICES ASSUME GraphInv PROVE TypeOK
    OBVIOUS
  <2>1. scores \in Scored /\ classified \in BOOLEAN
    BY DEF GraphInv, Typed, Walk, AnswerRow
  <2>2. draft.drafted \in BOOLEAN
    <3>1. NoDraft.drafted = TRUE \/ NoDraft.drafted = FALSE
      BY DEF NoDraft
    <3>2. Draft(scores).drafted = TRUE
      BY DEF Draft
    <3>3. draft = NoDraft \/ draft = Draft(scores)
      BY DEF GraphInv, Typed
    <3>4. QED
      BY <3>1, <3>2, <3>3
  <2>3. response \in Responses \cup {NoResponse}
    BY ReplyIsSound DEF GraphInv, Walk
  <2>4. QED
    BY <2>1, <2>2, <2>3 DEF GraphInv, Typed, TypeOK, Scored, RiskNames, Routes
<1>2. QED
  BY <1>1, GraphInvHolds, PTL

\* A response, once there, is the one of Reply.
LEMMA ResponseIsReply ==
  ASSUME GraphInv, response.action # "none" \/ response # NoResponse
  PROVE  /\ response = Reply(request, answer) /\ missing = MissingFor(request, answer)
         /\ answer.scores = scores /\ answer \in AnswerRow
<1>1. response # NoResponse
  BY DEF NoResponse
<1>2. QED
  BY <1>1 DEF GraphInv, Typed, Walk

\* A reply is released without a person only when nothing spoke against it.
THEOREM ReleasedRepliesAreSafe == Spec => []AutoReplyIsSafe
<1>1. GraphInv => AutoReplyIsSafe
  <2> SUFFICES ASSUME GraphInv, response.action = "auto_reply" PROVE AutoReplyIsSafe
    BY DEF AutoReplyIsSafe
  <2>1. /\ response = Reply(request, answer) /\ missing = MissingFor(request, answer)
        /\ answer.scores = scores /\ answer \in AnswerRow
    BY ResponseIsReply
  <2>2. /\ Drafts(request, answer) /\ ~ProviderFailed(answer)
        /\ answer.grounded \notin GroundedRefusals
        /\ AutoReplyEligible(request, Draft(answer.scores).confidence)
    BY <2>1, ReplyIsSound
  <2>3. scores # {} /\ request.auto /\ ~request.simulation
    BY <2>1, <2>2, AutoReplyKnows
  <2>4. answer.classified \in BOOLEAN
    BY <2>1 DEF AnswerRow
  <2>5. /\ missing = {} /\ answer.classified
        /\ request.message \cap {"risk", "other_tenant", "action", "address_pattern"} = {}
    BY <2>1, <2>2, <2>4, DraftsKnow
  <2>6. QED
    BY <2>2, <2>3, <2>5 DEF AutoReplyIsSafe, ProviderFailed
<1>2. QED
  BY <1>1, GraphInvHolds, PTL

\* The agent never answers a question about facts it was not given.
THEOREM RepliesHaveTheirContext == Spec => []NeverGuesses
<1>1. GraphInv => NeverGuesses
  <2> SUFFICES ASSUME GraphInv, response.action \in {"auto_reply", "candidate"}
               PROVE  NeverGuesses
    BY DEF NeverGuesses
  <2>1. /\ response = Reply(request, answer) /\ answer.scores = scores
        /\ answer.classified \in BOOLEAN
    BY ResponseIsReply DEF AnswerRow
  <2>2. Drafts(request, answer)
    BY <2>1, ReplyIsSound
  <2> DEFINE m == request.message
             c == request.context
  <2>3. /\ "topic_shipping" \in m => Has(c, "orders") /\ Has(c, "logistics")
        /\ "topic_order" \in m => Has(c, "orders")
        /\ "topic_rule" \in m => Has(c, "rules")
        /\ m \cap {"topic_product", "old_product"} # {}
             \/ ("usage" \in m /\ "invoice" \notin m)
           => Has(c, "products") \/ scores # {}
        /\ NeededContext(m, c) \subseteq {"products"}
    BY <2>1, <2>2, DraftsKnow
  <2> HIDE DEF m, c
  <2>4. /\ m \cap {"vague_order", "vague_package"} # {} => Has(c, "orders")
        /\ "in_sale" \in StagesOf(m, c) => Has(c, "orders")
        /\ "shipping" \in m /\ "address_or_note" \notin m
             /\ ("in_sale" \in StagesOf(m, c) \/ "vague_package" \in m) => Has(c, "logistics")
        /\ "repair" \in m \/ "how_after_sale" \in m => Has(c, "rules")
        /\ "returns" \in m /\ "after_sale" \in StagesOf(m, c) => Has(c, "rules")
        /\ "delivery_ambiguous" \notin m
    BY <2>3, StageRulesSettled
  <2>5. /\ /\ "fulfilment" \in m /\ m \cap {"product", "delivered"} = {}
           /\ ~Vague(m) /\ ~Delivered(c)
           => "in_sale" \in StagesOf(m, c)
        /\ "returns" \in m /\ "fulfilment" \notin m /\ ~Vague(m) =>
             "after_sale" \in StagesOf(m, c)
    BY StagesOfMessage
  <2>6. QED
    BY <2>3, <2>4, <2>5 DEF NeverGuesses, m, c
<1>2. QED
  BY <1>1, GraphInvHolds, PTL

\* A response leaves the client one thing to do, and a handoff has its reason.
THEOREM ResponsesOblige == Spec => []OneObligation
<1>1. GraphInv => OneObligation
  <2> SUFFICES ASSUME GraphInv, response # NoResponse PROVE OneObligation
    BY DEF OneObligation
  <2>1. response = Reply(request, answer)
    BY ResponseIsReply
  <2>2. QED
    BY <2>1, ReplyIsSound DEF OneObligation
<1>2. QED
  BY <1>1, GraphInvHolds, PTL

\* The trace shows every edge that was followed and no other, but for the one
\* from generate_candidate.
THEOREM TracesAreSound == Spec => []TraceIsSound
<1>1. GraphInv => TraceIsSound
  BY DEF GraphInv, Typed, TraceIsSound
<1>2. QED
  BY <1>1, GraphInvHolds, PTL

\* Node by node the graph computes the Reply that DecisionService stores.
THEOREM GraphComputesReply == Spec => []ComputesReply
<1>1. GraphInv => ComputesReply
  BY DEF GraphInv, Walk, Ended, ComputesReply
<1>2. QED
  BY <1>1, GraphInvHolds, PTL
=============================================================================
