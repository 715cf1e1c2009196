------------------------- MODULE ReplyDecisionGraph -------------------------
(***************************************************************************)
(* One invocation of the reply-decision graph, node by node                *)
(* (ecommerce_cs_agent/services/decision_graph.py, ReplyDecisionGraph).    *)
(*                                                                         *)
(* The nodes hand a state dictionary to each other; the variables below    *)
(* are the keys of that dictionary which later nodes read.  The database   *)
(* (knowledge recall) and the reply provider answer nondeterministically:  *)
(* they may return anything of the kind the code accepts, or raise.        *)
(***************************************************************************)
EXTENDS ReplyGraph

CONSTANTS
  Requests,     \* the requests that may be sent
  Recalls       \* the sets of knowledge items the database may recall

\* A score is a share of the question's terms, in percent.
ASSUME RecallsAssumption == \A recalled \in Recalls : \A item \in recalled : item.score \in 0 .. 100

VARIABLES
  node,         \* the node about to run, "end", or "raised"
  request,
  scores,       \* matched_knowledge: the scores of the relevant items
  classified,   \* FALSE once the stage classifier has raised (llm_failure)
  risks,        \* risk_flags
  missing,      \* missing_context
  route,
  draft,        \* candidates
  refusal,      \* handoff_reason set by generate_candidate
  taken,        \* taken_conditions
  walked,       \* history: the conditions of the edges really followed
  answer,       \* history: what the outside world answered
  response

vars == << node, request, scores, classified, risks, missing, route, draft,
           refusal, taken, walked, answer, response >>

NoResponse == [action |-> "none"]

Nodes ==
  { "normalize_request", "retrieve_context", "classify_service_stage",
    "classify_intent", "context_gate", "action_gate", "generate_candidate",
    "policy_gate", "persist_trace" }

Init ==
  /\ node = "normalize_request"
  /\ request \in Requests
  /\ scores = {} /\ classified = TRUE
  /\ risks = {} /\ missing = {}
  /\ route = "none" /\ draft = NoDraft /\ refusal = "none"
  /\ taken = {} /\ walked = {}
  /\ answer = [scores |-> {}, classified |-> TRUE, grounded |-> "none", generated |-> TRUE]
  /\ response = NoResponse

\* An exception no node catches leaves invoke: nothing is returned or stored.
Raise ==
  /\ node' = "raised"
  /\ UNCHANGED << request, scores, classified, risks, missing, route, draft,
                  refusal, taken, walked, answer, response >>

NormalizeRequest ==
  /\ node = "normalize_request"
  /\ node' = "retrieve_context"
  /\ walked' = walked \cup {"normalized"}
  /\ UNCHANGED << request, scores, classified, risks, missing, route, draft,
                  refusal, taken, answer, response >>

\* Variant: what is recalled counts, relevant or not.
RetrieveContextUnfiltered ==
  /\ node = "retrieve_context"
  /\ \E recalled \in Recalls :
       /\ scores' = {item.score : item \in recalled}
       /\ answer' = [answer EXCEPT !.scores = scores']
  /\ node' = "classify_service_stage"
  /\ walked' = walked \cup {"context_loaded"}
  /\ UNCHANGED << request, classified, risks, missing, route, draft, refusal,
                  taken, response >>

RetrieveContext ==
  /\ node = "retrieve_context"
  /\ \E recalled \in Recalls :
       /\ scores' = {item.score : item \in {i \in recalled : Relevant(i)}}
       /\ answer' = [answer EXCEPT !.scores = scores']
  /\ node' = "classify_service_stage"
  /\ walked' = walked \cup {"context_loaded"}
  /\ UNCHANGED << request, classified, risks, missing, route, draft, refusal,
                  taken, response >>

RecallFails == node = "retrieve_context" /\ Raise

ClassifyServiceStage ==
  /\ node = "classify_service_stage"
  /\ classified' \in BOOLEAN
  /\ answer' = [answer EXCEPT !.classified = classified']
  /\ missing' = StageNeeds(request.message, request.context, scores # {}, classified')
  /\ node' = "classify_intent"
  /\ walked' = walked \cup {"stage_classified"}
  /\ UNCHANGED << request, scores, risks, route, draft, refusal, taken, response >>

ClassifyIntent ==
  /\ node = "classify_intent"
  /\ risks' = RiskFlags(request.message, classified)
  /\ missing' = missing \cup
       (IF AsksAction(request.message) THEN {}
        ELSE KeywordNeeds(request.message, request.context, scores # {}))
  /\ node' = "context_gate"
  /\ walked' = walked \cup {"intent_classified"}
  /\ UNCHANGED << request, scores, classified, route, draft, refusal, taken,
                  answer, response >>

\* _take: the route and the condition shown in the trace are set together.
Take(condition) ==
  /\ route' = condition
  /\ taken' = taken \cup {condition}

\* Variant: a request that lacks context goes back to retrieve it.
ContextGateRetries ==
  /\ node = "context_gate"
  /\ Take(ContextGate(risks, missing))
  /\ node' = CASE route' = "context_complete" -> "action_gate"
               [] route' = "context_request"  -> "retrieve_context"
               [] OTHER                       -> "policy_gate"
  /\ walked' = walked \cup {route'}
  /\ UNCHANGED << request, scores, classified, risks, missing, draft, refusal,
                  answer, response >>

ContextGateNode ==
  /\ node = "context_gate"
  /\ Take(ContextGate(risks, missing))
  /\ node' = IF route' = "context_complete" THEN "action_gate" ELSE "policy_gate"
  /\ walked' = walked \cup {route'}
  /\ UNCHANGED << request, scores, classified, risks, missing, draft, refusal,
                  answer, response >>

\* Variant: the candidate edge is marked taken whatever the gate says.
ActionGateMarksCandidate ==
  /\ node = "action_gate"
  /\ route' = ActionGate(request.message)
  /\ taken' = taken \cup {"candidate"}
  /\ node' = IF route' = "action_request" THEN "policy_gate" ELSE "generate_candidate"
  /\ walked' = walked \cup {route'}
  /\ UNCHANGED << request, scores, classified, risks, missing, draft, refusal,
                  answer, response >>

ActionGateNode ==
  /\ node = "action_gate"
  /\ Take(ActionGate(request.message))
  /\ node' = IF route' = "action_request" THEN "policy_gate" ELSE "generate_candidate"
  /\ walked' = walked \cup {route'}
  /\ UNCHANGED << request, scores, classified, risks, missing, draft, refusal,
                  answer, response >>

\* Variant: the composer's refusal is noted and the draft goes out.
GenerateIgnoringRefusal ==
  /\ node = "generate_candidate"
  /\ \E grounded \in (IF Grounds(request.context) THEN GroundedOutcomes ELSE {"none"}),
        generated \in BOOLEAN :
       LET asksProvider == grounded \in {"none", "insufficient_context"}
           refused      == grounded \in GroundedRefusals
       IN  /\ answer' = [answer EXCEPT !.grounded = grounded, !.generated = generated]
           /\ IF asksProvider /\ ~generated
              THEN /\ route' = "handoff"
                   /\ risks' = risks \cup {"llm_unavailable"}
                   /\ UNCHANGED << draft, refusal >>
              ELSE /\ draft' = Draft(scores)
                   /\ refusal' = IF refused THEN grounded ELSE refusal
                   /\ UNCHANGED << risks, route >>
  /\ node' = "policy_gate"
  /\ walked' = walked \cup {"candidate_ready"}
  /\ UNCHANGED << request, scores, classified, missing, taken, response >>

(***************************************************************************)
(* generate_candidate: the composer answers or refuses; otherwise the      *)
(* provider generates, or raises and the node routes to a person.          *)
(***************************************************************************)
GenerateCandidate ==
  /\ node = "generate_candidate"
  /\ \E grounded \in (IF Grounds(request.context) THEN GroundedOutcomes ELSE {"none"}),
        generated \in BOOLEAN :
       LET asksProvider == grounded \in {"none", "insufficient_context"}
           refused      == grounded \in GroundedRefusals
       IN  /\ answer' = [answer EXCEPT !.grounded = grounded, !.generated = generated]
           /\ IF asksProvider /\ ~generated
              THEN /\ route' = "handoff"
                   /\ risks' = risks \cup {"llm_unavailable"}
                   /\ UNCHANGED << draft, refusal >>
              ELSE /\ draft' = Draft(scores)
                   /\ refusal' = IF refused THEN grounded ELSE refusal
                   /\ route' = IF refused THEN "handoff" ELSE route
                   /\ UNCHANGED risks
  /\ node' = "policy_gate"
  /\ walked' = walked \cup {"candidate_ready"}
  /\ UNCHANGED << request, scores, classified, missing, taken, response >>

\* rewrite_grounded is called outside the node's try block.
RewriteRaises ==
  /\ node = "generate_candidate"
  /\ Grounds(request.context)
  /\ Raise

PolicyGateNode ==
  /\ node = "policy_gate"
  /\ response' = PolicyGate(route, request, draft, missing, risks, refusal)
  /\ node' = "persist_trace"
  /\ UNCHANGED << request, scores, classified, risks, missing, route, draft,
                  refusal, taken, walked, answer >>

PersistTrace ==
  /\ node = "persist_trace"
  /\ Take("persist")
  /\ walked' = walked \cup {"persist"}
  /\ node' = "end"
  /\ UNCHANGED << request, scores, classified, risks, missing, draft, refusal,
                  answer, response >>

Next ==
  \/ NormalizeRequest
  \/ RetrieveContext
  \/ RecallFails
  \/ ClassifyServiceStage
  \/ ClassifyIntent
  \/ ContextGateNode
  \/ ActionGateNode
  \/ GenerateCandidate
  \/ RewriteRaises
  \/ PolicyGateNode
  \/ PersistTrace

Spec == Init /\ [][Next]_vars /\ WF_vars(Next)

-----------------------------------------------------------------------------
(***************************************************************************)
(* Properties.                                                             *)
(***************************************************************************)

\* Every key of the graph state holds a value its readers expect.
TypeOK ==
  /\ node \in Nodes \cup {"end", "raised"}
  /\ request \in Requests
  /\ scores \subseteq RelevanceThreshold .. 100
  /\ classified \in BOOLEAN
  /\ risks \subseteq {"llm_unavailable", "refund_or_complaint", "cross_tenant_data_access"}
  /\ missing \subseteq CtxTypes
  /\ route \in {"none", "handoff", "context_request", "context_complete",
                "action_request", "candidate", "persist"}
  /\ draft.drafted \in BOOLEAN
  /\ response \in Responses \cup {NoResponse}

(***************************************************************************)
(* A reply is released without a person only when nothing on the way spoke *)
(* against it: no risk word, no failed model call, no refusal of the       *)
(* composer, nothing left to ask for, approved knowledge that really       *)
(* matches, and a request that allowed it (policy_gate).                   *)
(***************************************************************************)
AutoReplyIsSafe ==
  response.action = "auto_reply" =>
    /\ request.message \cap {"risk", "other_tenant", "action", "address_pattern"} = {}
    /\ request.auto /\ ~request.simulation
    /\ answer.classified
    /\ answer.grounded \in {"none", "insufficient_context"} => answer.generated
    /\ answer.grounded \notin GroundedRefusals
    /\ scores # {} /\ missing = {}

(***************************************************************************)
(* The agent never answers a question about facts it was not given: with   *)
(* a reply on the table, everything the message is about is covered by     *)
(* supplied context, or, for products, by knowledge.  Keyword rules and    *)
(* stage rules (_missing_context, _needed_context) must see to it together *)
(* and with the context gate; whether an ambiguous parcel was signed for   *)
(* no context can tell.                                                    *)
(***************************************************************************)
NeverGuesses ==
  response.action \in {"auto_reply", "candidate"} =>
    LET m == request.message
        c == request.context
        About(terms) == m \cap terms # {}
        Underway  == /\ "fulfilment" \in m /\ ~About({"product", "delivered"})
                     /\ ~Vague(m) /\ ~Delivered(c)
        Returning == "returns" \in m /\ "fulfilment" \notin m /\ ~Vague(m)
        Using     == "usage" \in m /\ "invoice" \notin m
        Parcel    == "shipping" \in m /\ "address_or_note" \notin m
    IN  /\ About({"topic_shipping", "topic_order", "vague_order", "vague_package"}) =>
             Has(c, "orders")
        /\ Underway => Has(c, "orders")
        /\ "topic_shipping" \in m => Has(c, "logistics")
        /\ Parcel /\ (Underway \/ "vague_package" \in m) => Has(c, "logistics")
        /\ About({"topic_rule", "repair", "how_after_sale"}) \/ Returning => Has(c, "rules")
        /\ About({"topic_product", "old_product"}) \/ Using =>
             Has(c, "products") \/ scores # {}
        /\ "delivery_ambiguous" \notin m

(***************************************************************************)
(* A decision never waits for a context refill and for an action result at *)
(* once, and hands over to a person only with a reason (policy_gate).      *)
(* submit_action_result and refill_context rely on it: neither looks at    *)
(* the other's pending work.                                               *)
(***************************************************************************)
OneObligation ==
  response # NoResponse =>
    /\ ~ (response.action_requested /\ response.context_requests # {})
    /\ (response.action = "handoff") <=> (response.handoff_reason # "none")

(***************************************************************************)
(* The trace shows as followed the edges that were followed (_trace_graph  *)
(* matches the conditions that nodes report, and always marks the four     *)
(* before the gates), and it hides none of them but one: the edge from     *)
(* generate_candidate, whose condition no node reports, is shown as not    *)
(* taken by a run that went through it, which docs/openapi.yaml line 6112  *)
(* ("whether this run really went through this edge") does not allow.      *)
(***************************************************************************)
AlwaysMarked == {"normalized", "context_loaded", "stage_classified", "intent_classified"}

TraceIsSound ==
  node = "end" =>
    LET shown == taken \cup AlwaysMarked
    IN  shown \subseteq walked /\ walked \subseteq shown \cup {"candidate_ready"}

(***************************************************************************)
(* Run node by node, the graph computes the one-step composition Reply     *)
(* that DecisionService uses for an invocation.                            *)
(***************************************************************************)
ComputesReply == node = "end" => response = Reply(request, answer)

\* Every invocation ends, with a response or with an exception.
Terminates == <>(node \in {"end", "raised"})
=============================================================================
