-------------------------- MODULE ReplyGraphProofs --------------------------
(***************************************************************************)
(* What the operators of ReplyGraph and ServiceStage return, for every     *)
(* message, context and answer of the outside world.  The theorems about   *)
(* the graph run node by node (ReplyDecisionGraphProofs) and about the     *)
(* decisions that are stored (DecisionServiceProofs) rest on these.        *)
(***************************************************************************)
EXTENDS ReplyGraph, TLAPS

-----------------------------------------------------------------------------
(***************************************************************************)
(* What Reply returns.                                                     *)
(***************************************************************************)
MissingFor(r, a) == MissingContext(r.message, r.context, a.scores # {}, a.classified)

RisksFor(r, a) == RiskFlags(r.message, a.classified)

\* The request reaches generate_candidate.
Drafts(r, a) ==
  /\ ContextGate(RisksFor(r, a), MissingFor(r, a)) = "context_complete"
  /\ ActionGate(r.message) = "candidate"

ProviderFailed(a) == a.grounded \in {"none", "insufficient_context"} /\ ~a.generated

LEMMA MissingIsTypes ==
  ASSUME NEW r, NEW a
  PROVE  MissingFor(r, a) \in SUBSET CtxTypes
BY DEF MissingFor, MissingContext, StageNeeds, NeededContext, KeywordNeeds

LEMMA GateRoutes ==
  ASSUME NEW flags, NEW needed
  PROVE  /\ ContextGate(flags, needed) \in {"handoff", "context_request", "context_complete"}
         /\ ContextGate(flags, needed) = "context_complete" => flags = {} /\ needed = {}
BY DEF ContextGate

LEMMA ActionRoutes ==
  ASSUME NEW m
  PROVE  /\ ActionGate(m) \in {"action_request", "candidate"}
         /\ ActionGate(m) = "candidate" => ~AsksAction(m)
BY DEF ActionGate

\* A run that does not reach generate_candidate.
LEMMA ReplyAtGate ==
  ASSUME NEW r, NEW a, ~Drafts(r, a),
         NEW to, to = (IF ContextGate(RisksFor(r, a), MissingFor(r, a)) = "context_complete"
                         THEN ActionGate(r.message)
                         ELSE ContextGate(RisksFor(r, a), MissingFor(r, a)))
  PROVE  /\ Reply(r, a) = PolicyGate(to, r, NoDraft, MissingFor(r, a), RisksFor(r, a), "none")
         /\ to \in {"handoff", "context_request", "action_request"}
         /\ to = "action_request" => MissingFor(r, a) = {}
<1>1. to # "candidate" /\ to \in {"handoff", "context_request", "action_request"}
  BY GateRoutes, ActionRoutes DEF Drafts
<1>2. Reply(r, a) = PolicyGate(to, r, NoDraft, MissingFor(r, a), RisksFor(r, a), "none")
  BY <1>1 DEF Reply, MissingFor, RisksFor
<1>3. to = "action_request" => MissingFor(r, a) = {}
  BY GateRoutes
<1>4. QED
  BY <1>1, <1>2, <1>3

LEMMA ReplyAfterFailure ==
  ASSUME NEW r, NEW a, Drafts(r, a), ProviderFailed(a)
  PROVE  Reply(r, a) = PolicyGate("handoff", r, NoDraft, MissingFor(r, a),
                                  RisksFor(r, a) \cup {"llm_unavailable"}, "none")
BY DEF Reply, MissingFor, RisksFor, Drafts, ProviderFailed

LEMMA ReplyAfterDraft ==
  ASSUME NEW r, NEW a, Drafts(r, a), ~ProviderFailed(a)
  PROVE  /\ a.grounded \in GroundedRefusals =>
              Reply(r, a) = PolicyGate("handoff", r, Draft(a.scores), MissingFor(r, a),
                                       RisksFor(r, a), a.grounded)
         /\ a.grounded \notin GroundedRefusals =>
              Reply(r, a) = PolicyGate("candidate", r, Draft(a.scores), MissingFor(r, a),
                                       RisksFor(r, a), "none")
<1>1. a.grounded \in GroundedRefusals => a.grounded # "none"
  BY DEF GroundedRefusals
<1>2. QED
  BY <1>1 DEF Reply, MissingFor, RisksFor, Drafts, ProviderFailed

\* What x promises as the response to a route, with draft d.
Responds(x, to, r, d) ==
  /\ x \in Responses
  /\ ~ (x.action_requested /\ x.context_requests # {})
  /\ (x.action = "handoff") <=> (x.handoff_reason # "none")
  /\ x.action \in {"auto_reply", "candidate"} <=> to = "candidate"
  /\ x.action = "auto_reply" => AutoReplyEligible(r, d.confidence)

\* policy_gate keeps the promise whatever the nodes before it left.
LEMMA PolicyGateResponds ==
  ASSUME NEW to \in {"handoff", "context_request", "action_request", "candidate"},
         NEW r, NEW d, NEW needed \in SUBSET CtxTypes, NEW flags,
         NEW refused \in GroundedRefusals \cup {"none"},
         to = "action_request" => needed = {},
         NEW x, x = PolicyGate(to, r, d, needed, flags, refused)
  PROVE  Responds(x, to, r, d)
<1> DEFINE action == PolicyAction(to, r, d)
           reason == IF to = "handoff" THEN HandoffReason(refused, flags) ELSE "none"
           asked == to = "action_request"
<1>1. /\ action \in Actions
      /\ action = "handoff" <=> to = "handoff"
      /\ action \in {"auto_reply", "candidate"} <=> to = "candidate"
      /\ action = "auto_reply" => AutoReplyEligible(r, d.confidence)
  BY DEF PolicyAction, Actions
<1>2. reason \in HandoffReasons /\ (reason # "none" <=> to = "handoff")
  BY DEF HandoffReason, HandoffReasons, GroundedRefusals
<1>3. PolicyStatus(action) \in {PolicyStatus(b) : b \in Actions}
  BY <1>1
<1>4. x = [ action |-> action, decision_status |-> PolicyStatus(action),
            context_requests |-> needed, action_requested |-> asked,
            handoff_reason |-> reason ]
  BY DEF PolicyGate
<1>5. asked \in BOOLEAN /\ (asked = TRUE => needed = {})
  OBVIOUS
<1> HIDE DEF action, reason, asked
<1>6. x \in Responses
  BY <1>1, <1>2, <1>3, <1>4, <1>5 DEF Responses
<1>7. /\ x.action = action /\ x.context_requests = needed /\ x.handoff_reason = reason
      /\ x.action_requested = asked
  BY <1>4
<1>8. ~ (x.action_requested /\ x.context_requests # {})
  BY <1>5, <1>7
<1>9. (x.action = "handoff") <=> (x.handoff_reason # "none")
  BY <1>1, <1>2, <1>7
<1>10. /\ x.action \in {"auto_reply", "candidate"} <=> to = "candidate"
       /\ x.action = "auto_reply" => AutoReplyEligible(r, d.confidence)
  BY <1>1, <1>7
<1>11. QED
  BY <1>6, <1>8, <1>9, <1>10 DEF Responds

(***************************************************************************)
(* Whatever is asked and answered: the reply is a response with at most    *)
(* one obligation, and a released one has passed both gates, the composer  *)
(* and the provider.                                                       *)
(***************************************************************************)
LEMMA ReplyIsSound ==
  ASSUME NEW r, NEW a, NEW x, x = Reply(r, a)
  PROVE  /\ x \in Responses
         /\ ~ (x.action_requested /\ x.context_requests # {})
         /\ (x.action = "handoff") <=> (x.handoff_reason # "none")
         /\ x.action \in {"auto_reply", "candidate"} =>
              /\ Drafts(r, a) /\ ~ProviderFailed(a) /\ a.grounded \notin GroundedRefusals
              /\ x.action = "auto_reply" => AutoReplyEligible(r, Draft(a.scores).confidence)
<1> DEFINE needed == MissingFor(r, a)
           flags == RisksFor(r, a)
<1>1. needed \in SUBSET CtxTypes /\ (Drafts(r, a) => needed = {})
  BY MissingIsTypes, GateRoutes DEF Drafts
<1>2. "none" \in GroundedRefusals \cup {"none"}
  OBVIOUS
<1>3. CASE ~Drafts(r, a)
  <2> DEFINE gate == ContextGate(flags, needed)
             to == IF gate = "context_complete" THEN ActionGate(r.message) ELSE gate
  <2>1. /\ x = PolicyGate(to, r, NoDraft, needed, flags, "none")
        /\ to \in {"handoff", "context_request", "action_request"}
        /\ to = "action_request" => needed = {}
    BY <1>3, ReplyAtGate
  <2> HIDE DEF to, needed, flags
  <2>2. to \in {"handoff", "context_request", "action_request", "candidate"}
    BY <2>1
  <2>3. Responds(x, to, r, NoDraft)
    BY <1>1, <1>2, <2>1, <2>2, PolicyGateResponds
  <2>4. to # "candidate"
    BY <2>1
  <2>5. QED
    BY <2>3, <2>4 DEF Responds
<1>4. CASE Drafts(r, a) /\ ProviderFailed(a)
  <2> DEFINE more == flags \cup {"llm_unavailable"}
  <2>1. x = PolicyGate("handoff", r, NoDraft, needed, more, "none")
    BY <1>4, ReplyAfterFailure
  <2> HIDE DEF needed, more
  <2>2. Responds(x, "handoff", r, NoDraft)
    BY <1>1, <1>2, <2>1, PolicyGateResponds
  <2>3. QED
    BY <2>2 DEF Responds
<1>5. CASE Drafts(r, a) /\ ~ProviderFailed(a)
  <2> DEFINE d == Draft(a.scores)
  <2>1. CASE a.grounded \in GroundedRefusals
    <3>1. x = PolicyGate("handoff", r, d, needed, flags, a.grounded)
      BY <1>5, <2>1, ReplyAfterDraft
    <3> HIDE DEF needed, flags, d
    <3>2. Responds(x, "handoff", r, d)
      BY <1>1, <2>1, <3>1, PolicyGateResponds
    <3>3. QED
      BY <3>2 DEF Responds
  <2>2. CASE a.grounded \notin GroundedRefusals
    <3>1. x = PolicyGate("candidate", r, d, needed, flags, "none")
      BY <1>5, <2>2, ReplyAfterDraft
    <3> HIDE DEF needed, flags, d
    <3>2. Responds(x, "candidate", r, d)
      BY <1>1, <1>2, <3>1, PolicyGateResponds
    <3>3. QED
      BY <1>5, <2>2, <3>2 DEF Responds, d
  <2>3. QED
    BY <2>1, <2>2
<1>6. QED
  BY <1>3, <1>4, <1>5

\* Without knowledge the confidence stays below the threshold of auto_reply.
LEMMA AutoReplyKnows ==
  ASSUME NEW r, NEW scored, AutoReplyEligible(r, Draft(scored).confidence)
  PROVE  scored # {} /\ r.auto /\ ~r.simulation
BY DEF AutoReplyEligible, Draft, BaseConfidence, AutoReplyConfidence

\* What the stage rules make sure of where they ask for nothing.
LEMMA StageRulesSettled ==
  ASSUME NEW m, NEW c, NeededContext(m, c) \subseteq {"products"}
  PROVE  /\ m \cap {"vague_order", "vague_package"} # {} => Has(c, "orders")
         /\ "in_sale" \in StagesOf(m, c) => Has(c, "orders")
         /\ "shipping" \in m /\ "address_or_note" \notin m
              /\ ("in_sale" \in StagesOf(m, c) \/ "vague_package" \in m) => Has(c, "logistics")
         /\ "repair" \in m \/ "how_after_sale" \in m => Has(c, "rules")
         /\ "returns" \in m /\ "after_sale" \in StagesOf(m, c) => Has(c, "rules")
         /\ "delivery_ambiguous" \notin m
<1> DEFINE stages == StagesOf(m, c)
<1>1. /\ ~NeedsOrders(m, c, stages) /\ ~NeedsLogistics(m, c, stages)
      /\ ~NeedsRules(m, c, stages)
  BY DEF NeededContext, CtxTypes
<1> HIDE DEF stages
<1>2. QED
  BY <1>1 DEF NeedsOrders, NeedsLogistics, NeedsRules, stages

\* A parcel under way and goods that go back are in the stages that ask.
LEMMA StagesOfMessage ==
  ASSUME NEW m, NEW c, ~Vague(m)
  PROVE  /\ /\ "fulfilment" \in m /\ m \cap {"product", "delivered"} = {}
            /\ ~Delivered(c)
            => "in_sale" \in StagesOf(m, c)
         /\ "returns" \in m /\ "fulfilment" \notin m => "after_sale" \in StagesOf(m, c)
<1>1. "in_sale" \in Stages /\ "after_sale" \in Stages
  BY DEF Stages
<1>2. ASSUME "fulfilment" \in m, m \cap {"product", "delivered"} = {}, ~Delivered(c)
      PROVE  "in_sale" \in StagesOf(m, c)
  BY <1>1, <1>2 DEF StagesOf, InSale
<1>3. ASSUME "returns" \in m, "fulfilment" \notin m
      PROVE  "after_sale" \in StagesOf(m, c)
  <2>1. After(m) /\ ~InSale(m, c)
    BY <1>3 DEF After, AfterTerms, InSale
  <2>2. QED
    BY <1>1, <1>3, <2>1 DEF StagesOf
<1>4. QED
  BY <1>2, <1>3

\* A request that reaches generate_candidate has the context it is about.
LEMMA DraftsKnow ==
  ASSUME NEW r, NEW a, a.classified \in BOOLEAN, Drafts(r, a)
  PROVE  /\ MissingFor(r, a) = {} /\ a.classified
         /\ r.message \cap {"risk", "other_tenant", "action", "address_pattern"} = {}
         /\ "topic_shipping" \in r.message => Has(r.context, "orders") /\ Has(r.context, "logistics")
         /\ "topic_order" \in r.message => Has(r.context, "orders")
         /\ "topic_rule" \in r.message => Has(r.context, "rules")
         /\ "topic_product" \in r.message => Has(r.context, "products") \/ a.scores # {}
         /\ NeededContext(r.message, r.context) \subseteq {"products"}
         /\ "usage" \in r.message /\ "invoice" \notin r.message =>
              Has(r.context, "products") \/ a.scores # {}
         /\ "old_product" \in r.message => Has(r.context, "products") \/ a.scores # {}
<1>1. RisksFor(r, a) = {} /\ MissingFor(r, a) = {} /\ ~AsksAction(r.message)
  BY GateRoutes, ActionRoutes DEF Drafts
<1>2. a.classified /\ "risk" \notin r.message /\ "other_tenant" \notin r.message
  BY <1>1 DEF RisksFor, RiskFlags
<1>3. /\ KeywordNeeds(r.message, r.context, a.scores # {}) = {}
      /\ StageNeeds(r.message, r.context, a.scores # {}, a.classified) = {}
  BY <1>1 DEF MissingFor, MissingContext
<1>4. \A t \in CtxTypes : t \notin KeywordNeeds(r.message, r.context, a.scores # {})
  BY <1>3
<1>5. NeededContext(r.message, r.context) \subseteq
        IF a.scores # {} THEN {"products"} ELSE {}
  BY <1>1, <1>2, <1>3 DEF StageNeeds, Satisfied
<1>6. /\ ("usage" \in r.message /\ "invoice" \notin r.message) \/ "old_product" \in r.message
      /\ ~Has(r.context, "products")
      => "products" \in NeededContext(r.message, r.context)
  BY DEF NeededContext, NeedsProducts, CtxTypes
<1>7. QED
  BY <1>1, <1>2, <1>4, <1>5, <1>6 DEF KeywordNeeds, CtxTypes, AsksAction

-----------------------------------------------------------------------------
(***************************************************************************)
(* What a reply asks for.  Logistics is asked for although it was supplied *)
(* in two cases of _needed_context: a buyer who does not know whether the  *)
(* parcel was signed for, and an after-sale question about orders none of  *)
(* which has a status.                                                     *)
(***************************************************************************)
AsksLogisticsAgain(m, context) ==
  \/ "delivery_ambiguous" \in m
  \/ context["orders"] = {"unset"} /\ "after_sale_word" \in m

LEMMA MissingIsNotSupplied ==
  ASSUME NEW m, NEW context, NEW known, NEW classified,
         NEW t \in MissingContext(m, context, known, classified)
  PROVE  ~Has(context, t) \/ (t = "logistics" /\ AsksLogisticsAgain(m, context))
<1>1. CASE t \in KeywordNeeds(m, context, known)
  BY <1>1 DEF KeywordNeeds
<1>2. CASE t \in NeededContext(m, context)
  BY <1>2 DEF NeededContext, NeedsOrders, NeedsLogistics, NeedsProducts, NeedsRules,
              AsksLogisticsAgain
<1>3. QED
  BY <1>1, <1>2 DEF MissingContext, StageNeeds

\* A reply asks for what the two classifications found missing, on every route.
LEMMA ReplyAsksForMissing ==
  ASSUME NEW r, NEW a
  PROVE  Reply(r, a).context_requests = MissingFor(r, a)
<1>1. \A to, d, needed, flags, refused : PolicyGate(to, r, d, needed, flags, refused).context_requests = needed
  BY DEF PolicyGate
<1>2. CASE ~Drafts(r, a)
  BY <1>1, <1>2, ReplyAtGate
<1>3. CASE Drafts(r, a) /\ ProviderFailed(a)
  <2> DEFINE more == RisksFor(r, a) \cup {"llm_unavailable"}
  <2>1. Reply(r, a) = PolicyGate("handoff", r, NoDraft, MissingFor(r, a), more, "none")
    BY <1>3, ReplyAfterFailure
  <2> HIDE DEF more
  <2>2. QED
    BY <1>1, <2>1
<1>4. CASE Drafts(r, a) /\ ~ProviderFailed(a)
  BY <1>1, <1>4, ReplyAfterDraft
<1>5. QED
  BY <1>2, <1>3, <1>4

(***************************************************************************)
(* A buyer who does not know whether the parcel was signed for is asked    *)
(* for logistics whatever context comes with the message, so no answer is  *)
(* ever drafted.                                                           *)
(***************************************************************************)
LEMMA AmbiguousIsNotAnswered ==
  ASSUME NEW r, "delivery_ambiguous" \in r.message, ~AsksAction(r.message),
         NEW a, a.classified \in BOOLEAN
  PROVE  Reply(r, a).action \in {"handoff", "context_request"}
<1> DEFINE needed == MissingFor(r, a)
           flags == RisksFor(r, a)
           gate == ContextGate(flags, needed)
<1>1. a.classified => "logistics" \in needed
  <2>1. "logistics" \in NeededContext(r.message, r.context)
    BY DEF NeededContext, NeedsLogistics, CtxTypes
  <2>2. "logistics" \notin Satisfied(r.message, a.scores # {})
    BY DEF Satisfied
  <2>3. QED
    BY <2>1, <2>2 DEF MissingFor, MissingContext, StageNeeds
<1>2. ~a.classified => "llm_unavailable" \in flags
  BY DEF RisksFor, RiskFlags
<1>3. gate \in {"handoff", "context_request"}
  BY <1>1, <1>2 DEF ContextGate
<1>4. ~Drafts(r, a)
  BY <1>3 DEF Drafts
<1>5. Reply(r, a) = PolicyGate(gate, r, NoDraft, needed, flags, "none")
  BY <1>3, <1>4, ReplyAtGate
<1> HIDE DEF gate, needed, flags
<1>6. QED
  BY <1>3, <1>5 DEF PolicyGate, PolicyAction

(***************************************************************************)
(* What x promises as a reply to the request r, whatever the outside world *)
(* answered: policy_gate's promises in terms of the request.               *)
(***************************************************************************)
Fits(x, r) ==
  /\ x \in Responses
  /\ ~ (x.action_requested /\ x.context_requests # {})
  /\ (x.action = "handoff") <=> (x.handoff_reason # "none")
  /\ \A t \in x.context_requests :
       ~Has(r.context, t) \/ (t = "logistics" /\ AsksLogisticsAgain(r.message, r.context))
  /\ x.action \in {"auto_reply", "candidate"} =>
       /\ x.context_requests = {}
       /\ r.message \cap {"risk", "other_tenant", "action", "address_pattern",
                          "delivery_ambiguous"} = {}
       /\ "topic_shipping" \in r.message => Has(r.context, "orders") /\ Has(r.context, "logistics")
       /\ "topic_order" \in r.message => Has(r.context, "orders")
       /\ "topic_rule" \in r.message => Has(r.context, "rules")
  /\ x.action = "auto_reply" => r.auto /\ ~r.simulation

LEMMA RepliesFit ==
  ASSUME NEW r, NEW a, a.classified \in BOOLEAN, NEW x, x = Reply(r, a)
  PROVE  Fits(x, r)
<1>1. /\ x \in Responses
      /\ ~ (x.action_requested /\ x.context_requests # {})
      /\ (x.action = "handoff") <=> (x.handoff_reason # "none")
  BY ReplyIsSound
<1>2. x.context_requests = MissingFor(r, a)
  BY ReplyAsksForMissing
<1>3. \A t \in x.context_requests :
        ~Has(r.context, t) \/ (t = "logistics" /\ AsksLogisticsAgain(r.message, r.context))
  BY <1>2, MissingIsNotSupplied DEF MissingFor
<1>4. ASSUME x.action \in {"auto_reply", "candidate"}
      PROVE  /\ x.context_requests = {}
             /\ r.message \cap {"risk", "other_tenant", "action", "address_pattern",
                                "delivery_ambiguous"} = {}
             /\ "topic_shipping" \in r.message =>
                  Has(r.context, "orders") /\ Has(r.context, "logistics")
             /\ "topic_order" \in r.message => Has(r.context, "orders")
             /\ "topic_rule" \in r.message => Has(r.context, "rules")
             /\ x.action = "auto_reply" => r.auto /\ ~r.simulation
  <2>1. Drafts(r, a) /\ (x.action = "auto_reply" => AutoReplyEligible(r, Draft(a.scores).confidence))
    BY <1>4, ReplyIsSound
  <2>2. "delivery_ambiguous" \notin r.message
    <3>1. ~AsksAction(r.message)
      BY <2>1, ActionRoutes DEF Drafts
    <3>2. x.action \notin {"handoff", "context_request"}
      BY <1>4
    <3>3. QED
      BY <3>1, <3>2, AmbiguousIsNotAnswered
  <2>3. x.action = "auto_reply" => r.auto /\ ~r.simulation
    BY <2>1, AutoReplyKnows
  <2>4. QED
    BY <1>2, <2>1, <2>2, <2>3, DraftsKnow
<1>5. QED
  BY <1>1, <1>3, <1>4 DEF Fits
=============================================================================
