---------------------------- MODULE ServiceStage ----------------------------
(***************************************************************************)
(* The rule-based service-stage classifier                                 *)
(* (ecommerce_cs_agent/services/service_stage.py).                         *)
(*                                                                         *)
(* Every reply provider ends up with this classifier's needs_context: the  *)
(* model-backed provider overwrites whatever the model returned with the   *)
(* rule baseline (services/llm.py, OpenAICompatibleReplyProvider).         *)
(*                                                                         *)
(* A message is abstracted to the set of term groups it contains: the      *)
(* code only ever asks whether a group of terms occurs.  A context maps    *)
(* each context type to its records, a record being abstracted to its      *)
(* delivery status ("unset" when the status field is empty, and for        *)
(* products and rules, whose status nobody reads): the classifier asks     *)
(* whether there are records and which statuses they have, so a context    *)
(* keeps the set of the statuses.                                          *)
(***************************************************************************)

CtxTypes == {"products", "orders", "logistics", "rules"}

Statuses == {"unset", "pre_delivery", "delivered", "other"}

Stages == {"pre_sale", "in_sale", "after_sale"}

(***************************************************************************)
(* The term groups of service_stage.py, and of decision_graph.py (second   *)
(* group).                                                                 *)
(***************************************************************************)
StageTerms ==
  { "product", "purchase", "repurchase", "fulfilment", "order_ref",
    "usage", "invoice", "quality", "returns", "repair", "repair_part",
    "wants_new", "delivered", "owned", "shipping", "transit",
    "address_or_note", "recommend", "old_product", "how_after_sale",
    "after_sale_word", "vague_order", "vague_package",
    "delivery_ambiguous" }

GraphTerms ==
  { "risk", "other_tenant", "action", "address_pattern",
    "topic_shipping", "topic_product", "topic_order", "topic_rule" }

Terms == StageTerms \cup GraphTerms

(***************************************************************************)
(* Some groups contain others' terms, so a message with the first has the  *)
(* second too: only such messages exist.                                   *)
(***************************************************************************)
Implied ==
  { <<"vague_order", "order_ref">>,   <<"vague_order", "topic_order">>,
    <<"vague_package", "order_ref">>, <<"vague_package", "transit">>,
    <<"order_ref", "fulfilment">>,    <<"transit", "shipping">>,
    <<"address_or_note", "fulfilment">>, <<"invoice", "usage">>,
    <<"repair_part", "repair">>,      <<"old_product", "owned">>,
    <<"old_product", "repurchase">> }

IsMessage(m) ==
  /\ m \subseteq Terms
  /\ \A p \in Implied : p[1] \in m => p[2] \in m
  /\ "vague_order" \in m => m \cap {"quality", "after_sale_word"} # {}

Contexts == [CtxTypes -> SUBSET Statuses]

EmptyContext == [t \in CtxTypes |-> {}]

Has(context, t) == context[t] # {}

Delivered(context) == "delivered" \in context["orders"]

BeforeDelivery(context) ==
  "pre_delivery" \in context["orders"] \cup context["logistics"]

(***************************************************************************)
(* classify_service_stage: the flags the rules derive from the message     *)
(* and the context, in the order the code settles them.                    *)
(***************************************************************************)
Vague(m) == m \cap {"vague_order", "vague_package", "delivery_ambiguous"} # {}

AfterTerms(m) == m \cap {"usage", "quality", "returns", "repair"} # {}

PreProduct(m, context) ==
  /\ "product" \in m
  /\ ~ ( /\ Delivered(context) \/ "delivered" \in m
         /\ AfterTerms(m)
         /\ "purchase" \notin m )

Purchase(m) ==
  /\ "purchase" \in m
  /\ ~ ({"repair", "repair_part"} \subseteq m /\ "wants_new" \notin m)

InSale(m, context) ==
  /\ "fulfilment" \in m /\ "delivered" \notin m
  /\ ~ ("product" \in m /\ ~Has(context, "orders") /\ "order_ref" \notin m)
  /\ ~Vague(m)

After(m) == AfterTerms(m) /\ ~Vague(m)

StagesOf(m, context) ==
  {s \in Stages :
     \/ s = "pre_sale" /\ (Purchase(m) \/ PreProduct(m, context))
     \/ s = "in_sale" /\ InSale(m, context)
                      /\ (BeforeDelivery(context) \/ ~Delivered(context))
     \/ s = "after_sale"
        /\ After(m)
        /\ \/ Delivered(context)
           \/ m \cap {"delivered", "owned", "repair"} # {}
           \/ "returns" \in m /\ ~InSale(m, context)}

(***************************************************************************)
(* _needed_context                                                         *)
(***************************************************************************)
NeedsOrders(m, context, stages) ==
  /\ "in_sale" \in stages \/ m \cap {"vague_order", "vague_package"} # {}
  /\ ~Has(context, "orders")

NeedsLogistics(m, context, stages) ==
  \/ /\ "shipping" \in m
     /\ "in_sale" \in stages \/ "vague_package" \in m
     /\ ~Has(context, "logistics")
     /\ "address_or_note" \notin m
  \/ /\ context["orders"] = {"unset"}
     /\ "after_sale_word" \in m
  \/ "delivery_ambiguous" \in m

NeedsProducts(m, context, stages) ==
  /\ \/ "pre_sale" \in stages /\ (PreProduct(m, context) \/ "recommend" \in m)
     \/ "usage" \in m /\ "invoice" \notin m
     \/ "old_product" \in m
  /\ ~Has(context, "products")

\* Variant: every rule waits for the after-sale stage.
NeedsRulesAfterSale(m, context, stages) ==
  /\ m \cap {"returns", "repair", "how_after_sale"} # {} /\ "after_sale" \in stages
  /\ ~Has(context, "rules")

NeedsRules(m, context, stages) ==
  /\ \/ "returns" \in m /\ "after_sale" \in stages
     \/ "repair" \in m
     \/ "how_after_sale" \in m
  /\ ~Has(context, "rules")

NeededContext(m, context) ==
  LET stages == StagesOf(m, context)
  IN  {t \in CtxTypes :
         \/ t = "orders"    /\ NeedsOrders(m, context, stages)
         \/ t = "logistics" /\ NeedsLogistics(m, context, stages)
         \/ t = "products"  /\ NeedsProducts(m, context, stages)
         \/ t = "rules"     /\ NeedsRules(m, context, stages)}
=============================================================================
