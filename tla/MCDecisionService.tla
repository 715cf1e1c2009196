------------------------- MODULE MCDecisionService -------------------------
(***************************************************************************)
(* Finite instances of DecisionService: the calls of some typical clients. *)
(***************************************************************************)
EXTENDS DecisionClaims, TLC

CONSTANTS d1, d2, o1

Ask(m) == [message |-> m, context |-> EmptyContext, auto |-> TRUE, simulation |-> FALSE]

Create(d, m) == [op |-> "create", d |-> d, request |-> Ask(m)]

Refill(d, t, key, statuses) ==
  [ op |-> "mutate", d |-> d,
    body |-> [ op |-> "refill", mine |-> TRUE, id |-> t, url |-> t,
               key |-> key, payload |-> statuses ] ]

Result(d, key, status) ==
  [ op |-> "mutate", d |-> d,
    body |-> [ op |-> "result", mine |-> TRUE, id |-> "action", url |-> "none",
               key |-> key, payload |-> {status} ] ]

Feedback(d) ==
  [ op |-> "mutate", d |-> d,
    body |-> [ op |-> "feedback", mine |-> TRUE, id |-> "none", url |-> "none",
               key |-> "none", payload |-> {} ] ]

NotMine(c) == [c EXCEPT !.body.mine = FALSE]

WhereIsIt == {"topic_shipping"}      \* asks for orders and logistics
ChangeIt  == {"action"}              \* asks for an external action
WhatIsIt  == {"topic_product"}

MCOrgOf1 == d1 :> o1
MCOrgOf2 == d1 :> o1 @@ d2 :> o1

MCScoreSets == {{}, {80}}

\* Two contexts to refill, a retry under a new key, a conflict, a stranger.
RefillCallsOf1 ==
  { Create(d1, WhereIsIt),
    Refill(d1, "orders", "k1", {"pre_delivery"}),
    Refill(d1, "orders", "k2", {}),
    Refill(d1, "logistics", "k1", {"pre_delivery"}),
    Refill(d1, "logistics", "k1", {}),
    NotMine(Refill(d1, "orders", "k1", {"pre_delivery"})) }

\* A client that finds no records the first time it is asked.
NothingFoundOf1 ==
  { Create(d1, WhereIsIt) }
    \cup {Refill(d1, t, key, {}) : t \in {"orders", "logistics"}, key \in {"k1", "k2"}}

\* An action with two results and feedback on it.
ResultCallsOf1 ==
  { Create(d1, ChangeIt), Result(d1, "k1", "succeeded"), Result(d1, "k2", "failed"),
    Feedback(d1) }

\* Two decisions of one organization: an action, a conflict, a stranger, a refill.
CallsOf2 ==
  { Create(d1, ChangeIt), Result(d1, "k1", "timeout"), Result(d1, "k1", "failed"),
    NotMine(Result(d1, "k1", "timeout")), Feedback(d1),
    Refill(d1, "products", "k1", {"unset"}),
    Create(d2, WhatIsIt), Refill(d2, "products", "k1", {"unset"}) }
=============================================================================
