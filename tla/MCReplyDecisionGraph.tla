------------------------ MODULE MCReplyDecisionGraph ------------------------
(***************************************************************************)
(* A finite instance of ReplyDecisionGraph: the messages with at most two  *)
(* term groups (closed under the implied ones), a context per interesting  *)
(* combination of supplied types and order status, and every mode.         *)
(***************************************************************************)
EXTENDS ReplyDecisionGraph, FiniteSets

CONSTANT Reach    \* the term groups the messages are drawn from

Step(m) == m \cup {p[2] : p \in {q \in Implied : q[1] \in m}}
           \cup (IF "vague_order" \in m THEN {"quality"} ELSE {})

Closure(m) == Step(Step(Step(m)))

MCMessages == {Closure({a, b}) : a, b \in Reach} \cup {{}}

MCContexts ==
  { EmptyContext,
    [EmptyContext EXCEPT !["orders"] = {"pre_delivery"}],
    [EmptyContext EXCEPT !["products"] = {"unset"}, !["rules"] = {"unset"}],
    [t \in CtxTypes |-> {"unset"}],
    [[t \in CtxTypes |-> {"unset"}] EXCEPT !["orders"] = {"unset", "delivered"}] }

MCRequests ==
  [message : MCMessages, context : MCContexts, auto : {TRUE}, simulation : {FALSE}]
    \cup [ message : {m \in MCMessages : Cardinality(m) <= 1},
           context : MCContexts, auto : BOOLEAN, simulation : BOOLEAN ]

Item(score, signal, bound) == [score |-> score, signal |-> signal, bound |-> bound]

\* Scores on both sides of the 0.7 threshold, and both ways of not counting.
MCRecalls ==
  { {}, {Item(69, TRUE, TRUE), Item(100, FALSE, TRUE), Item(100, TRUE, FALSE)},
    {Item(70, TRUE, TRUE)}, {Item(70, TRUE, TRUE), Item(100, TRUE, TRUE)} }
=============================================================================
