--------------------------- MODULE MCLlmGovernance ---------------------------
(***************************************************************************)
(* Finite instances of LlmGovernance.                                      *)
(***************************************************************************)
EXTENDS LlmGovernance, TLC

CONSTANTS p1, k1, k2

\* One provider, two drafts, a key for each of them, and one rollback of the first.
MCKeysOf ==
  [op \in Ops |->
     CASE op = "create_draft" -> 0 :> {k1, k2}
       [] op \in {"create_provider", "update_provider"} -> 0 :> {k1}
       [] op = "rollback" -> <<{k1}>>
       [] OTHER -> <<{k1}, {k2}>>]

MCChanges == [create |-> {"enable"}, update |-> {"disable"}]

AdminSymmetry == Permutations(Admins)
=============================================================================
