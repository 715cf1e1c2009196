------------------------- MODULE ServedConfiguration -------------------------
(***************************************************************************)
(* What the governance of LLM configurations promises to the reply runtime *)
(* of an organization, without administrators, transactions or locks: it   *)
(* is served at most one version, always with the providers that a version *)
(* of its organization was evaluated with, and from the first publication  *)
(* on it is never left without one.                                        *)
(*                                                                         *)
(* LlmGovernance is shown to implement it.                                 *)
(***************************************************************************)
CONSTANT Orgs

VARIABLES
  approved,     \* what was evaluated: a version, its organization, the providers it uses
  served        \* [Orgs -> {} or the one version that is served, with its providers]

vars == << approved, served >>

Init ==
  /\ approved = {}
  /\ served = [o \in Orgs |-> {}]

\* A version is approved as it is: it is not approved again with other providers.
Approve ==
  /\ \E a \in approved' :
       /\ \A b \in approved : b.version # a.version
       /\ approved' = approved \cup {a}
  /\ UNCHANGED served

\* One organization goes over to another version, and to nothing unapproved.
Serve(o) ==
  /\ \E s \in served'[o] :
       /\ served' = [served EXCEPT ![o] = {s}]
       /\ \A r \in served[o] : r.version # s.version
       /\ \E a \in approved : a.org = o /\ a.uses = s.uses
  /\ UNCHANGED approved

Next == Approve \/ \E o \in Orgs : Serve(o)

Spec == Init /\ [][Next]_vars
=============================================================================
