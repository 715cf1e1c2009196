--------------------------- MODULE MCModelServing ---------------------------
(***************************************************************************)
(* Finite instances of the two components that bring a model's answer into *)
(* a reply: the calls of a reply and the transport under them.  They share *)
(* no state, and nothing is claimed of them together: a behaviour moves    *)
(* one of them, chosen at its start, and the other stays as it started, so *)
(* that one run checks both and the numbers of states add up.              *)
(***************************************************************************)
EXTENDS ModelCalls, ProviderTransport

VARIABLE moving   \* the component that this behaviour moves

servingVars == << moving, callsVars, transportVars >>

Init == moving \in {"calls", "transport"} /\ CallsInit /\ TransportInit

Next ==
  \/ moving = "calls" /\ CallsNext /\ UNCHANGED << moving, transportVars >>
  \/ moving = "transport" /\ TransportNext /\ UNCHANGED << moving, callsVars >>

Spec == Init /\ [][Next]_servingVars /\ CallsFairness /\ TransportFairness

\* Types: those of the two components.
TypeOK == CallsTypeOK /\ TransportTypeOK
=============================================================================
