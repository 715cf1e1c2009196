---------------------------- MODULE MCDeployment ----------------------------
(***************************************************************************)
(* Finite instances of Deployment: two tags and three files, of which the  *)
(* second tag changes one and adds one.                                    *)
(***************************************************************************)
EXTENDS DeploymentClaims, TLC

CONSTANTS t1, t2

MCShipped == t1 :> <<"a", "b">> @@ t2 :> <<"a", "c", "d">>

\* The pods of a Job are alike.
PodSymmetry == Permutations(JobPods)

\* A gate that cannot pass any more, or whose image was replaced after it had
\* seen it, has nothing left to show: neither comes back, and what the database
\* and the cluster do from there on, they also do beside a gate that waits.
GateMayPass ==
  /\ gate.ok
  /\ gate.at \in {"schema", "health", "eval", "reported"} => gate.steady
=============================================================================
