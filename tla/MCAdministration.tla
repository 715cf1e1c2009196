-------------------------- MODULE MCAdministration --------------------------
(***************************************************************************)
(* Finite instances of six components around the answering of messages:    *)
(* which model serves a node, the sessions of administrators, what         *)
(* operators create, the retries of tasks, product content, and migrations *)
(* with a release.  They share no state, and nothing is claimed of them    *)
(* together: a behaviour moves one of them, chosen at its start, and the   *)
(* others stay as they started, so that one run checks each and the        *)
(* numbers of states add up.  Deployment has many initial states; the      *)
(* one where the database is empty goes with the others (`Quiet`).         *)
(***************************************************************************)
EXTENDS LlmNodes, Accounts, SystemAdmin, TaskRetry, Catalog, MCDeployment

CONSTANT Threads

VARIABLE moving   \* the component that this behaviour moves

\* The threads of a component are alike.
ThreadSymmetry == Permutations(Threads)

componentVars ==
  << nodesVars, accountsVars, systemVars, retryVars, catalogVars, deploymentVars >>

administrationVars == << moving, componentVars >>

\* A database without migrations: where Deployment stays when others move.
Quiet == \A v \in Files : recorded[v] = NoRow

Init ==
  /\ moving \in {"nodes", "accounts", "operators", "retries", "catalog", "deployment"}
  /\ NodesInit /\ AccountsInit /\ SystemInit /\ RetryInit /\ CatalogInit /\ DeploymentInit
  /\ moving = "deployment" \/ Quiet

Next ==
  \/ /\ moving = "nodes" /\ NodesNext
     /\ UNCHANGED << moving, accountsVars, systemVars, retryVars, catalogVars,
                    deploymentVars >>
  \/ /\ moving = "accounts" /\ AccountsNext
     /\ UNCHANGED << moving, nodesVars, systemVars, retryVars, catalogVars,
                    deploymentVars >>
  \/ /\ moving = "operators" /\ SystemNext
     /\ UNCHANGED << moving, nodesVars, accountsVars, retryVars, catalogVars,
                    deploymentVars >>
  \/ /\ moving = "retries" /\ RetryNext
     /\ UNCHANGED << moving, nodesVars, accountsVars, systemVars, catalogVars,
                    deploymentVars >>
  \/ /\ moving = "catalog" /\ CatalogNext
     /\ UNCHANGED << moving, nodesVars, accountsVars, systemVars, retryVars,
                    deploymentVars >>
  \/ /\ moving = "deployment" /\ DeploymentNext
     /\ UNCHANGED << moving, nodesVars, accountsVars, systemVars, retryVars, catalogVars >>

Spec == Init /\ [][Next]_administrationVars

\* Types: those of the six components.
TypeOK ==
  /\ NodesTypeOK /\ AccountsTypeOK /\ SystemTypeOK /\ RetryTypeOK /\ CatalogTypeOK
  /\ DeploymentTypeOK
=============================================================================
