-------------------------- MODULE DeploymentClaims --------------------------
(***************************************************************************)
(* What the documents say of migrations and of the release gate and the    *)
(* code does not do: each is checked by a run of its own and found         *)
(* violated.                                                               *)
(***************************************************************************)
EXTENDS Deployment

(***************************************************************************)
(* docs/database-migrations.md line 50: schema_migration is the record by  *)
(* which one judges whether a file was applied successfully.  The gate     *)
(* judges by it.  Where rows without a checksum claim a schema that is not *)
(* there, a runner that dies after the first file leaves the core schema,  *)
(* and the next one takes every other such row at its word: those files    *)
(* are never executed, and the gate passes.                                *)
(***************************************************************************)
PassedMeansMigrated ==
    gate.at = "reported" /\ gate.ok /\ gate.steady =>
        \A v \in DOMAIN Shipped[gate.tag] : executed[v] # {}

(***************************************************************************)
(* docs/ci-cd.md line 156: the gate stops at the first check that fails    *)
(* and asks no health, so that the old version's health is not reported as *)
(* the target's availability.  `kubectl rollout status` waits for whatever *)
(* image the Deployment has by then: when the upgrade is rolled back after *)
(* its image was seen, the old version's rollout passes, its schema too,   *)
(* and its health is asked.                                                *)
(***************************************************************************)
RolledOutIsTarget == gate.at = "schema" => cluster.running = gate.tag
=============================================================================
