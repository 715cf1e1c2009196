----------------------------- MODULE Deployment -----------------------------
(***************************************************************************)
(* How a version of the service reaches the cluster and how CI decides     *)
(* that it did: the migration runner (db/migrations.py), started by the    *)
(* Helm hook of deploy/helm/.../migration-job.yaml, and the dev release    *)
(* gate (release_gate.py), which asks Flux to reconcile and then looks at  *)
(* the HelmRelease, the images, the rollouts and schema_migration, one     *)
(* after the other, while the cluster goes on moving.                      *)
(*                                                                         *)
(* A tag ships a sequence of migration files: Shipped[t][v] stands for the *)
(* content, that is the checksum, of file number v.  Helm and Kubernetes   *)
(* are not in the repository: their actions are what the chart and the     *)
(* gate's own cases (ready, progressing, failed, rolled back, slow) imply. *)
(***************************************************************************)
EXTENDS Naturals, Sequences, FiniteSets

CONSTANTS Tags, FirstTag,   \* image tags; the one deployed at the start
          Shipped,          \* what each tag has in migrations/
          FileCount,        \* the length of the longest migrations directory
          JobPods           \* pods of the migration Job

Files == 1 .. FileCount
Contents == UNION {{Shipped[t][v] : v \in DOMAIN Shipped[t]} : t \in Tags}
NoRow == "no row"
NoChecksum == "NULL"        \* a row from before the checksum column

ASSUME ShippedAssumption ==
    /\ FirstTag \in Tags /\ FileCount \in Nat \ {0}
    /\ \A t \in Tags : Shipped[t] \in Seq(Contents) /\ Len(Shipped[t]) \in Files
    /\ {NoRow, NoChecksum} \cap Contents = {}

VARIABLES recorded,         \* schema_migration: the checksum of each file
          executed,         \* the contents of each file that were executed
          pods,             \* the runners
          cluster,          \* desired tag, HelmRelease, Deployment, its pods
          gate              \* one run of run_dev_release_gate

deploymentVars == <<recorded, executed, pods, cluster, gate>>

NoPod == [at |-> "none", tag |-> FirstTag, pending |-> {}, current |-> FALSE]

\* The database has the rows of the first n files of FirstTag: all from after
\* the checksum column, or the first `old` of them from before it.  A database
\* of old rows only may have `lost` the schema that they claim.
DeploymentInit ==
    /\ \E n \in 0 .. Len(Shipped[FirstTag]) : \E old \in 0 .. n, lost \in BOOLEAN :
          /\ lost => old = n
          /\ recorded = [v \in Files |->
                IF v <= old THEN NoChecksum
                ELSE IF v <= n THEN Shipped[FirstTag][v] ELSE NoRow]
          /\ executed = [v \in Files |->
                IF v <= n /\ ~lost THEN {Shipped[FirstTag][v]} ELSE {}]
    /\ pods = [r \in JobPods |-> NoPod]
    /\ cluster = [desired |-> FirstTag, target |-> FirstTag, step |-> "settled",
                  release |-> "ready", reset |-> FALSE,
                  template |-> FirstTag, running |-> FirstTag]
    /\ \E t \in Tags \ {FirstTag} :
          gate = [at |-> "secrets", tag |-> t, ok |-> TRUE, steady |-> FALSE]

-----------------------------------------------------------------------------
(* The migration runner: apply_migrations.                                 *)

\* Variant: every row counts.
AppliedRows == {v \in Files : recorded[v] # NoRow}

\* normalize_legacy_records: rows without a checksum, whatever their file,
\* count where the core schema is there, which the first file creates.
Applied ==
    {v \in Files : /\ recorded[v] # NoRow
                   /\ recorded[v] = NoChecksum => executed[1] # {}}

\* plan_migrations: a recorded checksum that differs stops everything.
Mismatch(t) == \E v \in DOMAIN Shipped[t] \cap Applied :
                   recorded[v] \notin {NoChecksum, Shipped[t][v]}

StartPod(r) ==                          \* a pod of the Job, first or replacement
    /\ cluster.step = "hook"
    /\ pods[r].at = "none"
    /\ pods' = [pods EXCEPT ![r] = [at |-> "read", tag |-> cluster.target,
                                    pending |-> {}, current |-> TRUE]]
    /\ UNCHANGED <<recorded, executed, cluster, gate>>

\* A pod with the files that are left to it.
With(pod, stage, files) == [pod EXCEPT !.at = stage, !.pending = files]

Plan(r) ==
    /\ pods[r].at = "read"
    /\ LET t == pods[r].tag
           todo == DOMAIN Shipped[t] \ Applied
       IN  pods' = [pods EXCEPT ![r] =
             IF Mismatch(t) THEN NoPod
             ELSE With(@, IF todo = {} THEN "done" ELSE "execute", todo)]
    /\ UNCHANGED <<recorded, executed, cluster, gate>>

NextFile(r) == CHOOSE v \in pods[r].pending : \A w \in pods[r].pending : v <= w

ExecuteMigration(r) ==                  \* one transaction
    /\ pods[r].at = "execute"
    /\ executed' = [executed EXCEPT ![NextFile(r)] = @ \cup {Shipped[pods[r].tag][NextFile(r)]}]
    /\ pods' = [pods EXCEPT ![r].at = "record"]
    /\ UNCHANGED <<recorded, cluster, gate>>

RecordMigration(r) ==                   \* another one; the first checksum stays
    /\ pods[r].at = "record"
    /\ recorded' = [recorded EXCEPT ![NextFile(r)] =
                       IF @ \in Contents THEN @ ELSE Shipped[pods[r].tag][NextFile(r)]]
    /\ pods' = [pods EXCEPT ![r] =
          With(@, IF @.pending = {NextFile(r)} THEN "done" ELSE "execute",
               @.pending \ {NextFile(r)})]
    /\ UNCHANGED <<executed, cluster, gate>>

\* An SQL error, eight connections refused, or the pod is killed.
LosePod(r) ==
    /\ pods[r].at \in {"read", "execute", "record"}
    /\ pods' = [pods EXCEPT ![r] = NoPod]
    /\ UNCHANGED <<recorded, executed, cluster, gate>>

-----------------------------------------------------------------------------
(* GitOps, Flux, Helm and Kubernetes.                                      *)

Commit(t) ==
    /\ t # cluster.desired
    /\ cluster' = [cluster EXCEPT !.desired = t]
    /\ UNCHANGED <<recorded, executed, pods, gate>>

\* A pod of the previous hook may outlive the Job that is replaced.
Upgrade ==
    /\ cluster.step = "settled"
    /\ cluster.desired # cluster.target \/ cluster.reset
    /\ cluster' = [cluster EXCEPT !.step = "hook", !.target = cluster.desired,
                                  !.release = "progressing", !.reset = FALSE]
    /\ pods' = [r \in JobPods |-> IF pods[r].at \in {"none", "done"} THEN NoPod
                                  ELSE [pods[r] EXCEPT !.current = FALSE]]
    /\ UNCHANGED <<recorded, executed, gate>>

HookSucceeded ==
    /\ cluster.step = "hook"
    /\ \E r \in JobPods : /\ pods[r].at = "done" /\ pods[r].current
                          /\ pods' = [pods EXCEPT ![r] = NoPod]
    /\ cluster' = [cluster EXCEPT !.step = "rolling", !.template = cluster.target]
    /\ gate' = [gate EXCEPT !.steady = @ /\ cluster.target = cluster.template]
    /\ UNCHANGED <<recorded, executed>>

HookFailed ==
    /\ cluster.step = "hook"
    /\ cluster' = [cluster EXCEPT !.step = "settled", !.release = "failed"]
    /\ UNCHANGED <<recorded, executed, pods, gate>>

\* Kubernetes finishes a rollout even after Helm stopped waiting for it.
RolledOut ==
    /\ cluster.step = "rolling" \/ cluster.running # cluster.template
    /\ cluster' = [cluster EXCEPT
          !.running = cluster.template,
          !.release = IF cluster.step = "rolling" THEN "ready" ELSE @,
          !.step = IF cluster.step = "rolling" THEN "settled" ELSE @]
    /\ UNCHANGED <<recorded, executed, pods, gate>>

\* Helm gives up, and may put the release that still runs back.
RolloutFailed(back) ==
    /\ cluster.step = "rolling"
    /\ cluster' = [cluster EXCEPT !.step = "settled", !.release = "failed",
                                  !.template = IF back THEN cluster.running ELSE @]
    /\ gate' = [gate EXCEPT !.steady = @ /\ ~(back /\ cluster.running # cluster.template)]
    /\ UNCHANGED <<recorded, executed, pods>>

-----------------------------------------------------------------------------
(* The release gate.                                                       *)

\* Variant: the rollouts are waited for before the images are looked at.
FollowingEarly ==
    [secrets |-> {"reset", "flux"}, reset |-> {"reconcile"}, reconcile |-> {"flux"},
     flux |-> {"rollouts"}, rollouts |-> {"images"}, images |-> {"schema"},
     schema |-> {"health"}]

\* What follows each check that passed, by the options --skip-reconcile and
\* --skip-live-eval; a failed one goes to the report, by way of diagnostics
\* that change nothing.
Following ==
    [secrets |-> {"reset", "flux"}, reset |-> {"reconcile"}, reconcile |-> {"flux"},
     flux |-> {"images"}, images |-> {"rollouts"}, rollouts |-> {"schema"},
     schema |-> {"health"}]

\* _check_schema_migrations, in a pod of the API: its files against the rows.
SchemaComplete ==
    /\ \E v \in Files : recorded[v] # NoRow
    /\ \A v \in DOMAIN Shipped[cluster.running] : recorded[v] # NoRow

\* Only a failed release is reset; a ready or a progressing one is left alone.
NeedsReset == cluster.release = "failed"

FluxReady == cluster.release = "ready"

ImagesMatch == cluster.template = gate.tag

RolloutComplete == cluster.running = cluster.template

\* A check reports what it sees, or fails: kubectl itself may, or time runs out.
Passes(stage) ==
    CASE stage = "flux" -> FluxReady
      [] stage = "images" -> ImagesMatch
      [] stage = "rollouts" -> RolloutComplete
      [] stage = "schema" -> SchemaComplete
      [] OTHER -> TRUE

SkipKubectl ==                          \* --skip-kubectl
    /\ gate.at = "secrets"
    /\ gate' = [gate EXCEPT !.at = "health"]
    /\ UNCHANGED <<recorded, executed, pods, cluster>>

Check(stage) ==
    /\ gate.at = stage
    /\ \E passed \in {Passes(stage), FALSE}, next \in Following[stage] :
          /\ gate' = [gate EXCEPT
                !.ok = @ /\ passed,
                !.at = IF (gate.ok /\ passed) \/ stage = "reconcile" THEN next ELSE "reported",
                !.steady = @ \/ (stage = "images" /\ passed)]
          /\ cluster' = [cluster EXCEPT
                !.reset = @ \/ (stage = "reset" /\ passed /\ NeedsReset)]
    /\ UNCHANGED <<recorded, executed, pods>>

\* Three GETs of /health; the live evaluation runs even when one failed.
Health ==
    /\ gate.at = "health"
    /\ \E passed \in BOOLEAN, next \in {"eval", "reported"} :
          gate' = [gate EXCEPT !.ok = @ /\ passed, !.at = next]
    /\ UNCHANGED <<recorded, executed, pods, cluster>>

LiveEval ==
    /\ gate.at = "eval"
    /\ \E passed \in BOOLEAN :
          gate' = [gate EXCEPT !.ok = @ /\ passed, !.at = "reported"]
    /\ UNCHANGED <<recorded, executed, pods, cluster>>

DeploymentNext ==
    \/ \E r \in JobPods : \/ StartPod(r) \/ Plan(r) \/ ExecuteMigration(r)
                          \/ RecordMigration(r) \/ LosePod(r)
    \/ \E t \in Tags : Commit(t)
    \/ Upgrade \/ HookSucceeded \/ HookFailed \/ RolledOut
    \/ \E back \in BOOLEAN : RolloutFailed(back)
    \/ SkipKubectl \/ Health \/ LiveEval
    \/ \E stage \in DOMAIN Following : Check(stage)

DeploymentSpec == DeploymentInit /\ [][DeploymentNext]_deploymentVars

-----------------------------------------------------------------------------
\* A runner has files of its tag left while it executes and records them.
PodRow == {pod \in [at : {"none", "read", "execute", "record", "done"}, tag : Tags,
                    pending : SUBSET Files, current : BOOLEAN] :
             /\ pod.pending \subseteq DOMAIN Shipped[pod.tag]
             /\ pod.pending # {} <=> pod.at \in {"execute", "record"}}

ClusterRow == [desired : Tags, target : Tags, step : {"settled", "hook", "rolling"},
               release : {"ready", "progressing", "failed"}, reset : BOOLEAN,
               template : Tags, running : Tags]

GateRow == [at : DOMAIN Following \cup {"health", "eval", "reported"},
            tag : Tags, ok : BOOLEAN, steady : BOOLEAN]

\* Types: the rows of schema_migration, and what runners, cluster and gate are at.
DeploymentTypeOK ==
    /\ recorded \in [Files -> Contents \cup {NoRow, NoChecksum}]
    /\ executed \in [Files -> SUBSET Contents]
    /\ pods \in [JobPods -> PodRow]
    /\ cluster \in ClusterRow
    /\ gate \in GateRow

\* A file after the first whose row has no checksum: a runner that finds the
\* core schema takes the row's word for it, even where the first file alone
\* was just executed and the rest of the row's schema is missing.
OnTrust(v) == v > 1 /\ recorded[v] = NoChecksum

\* A row of schema_migration with a checksum says what happened: that content
\* was executed.  And no file is executed before one that it follows, unless
\* that one is taken on trust -- with runners that die between the two
\* transactions of a file, that overlap, that belong to different tags, and
\* over a database whose rows precede its schema (db/migrations.py:115-155,
\* 233-275).
RecordedMeansExecuted ==
    /\ \A v \in Files : recorded[v] \in Contents => recorded[v] \in executed[v]
    /\ \A v \in Files : executed[v] # {} =>
          \A w \in 1 .. v : executed[w] # {} \/ OnTrust(w)

\* A gate that passes tells the truth about its tag: the Deployment has that
\* image, the pods run it, and every migration it ships was executed or is
\* taken on trust -- unless another release or a rollback replaced the image
\* after the gate had seen it (release_gate.py:141-188).  Without the two
\* exceptions it does not hold: DeploymentClaims.
PassMeansDeployed ==
    gate.at = "reported" /\ gate.ok /\ gate.steady =>
        /\ cluster.template = gate.tag /\ cluster.running = gate.tag
        /\ \A v \in DOMAIN Shipped[gate.tag] : executed[v] # {} \/ OnTrust(v)
=============================================================================
