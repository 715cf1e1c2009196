---------------------------- MODULE LlmGovernance ----------------------------
(***************************************************************************)
(* LLM configuration governance on PostgreSQL                              *)
(* (services/llm_governance.py, PostgresLlmGovernanceRepository): system   *)
(* administrators configure and test providers, and take a configuration   *)
(* version of an organization from draft to running and back.  Each call   *)
(* is a transaction of one of the API's request threads.                   *)
(*                                                                         *)
(* The locks a transaction holds follow from the call it serves and how    *)
(* far it is, so they are definitions and not variables.  The checks that  *)
(* migrations/012 puts on the tables (one running version, lifecycle,      *)
(* matching release records) are left out: the invariants show that these  *)
(* transactions would keep them without the tables' help.                  *)
(***************************************************************************)
EXTENDS Integers, Sequences

CONSTANTS
  Providers,
  Orgs,
  Admins,       \* the request threads that serve administrators
  Keys,         \* idempotency keys
  KeysOf,       \* the keys clients use for an operation on a version, or on
                \* none (0): a bound, as a key takes effect once
  Changes,      \* how they create and change a provider
  RouteSets,    \* the sets of providers their routes use
  Retried,      \* the operations they repeat after they were carried out
  None

VersionOps == {"replace_routes", "validate", "submit_publish", "publish", "rollback"}
OrgOps == {"publish", "rollback"}

\* Calls that ask somebody outside the database before their transaction.
AskingOps == {"test_connection", "submit_publish"}

Ops == VersionOps \cup {"create_provider", "update_provider", "test_connection", "create_draft"}

ASSUME KeysAssumption ==
  /\ \A op \in Ops : \A v \in DOMAIN KeysOf[op] : KeysOf[op][v] \subseteq Keys
  /\ \A op \in {"create_provider", "update_provider", "create_draft"} : 0 \in DOMAIN KeysOf[op]
ASSUME InputsAssumption ==
  /\ Changes.create \subseteq {"enable", "disable"}
  /\ Changes.update \subseteq {"enable", "disable", "rename"}
  /\ RouteSets \subseteq SUBSET Providers
  /\ Retried \subseteq Ops

VARIABLES
  providers,    \* llm_provider_config: each provider's row, or Missing
  versions,     \* llm_config_version, each with its latest connection tests,
                \* its release record, and the providers its routes use ({}: a
                \* required scenario has no route)
  evaluations,  \* versions with a completed and passed llm_eval_run
  audit,        \* system_admin_audit_log: the calls carried out, with their object
  pc,           \* how far each thread is with its call
  call,         \* the call it serves
  seen          \* what the call has read outside its locks, or is about to use

vars == << providers, versions, evaluations, audit, pc, call, seen >>

Missing == [enabled |-> FALSE, status |-> "missing", revision |-> 0]

Untested == [passed |-> FALSE, revision |-> 0]

Draft(o) ==
  [ org |-> o, status |-> "draft", revision |-> 1, uses |-> {},
    tested |-> [p \in Providers |-> Untested],
    release |-> "none", evaluation |-> 0, source |-> 0 ]

Released == {"running", "superseded", "rolled_back"}

Ids == DOMAIN versions

NoCall ==
  [ op |-> "none", key |-> None, p |-> None, v |-> 0, org |-> None,
    revision |-> 0, change |-> "none", uses |-> {}, evaluation |-> 0 ]

NothingSeen == [revision |-> 0, passed |-> FALSE, draft |-> 0, uses |-> {}, running |-> {}]

Init ==
  /\ providers = [p \in Providers |-> Missing]
  /\ versions = <<>>
  /\ evaluations = {}
  /\ audit = {}
  /\ pc = [e \in Admins |-> "idle"]
  /\ call = [e \in Admins |-> NoCall]
  /\ seen = [e \in Admins |-> NothingSeen]

-----------------------------------------------------------------------------
(***************************************************************************)
(* What administrators ask for, having read the tables: names not taken,   *)
(* revisions read in the status that the operation is for (any other is    *)
(* refused whatever happens meanwhile, as no status comes back).  Or they  *)
(* repeat a call that runs, or one that was carried out.                   *)
(***************************************************************************)
Asked(op, v) == {[NoCall EXCEPT !.op = op, !.key = k, !.v = v] : k \in KeysOf[op][v]}

OnVersion(op, statuses) ==
  UNION {Asked(op, v) : v \in {i \in Ids \cap DOMAIN KeysOf[op] : versions[i].status \in statuses}}

Revised(op, status) ==
  {[c EXCEPT !.revision = versions[c.v].revision] : c \in OnVersion(op, {status})}

Change(c, p, change, revision) == [c EXCEPT !.p = p, !.change = change, !.revision = revision]

Creates ==
  {Change(c, p, x, 0) :
     c \in Asked("create_provider", 0), p \in {q \in Providers : providers[q] = Missing},
     x \in Changes.create}

Updates ==
  {Change(c, p, x, providers[p].revision) :
     c \in Asked("update_provider", 0), p \in {q \in Providers : providers[q] # Missing},
     x \in Changes.update}

Tests == {[c EXCEPT !.p = p] : c \in OnVersion("test_connection", {"draft"}), p \in Providers}

Drafts == {[c EXCEPT !.org = o] : c \in Asked("create_draft", 0), o \in Orgs}

Routings == {[c EXCEPT !.uses = U] : c \in Revised("replace_routes", "draft"), U \in RouteSets}

Submissions ==
  {[c EXCEPT !.evaluation = r] : c \in Revised("submit_publish", "validated"), r \in evaluations}

FreshCalls ==
  Creates \cup Updates \cup Tests \cup Drafts \cup Routings \cup Submissions
    \cup Revised("validate", "draft") \cup Revised("publish", "pending_publish")
    \cup OnVersion("rollback", Released)

RepeatedCalls ==
  {a.call : a \in {b \in audit : b.call.op \in Retried}}
    \cup {call[e] : e \in {f \in Admins : pc[f] # "idle"}}

Begin(e) ==
  /\ pc[e] = "idle"
  /\ \E c \in RepeatedCalls \cup FreshCalls :
       /\ call' = [call EXCEPT ![e] = c]
       /\ pc' = [pc EXCEPT ![e] = IF c.op \in AskingOps THEN "read" ELSE "begun"]
  /\ UNCHANGED << providers, versions, evaluations, audit, seen >>

\* The thread is done: a reply or an error goes out, the transaction is over.
Finish(e) ==
  /\ pc' = [pc EXCEPT ![e] = "idle"]
  /\ call' = [call EXCEPT ![e] = NoCall]
  /\ seen' = [seen EXCEPT ![e] = NothingSeen]

Refuse(e) == Finish(e) /\ UNCHANGED << providers, versions, evaluations, audit >>

\* What a commit adds to the audit log: the call and the object it made.
Audited(e, object) == audit' = audit \cup {[call |-> call[e], object |-> object]}

KeyUsed(c) == \E a \in audit : a.call.op = c.op /\ a.call.key = c.key

-----------------------------------------------------------------------------
(***************************************************************************)
(* Locks, held to the end of the transaction: the advisory locks of the    *)
(* idempotency key and of publishing in an organization, the rows of       *)
(* versions and providers FOR UPDATE, and of providers FOR KEY SHARE.      *)
(***************************************************************************)
InTransaction(e) == pc[e] \in {"locked", "checked"}

HoldsKey(e, c) == InTransaction(e) /\ call[e].op = c.op /\ call[e].key = c.key

HoldsVersion(e, v) == InTransaction(e) /\ call[e].op \in VersionOps /\ call[e].v = v

HoldsOrg(e, o) ==
  InTransaction(e) /\ call[e].op \in OrgOps /\ versions[call[e].v].org = o

HoldsProvider(e, p) ==
  /\ InTransaction(e) /\ call[e].op \in {"test_connection", "update_provider"}
  /\ call[e].p = p

\* Variant: the providers are read without a lock.
SharesNothing(e, p) == FALSE

SharesProvider(e, p) ==
  /\ pc[e] = "checked" /\ call[e].op \in OrgOps
  /\ p \in versions[call[e].v].uses

\* Variants: no lock on the idempotency key, or on the organization.
KeyUnlocked(e) == TRUE
OrgUnlocked(e) == TRUE

KeyFree(e) == \A f \in Admins \ {e} : ~HoldsKey(f, call[e])
VersionFree(e) == \A f \in Admins \ {e} : ~HoldsVersion(f, call[e].v)
OrgFree(e) == \A f \in Admins \ {e} : ~HoldsOrg(f, versions[call[e].v].org)
ProviderFree(e, p) ==
  \A f \in Admins \ {e} : ~HoldsProvider(f, p) /\ ~SharesProvider(f, p)
NoneUpdates(e, U) == \A f \in Admins \ {e}, p \in U : ~HoldsProvider(f, p)

\* The providers a version operation reads FOR KEY SHARE.
Wants(e) ==
  IF call[e].op = "replace_routes" THEN call[e].uses ELSE versions[call[e].v].uses

WaitsFor(e) ==
  { f \in Admins \ {e} :
      /\ pc[e] = "locked"
      /\ \/ call[e].op \in VersionOps /\ \E p \in Wants(e) : HoldsProvider(f, p)
         \/ call[e].op = "test_connection" /\ HoldsVersion(f, call[e].v) }

\* Transactions that wait for each other in a cycle.
Deadlocked(S) ==
  S # {} /\ \A e \in S : (\E f \in S : f \in WaitsFor(e)) /\ (\E f \in S : e \in WaitsFor(f))

-----------------------------------------------------------------------------
\* The version is one the operation may act on, as call[e] expects it.
Admissible(e) ==
  LET v == versions[call[e].v]
  IN  CASE call[e].op = "replace_routes" -> v.status = "draft" /\ v.revision = call[e].revision
        [] call[e].op = "validate" -> v.status = "draft" /\ v.revision = call[e].revision
        [] call[e].op = "submit_publish" ->
             v.status = "validated" /\ v.revision = call[e].revision /\ v.uses = seen[e].uses
        [] call[e].op = "publish" -> v.status = "pending_publish" /\ v.revision = call[e].revision
        [] OTHER -> v.status \in Released

\* _ensure_version_ready_pg, for one provider of a version.
ProviderReady(v, p, current) ==
  /\ providers[p].enabled /\ providers[p].status = "active"
  /\ versions[v].tested[p].passed
  /\ current => versions[v].tested[p].revision = providers[p].revision

Ready(v, current) ==
  versions[v].uses # {} /\ \A p \in versions[v].uses : ProviderReady(v, p, current)

\* Only a rollback is content with a test of an earlier revision.
NeedsCurrent(e) == call[e].op # "rollback"

(***************************************************************************)
(* What is read before the transaction (preload): an answer already given  *)
(* under the key, the provider and the draft to be tested, the version to  *)
(* be submitted; then the tester or the release gate is asked.             *)
(***************************************************************************)
AskTester(e) ==
  /\ pc[e] = "read" /\ call[e].op = "test_connection" /\ ~KeyUsed(call[e])
  /\ providers[call[e].p] # Missing /\ versions[call[e].v].status = "draft"
  /\ \E passed \in BOOLEAN :
       seen' = [seen EXCEPT ![e] =
                  [ revision |-> providers[call[e].p].revision, passed |-> passed,
                    draft |-> versions[call[e].v].revision,
                    uses |-> versions[call[e].v].uses, running |-> {} ]]
  /\ pc' = [pc EXCEPT ![e] = "begun"]
  /\ UNCHANGED << providers, versions, evaluations, audit, call >>

\* Variant: the gate takes any passed evaluation run.
AskGateAnyRun(e) ==
  /\ pc[e] = "read" /\ call[e].op = "submit_publish" /\ ~KeyUsed(call[e])
  /\ versions[call[e].v].status = "validated"
  /\ versions[call[e].v].revision = call[e].revision
  /\ seen' = [seen EXCEPT ![e].uses = versions[call[e].v].uses]
  /\ pc' = [pc EXCEPT ![e] = "begun"]
  /\ UNCHANGED << providers, versions, evaluations, audit, call >>

AskGate(e) ==
  /\ pc[e] = "read" /\ call[e].op = "submit_publish" /\ ~KeyUsed(call[e])
  /\ versions[call[e].v].status = "validated"
  /\ versions[call[e].v].revision = call[e].revision
  /\ call[e].evaluation = call[e].v
  /\ seen' = [seen EXCEPT ![e].uses = versions[call[e].v].uses]
  /\ pc' = [pc EXCEPT ![e] = "begun"]
  /\ UNCHANGED << providers, versions, evaluations, audit, call >>

\* Replayed, refused by what was read, or by the gate.
AskingEnds(e) ==
  /\ pc[e] = "read"
  /\ \/ KeyUsed(call[e])
     \/ call[e].op = "test_connection" /\ (providers[call[e].p] = Missing
                                            \/ versions[call[e].v].status # "draft")
     \/ call[e].op = "submit_publish" /\ (versions[call[e].v].status # "validated"
                                           \/ versions[call[e].v].revision # call[e].revision
                                           \/ call[e].evaluation # call[e].v)
  /\ Refuse(e)

-----------------------------------------------------------------------------
(***************************************************************************)
(* The transaction takes the key, then what the operation acts on, and     *)
(* looks the key up in the audit log.                                      *)
(***************************************************************************)
TargetFree(e) ==
  /\ call[e].op \in VersionOps => VersionFree(e)
  /\ call[e].op \in OrgOps => OrgFree(e)
  /\ call[e].op \in {"test_connection", "update_provider"} => ProviderFree(e, call[e].p)

\* What the transaction finds is what the caller saw.
TargetAsSeen(e) ==
  /\ call[e].op \in VersionOps => Admissible(e)
  /\ call[e].op = "test_connection" => providers[call[e].p].revision = seen[e].revision
  /\ call[e].op = "update_provider" =>
       providers[call[e].p] # Missing /\ providers[call[e].p].revision = call[e].revision

Lock(e) ==
  /\ pc[e] = "begun" /\ KeyFree(e) /\ ~KeyUsed(call[e])
  /\ TargetFree(e) /\ TargetAsSeen(e)
  /\ pc' = [pc EXCEPT ![e] = "locked"]
  /\ UNCHANGED << providers, versions, evaluations, audit, call, seen >>

\* Replayed or in conflict with an earlier call of the key, or out of date.
LockRefused(e) ==
  /\ pc[e] = "begun" /\ KeyFree(e)
  /\ KeyUsed(call[e]) \/ (TargetFree(e) /\ ~TargetAsSeen(e))
  /\ Refuse(e)

Commits(e, op) == pc[e] = (IF op \in OrgOps THEN "checked" ELSE "locked") /\ call[e].op = op

Provider(change, revision) ==
  [ enabled |-> change = "enable",
    status |-> IF change = "enable" THEN "active" ELSE "disabled",
    revision |-> revision ]

CreateProvider(e) ==
  /\ Commits(e, "create_provider") /\ providers[call[e].p] = Missing
  /\ providers' = [providers EXCEPT ![call[e].p] = Provider(call[e].change, 1)]
  /\ Audited(e, 1) /\ Finish(e)
  /\ UNCHANGED << versions, evaluations >>

\* Variant: the status is the requested change.
UpdateProviderRaw(e) ==
  /\ Commits(e, "update_provider")
  /\ providers' = [providers EXCEPT ![call[e].p] =
        [enabled |-> call[e].change = "enable", status |-> call[e].change, revision |-> @.revision + 1]]
  /\ Audited(e, call[e].revision + 1) /\ Finish(e)
  /\ UNCHANGED << versions, evaluations >>

\* A new name leaves the provider as enabled as it was.
Updated(row, change) ==
  IF change = "rename" THEN [row EXCEPT !.revision = @ + 1]
  ELSE Provider(change, row.revision + 1)

UpdateProvider(e) ==
  /\ Commits(e, "update_provider")
  /\ providers' = [providers EXCEPT ![call[e].p] = Updated(@, call[e].change)]
  /\ Audited(e, call[e].revision + 1) /\ Finish(e)
  /\ UNCHANGED << versions, evaluations >>

DraftAsSeen(e) ==
  LET v == versions[call[e].v]
  IN  v.status = "draft" /\ v.revision = seen[e].draft /\ v.uses = seen[e].uses

ProbedStatus(enabled, passed) ==
  IF ~enabled THEN "disabled" ELSE IF passed THEN "active" ELSE "unhealthy"

Probed(row, passed) ==
  [row EXCEPT !.status = ProbedStatus(row.enabled, passed), !.revision = @ + 1]

WithTests(row, tests) == [row EXCEPT !.tested = tests]

Tested(row, p, passed, revision) ==
  WithTests(row, [row.tested EXCEPT ![p] = [passed |-> passed, revision |-> revision]])

\* The tested provider gets a new revision, and the test counts for that one.
TestConnection(e) ==
  /\ Commits(e, "test_connection") /\ VersionFree(e) /\ DraftAsSeen(e)
  /\ providers' = [providers EXCEPT ![call[e].p] = Probed(@, seen[e].passed)]
  /\ versions' = [versions EXCEPT ![call[e].v] =
        Tested(@, call[e].p, seen[e].passed, seen[e].revision + 1)]
  /\ Audited(e, seen[e].revision + 1) /\ Finish(e)
  /\ UNCHANGED evaluations

\* The provider's name is taken, or the draft has changed under the test.
CommitRefused(e) ==
  /\ \/ Commits(e, "create_provider") /\ providers[call[e].p] # Missing
     \/ Commits(e, "test_connection") /\ VersionFree(e) /\ ~DraftAsSeen(e)
  /\ Refuse(e)

CreateDraft(e) ==
  /\ Commits(e, "create_draft")
  /\ versions' = Append(versions, Draft(call[e].org))
  /\ Audited(e, Len(versions) + 1) /\ Finish(e)
  /\ UNCHANGED << providers, evaluations >>

-----------------------------------------------------------------------------
Advanced(row, status) == [row EXCEPT !.status = status, !.revision = @ + 1]

\* The providers of the version are not being changed, and its row is replaced.
Save(e, row) ==
  /\ NoneUpdates(e, Wants(e))
  /\ versions' = [versions EXCEPT ![call[e].v] = row]
  /\ Audited(e, call[e].v) /\ Finish(e)
  /\ UNCHANGED << providers, evaluations >>

Routed(row, uses) == [Advanced(row, "draft") EXCEPT !.uses = uses]

ReplaceRoutes(e) ==
  /\ Commits(e, "replace_routes")
  /\ \A p \in Wants(e) : providers[p] # Missing
  /\ Save(e, Routed(versions[call[e].v], call[e].uses))

Validate(e) ==
  /\ Commits(e, "validate") /\ Ready(call[e].v, TRUE)
  /\ Save(e, Advanced(versions[call[e].v], "validated"))

WithRelease(row, status, run) == [row EXCEPT !.release = status, !.evaluation = run]

Submitted(row, run) == WithRelease(Advanced(row, "pending_publish"), "pending", run)

SubmitPublish(e) ==
  /\ Commits(e, "submit_publish") /\ Ready(call[e].v, TRUE)
  /\ Save(e, Submitted(versions[call[e].v], call[e].evaluation))

\* A foreign key, or _ensure_version_ready_pg, finds a provider missing or not ready.
NotReady(e) ==
  /\ pc[e] = "locked" /\ call[e].op \in VersionOps
  /\ \/ call[e].op # "replace_routes" /\ Wants(e) = {}
     \/ \E p \in Wants(e) :
          /\ NoneUpdates(e, {p})
          /\ IF call[e].op = "replace_routes" THEN providers[p] = Missing
             ELSE ~ProviderReady(call[e].v, p, NeedsCurrent(e))
  /\ Refuse(e)

\* Variant: whatever was ever released.
ReleasedIn(o) == {v \in Ids : versions[v].org = o /\ versions[v].status \in Released}

RunningIn(o) == {v \in Ids : versions[v].org = o /\ versions[v].status = "running"}

\* publish and rollback: the providers are ready; lock and read what is running.
ReadRunning(e) ==
  /\ pc[e] = "locked" /\ call[e].op \in OrgOps
  /\ NoneUpdates(e, Wants(e)) /\ Ready(call[e].v, NeedsCurrent(e))
  /\ seen' = [seen EXCEPT ![e].running = RunningIn(versions[call[e].v].org)]
  /\ pc' = [pc EXCEPT ![e] = "checked"]
  /\ UNCHANGED << providers, versions, evaluations, audit, call >>

Retired(row, status) == WithRelease(Advanced(row, status), status, row.evaluation)

Published(row) == WithRelease(Advanced(row, "running"), "running", row.evaluation)

Publish(e) ==
  /\ Commits(e, "publish")
  /\ versions' = [v \in Ids |->
        IF v = call[e].v THEN Published(versions[v])
        ELSE IF v \in seen[e].running THEN Retired(versions[v], "superseded")
        ELSE versions[v]]
  /\ Audited(e, call[e].v) /\ Finish(e)
  /\ UNCHANGED << providers, evaluations >>

\* A new version takes the source's routes and evaluation through the whole
\* life cycle at once; the connection tests stay with the source.
Restored(source) ==
  [ org |-> versions[source].org, status |-> "running", revision |-> 4,
    uses |-> versions[source].uses, tested |-> [p \in Providers |-> Untested],
    release |-> "running", evaluation |-> versions[source].evaluation, source |-> source ]

Rollback(e) ==
  /\ Commits(e, "rollback")
  /\ versions' = Append(
        [v \in Ids |->
           IF v \notin seen[e].running THEN versions[v]
           ELSE Retired(versions[v], IF v = call[e].v THEN "superseded" ELSE "rolled_back")],
        Restored(call[e].v))
  /\ Audited(e, Len(versions) + 1) /\ Finish(e)
  /\ UNCHANGED << providers, evaluations >>

-----------------------------------------------------------------------------
\* PostgreSQL ends a deadlock by failing a transaction in it: 500.
AbortDeadlock(e) ==
  /\ \E S \in SUBSET Admins : e \in S /\ Deadlocked(S)
  /\ Refuse(e)

\* The connection or the replica is lost, or a rollback and a draft meet in
\* the same version number (409): nothing of the transaction remains.
Fail(e) == pc[e] # "idle" /\ Refuse(e)

\* Outside: an evaluation run of a validated version completes and passes.
EvaluationPasses(v) ==
  /\ versions[v].status = "validated"
  /\ evaluations' = evaluations \cup {v}
  /\ UNCHANGED << providers, versions, audit, pc, call, seen >>

Step(e) ==
  \/ AskTester(e) \/ AskGate(e) \/ AskingEnds(e) \/ Lock(e) \/ LockRefused(e)
  \/ CreateProvider(e) \/ UpdateProvider(e) \/ TestConnection(e)
  \/ CommitRefused(e) \/ CreateDraft(e)
  \/ ReplaceRoutes(e) \/ Validate(e) \/ SubmitPublish(e) \/ NotReady(e)
  \/ ReadRunning(e) \/ Publish(e) \/ Rollback(e) \/ AbortDeadlock(e)

Next ==
  \/ \E e \in Admins : Begin(e) \/ Step(e) \/ Fail(e)
  \/ \E v \in Ids : EvaluationPasses(v)

Spec == Init /\ [][Next]_vars
-----------------------------------------------------------------------------
(***************************************************************************)
(* Properties                                                              *)
(***************************************************************************)
Statuses == {"draft", "validated", "pending_publish"} \cup Released

ProviderRow ==
  [enabled : BOOLEAN, status : {"missing", "active", "disabled", "unhealthy"}, revision : Nat]

VersionRow ==
  [ org : Orgs, status : Statuses, revision : Nat, uses : SUBSET Providers,
    tested : [Providers -> [passed : BOOLEAN, revision : Nat]],
    release : {"none", "pending"} \cup Released, evaluation : Nat, source : Nat ]

CallType ==
  [ op : Ops \cup {"none"}, key : Keys \cup {None}, p : Providers \cup {None}, v : Nat,
    org : Orgs \cup {None}, revision : Nat,
    change : {"none", "enable", "disable", "rename"}, uses : SUBSET Providers,
    evaluation : Nat ]

SeenType ==
  [ revision : Nat, passed : BOOLEAN, draft : Nat, uses : SUBSET Providers,
    running : SUBSET Nat ]

\* Every variable keeps its type; evaluations and calls are of versions that exist.
TypeOK ==
  /\ providers \in [Providers -> ProviderRow]
  /\ versions \in Seq(VersionRow)
  /\ evaluations \subseteq Ids
  /\ audit \subseteq [call : CallType, object : Nat]
  /\ pc \in [Admins -> {"idle", "read", "begun", "locked", "checked"}]
  /\ call \in [Admins -> CallType]
  /\ seen \in [Admins -> SeenType]

\* Whatever is published and rolled back at the same time, no organization
\* has two running versions (the partial unique index never has to refuse).
OneRunning ==
  \A u, v \in Ids :
    versions[u].org = versions[v].org
      /\ versions[u].status = "running" /\ versions[v].status = "running" => u = v

\* What has been submitted, served or restored uses exactly the providers of a
\* version of its organization that passed its evaluation: its own, or for a
\* rollback the source's, which is a version that was evaluated itself.
ServedWasEvaluated ==
  \A v \in Ids :
    LET r == versions[v]
    IN  r.status \notin {"draft", "validated"} =>
          /\ r.evaluation \in evaluations
          /\ r.evaluation = (IF r.source = 0 THEN v ELSE r.source)
          /\ versions[r.evaluation].uses = r.uses
          /\ versions[r.evaluation].org = r.org

\* No idempotency key of an operation takes effect twice, however calls with
\* it overlap, and whether it is repeated or reused for another request.
OneEffectPerKey ==
  \A a, b \in audit : a.call.op = b.call.op /\ a.call.key = b.call.key => a = b

StartsRunning(v) ==
  /\ versions'[v].status = "running"
  /\ v \in Ids => versions[v].status # "running"

(***************************************************************************)
(* When a version starts to run, each of its providers is enabled and      *)
(* active at that moment and has passed its last connection test with it,  *)
(* or with the version it restores; a published version was tested with    *)
(* the providers as they are.                                              *)
(***************************************************************************)
ServedWasReady ==
  [][\A v \in DOMAIN versions' : StartsRunning(v) =>
       LET r == versions'[v]
           tested == IF r.source = 0 THEN r.tested ELSE versions'[r.source].tested
       IN  \A p \in r.uses :
             /\ providers'[p].enabled /\ providers'[p].status = "active"
             /\ tested[p].passed
             /\ r.source = 0 => tested[p].revision = providers'[p].revision]_vars

NextStatus(status) ==
  CASE status = "draft" -> {"draft", "validated"}
    [] status = "validated" -> {"pending_publish"}
    [] status = "pending_publish" -> {"running"}
    [] status = "running" -> {"superseded", "rolled_back"}
    [] OTHER -> {}

\* A version past its draft was tested with a provider that has changed since.
Outdated(v) ==
  /\ versions[v].status \in {"validated", "pending_publish"}
  /\ \E p \in versions[v].uses : versions[v].tested[p].revision # providers[p].revision

(***************************************************************************)
(* A version that is changed goes one step on in its life cycle with a new *)
(* revision; its routes change only while it is a draft, and what has been *)
(* superseded or rolled back stays as it is (the lifecycle trigger never   *)
(* has to refuse).  Connection tests are recorded beside it, of drafts     *)
(* only: a version whose provider changes after it was validated stays     *)
(* where it is for ever, as no later change brings its test up to date.    *)
(***************************************************************************)
HistoryIsKept ==
  [][\A v \in Ids :
       LET old == versions[v]
           new == versions'[v]
       IN  /\ v \in DOMAIN versions'
           /\ new.org = old.org /\ new.source = old.source
           /\ WithTests(new, old.tested) # old =>
                new.status \in NextStatus(old.status) /\ new.revision = old.revision + 1
           /\ old.status # "draft" => new.uses = old.uses /\ new.tested = old.tested
           /\ Outdated(v) => new = old /\ Outdated(v)']_vars

\* What a passed evaluation approves: version v with the providers of its routes.
Approval(v) == [version |-> v, org |-> versions[v].org, uses |-> versions[v].uses]

Serving == INSTANCE ServedConfiguration WITH
  approved <- {Approval(v) : v \in evaluations},
  served <- [o \in Orgs |-> {[version |-> v, uses |-> versions[v].uses] : v \in RunningIn(o)}]

\* Whatever the administrators do at the same time, and wherever their calls
\* fail, each organization is served one evaluated configuration after another,
\* and after the first there is no moment without one (publish and rollback
\* retire what runs and start what replaces it in one transaction).
ImplementsServing == Serving!Spec
=============================================================================
