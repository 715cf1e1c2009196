------------------------ MODULE LlmGovernanceProofs ------------------------
(***************************************************************************)
(* Theorems about LlmGovernance, for every set of providers, organizations *)
(* and administrators, and however many versions and keys there are.       *)
(*                                                                         *)
(* The argument: the locks exclude each other (Exclusion), so what a       *)
(* transaction has found under its locks (Held) is still so when it        *)
(* commits, and every change of a version is a step of its life cycle      *)
(* (RowSteps).                                                             *)
(***************************************************************************)
EXTENDS LlmGovernance, SequenceTheorems, TLAPS

USE KeysAssumption, InputsAssumption

\* What a call is about exists: calls come from clients that have read the tables.
CallOK(c) ==
  /\ c.op \in Ops
  /\ c.op \in {"create_provider", "update_provider", "test_connection"} => c.p \in Providers
  /\ c.op = "create_draft" => c.org \in Orgs
  /\ c.op \in VersionOps \cup {"test_connection"} => c.v \in Ids
  /\ c.op = "submit_publish" => c.evaluation \in evaluations

\* Each thread is where the operation of its call can take it.
Phases ==
  /\ \A a \in audit : CallOK(a.call)
  /\ \A e \in Admins : pc[e] # "idle" => CallOK(call[e])
  /\ \A e \in Admins : pc[e] = "checked" => call[e].op \in OrgOps
  /\ \A e \in Admins :
       call[e].op = "submit_publish" /\ pc[e] \in {"begun", "locked"} =>
         call[e].evaluation = call[e].v

\* No two transactions hold the same key, version, organization or provider.
Exclusion ==
  \A e, f \in Admins :
    e # f /\ InTransaction(e) /\ InTransaction(f) =>
      /\ call[e].op = call[f].op => call[e].key # call[f].key
      /\ call[e].op \in VersionOps /\ call[f].op \in VersionOps => call[e].v # call[f].v
      /\ call[e].op \in OrgOps /\ call[f].op \in OrgOps =>
           versions[call[e].v].org # versions[call[f].v].org
      /\ \A p \in Providers : HoldsProvider(e, p) => ~SharesProvider(f, p)

\* The statuses of the versions an operation acts on.
Fits(op) ==
  CASE op \in {"replace_routes", "validate"} -> {"draft"}
    [] op = "submit_publish" -> {"validated"}
    [] op = "publish" -> {"pending_publish"}
    [] OTHER -> Released

\* What a transaction has found under its locks.
Held ==
  \A e \in Admins :
    /\ InTransaction(e) => ~KeyUsed(call[e])
    /\ InTransaction(e) /\ call[e].op \in VersionOps => versions[call[e].v].status \in Fits(call[e].op)
    /\ pc[e] = "checked" =>
         /\ seen[e].running = RunningIn(versions[call[e].v].org)
         /\ Ready(call[e].v, NeedsCurrent(e))

\* What is restored has not been tested itself, so it is never a rollback's source.
RestoredIsUntested ==
  \A v \in Ids :
    versions[v].source # 0 =>
      versions[v].status \in Released /\ \A p \in Providers : ~versions[v].tested[p].passed

EvaluatedIsNoDraft == \A v \in evaluations : versions[v].status # "draft"

Inv ==
  /\ TypeOK /\ Phases /\ Exclusion /\ Held
  /\ OneRunning /\ OneEffectPerKey
  /\ RestoredIsUntested /\ EvaluatedIsNoDraft /\ ServedWasEvaluated

-----------------------------------------------------------------------------
LEMMA RowsOfSeq ==
  ASSUME NEW S, NEW s \in Seq(S)
  PROVE  /\ Len(s) \in Nat /\ DOMAIN s = 1..Len(s)
         /\ \A i \in DOMAIN s : i \in Nat \ {0} /\ s[i] \in S
OBVIOUS

LEMMA MappedSeq ==
  ASSUME NEW S, NEW s \in Seq(S), NEW t \in [DOMAIN s -> S]
  PROVE  t \in Seq(S) /\ DOMAIN t = DOMAIN s /\ Len(t) = Len(s)
<1>1. Len(s) \in Nat /\ DOMAIN s = 1..Len(s)
  BY RowsOfSeq
<1>2. t \in [1..Len(s) -> S]
  BY <1>1
<1>3. t \in Seq(S)
  BY <1>1, <1>2, SeqDef
<1>4. QED
  BY <1>1, <1>2, <1>3

LEMMA AppendedSeq ==
  ASSUME NEW S, NEW s \in Seq(S), NEW x \in S
  PROVE  /\ Append(s, x) \in Seq(S)
         /\ DOMAIN Append(s, x) = DOMAIN s \cup {Len(s) + 1}
         /\ Len(s) + 1 \notin DOMAIN s
         /\ \A i \in DOMAIN s : Append(s, x)[i] = s[i]
         /\ Append(s, x)[Len(s) + 1] = x
OBVIOUS

LEMMA VersionTypes ==
  ASSUME TypeOK
  PROVE  /\ Len(versions) \in Nat /\ Ids = 1..Len(versions)
         /\ \A v \in Ids : v \in Nat \ {0} /\ versions[v] \in VersionRow
BY RowsOfSeq DEF TypeOK, Ids

LEMMA DraftType == \A o \in Orgs : Draft(o) \in VersionRow
BY DEF Draft, Untested, VersionRow, Statuses

-----------------------------------------------------------------------------
(***************************************************************************)
(* Threads: a step is one thread's, and it leaves the others where they    *)
(* are.                                                                    *)
(***************************************************************************)
Acts(e) == Begin(e) \/ Step(e) \/ Fail(e)

LEMMA OthersStay ==
  ASSUME TypeOK, NEW e \in Admins, Acts(e)
  PROVE  \A f \in Admins \ {e} :
           pc'[f] = pc[f] /\ call'[f] = call[f] /\ seen'[f] = seen[f]
BY DEF TypeOK, Acts, Begin, Step, Fail, Refuse, Finish, Save, AskTester, AskGate,
       AskingEnds, Lock, LockRefused, CreateProvider, UpdateProvider, TestConnection,
       CommitRefused, CreateDraft, ReplaceRoutes, Validate, SubmitPublish, NotReady,
       ReadRunning, Publish, Rollback, AbortDeadlock

\* What the step of a thread is.
LEMMA StepCases ==
  ASSUME NEW e \in Admins, Acts(e)
  PROVE  \/ Begin(e) \/ AskTester(e) \/ AskGate(e) \/ Lock(e) \/ ReadRunning(e)
         \/ Refuse(e)
         \/ CreateProvider(e) \/ UpdateProvider(e) \/ TestConnection(e) \/ CreateDraft(e)
         \/ ReplaceRoutes(e) \/ Validate(e) \/ SubmitPublish(e) \/ Publish(e) \/ Rollback(e)
BY DEF Acts, Step, Fail, AskingEnds, LockRefused, CommitRefused, NotReady, AbortDeadlock

\* Where it leaves the thread: only Lock and ReadRunning leave it in its transaction.
LEMMA ThreadStep ==
  ASSUME TypeOK, NEW e \in Admins, Acts(e)
  PROVE  \/ pc'[e] = "idle" /\ call'[e] = NoCall
         \/ Begin(e) \/ AskTester(e) \/ AskGate(e)
         \/ Lock(e) \/ ReadRunning(e)
<1>1. Finish(e) => pc'[e] = "idle" /\ call'[e] = NoCall
  BY DEF TypeOK, Finish
<1>2. QED
  BY <1>1, StepCases DEF Refuse, CreateProvider, UpdateProvider, TestConnection,
     CreateDraft, ReplaceRoutes, Validate, SubmitPublish, Save, Publish, Rollback

-----------------------------------------------------------------------------
\* Clients ask for what there is.
LEMMA AskedOK ==
  ASSUME NEW op \in Ops, NEW v \in DOMAIN KeysOf[op] \cap Nat, NEW c \in Asked(op, v)
  PROVE  c \in CallType /\ c.op = op /\ c.v = v
<1>1. PICK k \in Keys : c = [NoCall EXCEPT !.op = op, !.key = k, !.v = v]
  BY DEF Asked
<1>2. NoCall \in CallType
  BY DEF NoCall, CallType, Ops
<1>3. QED
  BY <1>1, <1>2 DEF NoCall, CallType

LEMMA OnVersionOK ==
  ASSUME TypeOK, NEW op \in Ops, NEW S, NEW c \in OnVersion(op, S)
  PROVE  c \in CallType /\ c.op = op /\ c.v \in Ids
<1>1. PICK v \in Ids \cap DOMAIN KeysOf[op] : c \in Asked(op, v)
  BY DEF OnVersion
<1>2. v \in Nat
  BY VersionTypes
<1>3. QED
  BY <1>1, <1>2, AskedOK

LEMMA RevisedOK ==
  ASSUME TypeOK, NEW op \in Ops, NEW s, NEW c \in Revised(op, s)
  PROVE  c \in CallType /\ c.op = op /\ c.v \in Ids
<1>1. PICK b \in OnVersion(op, {s}) : c = [b EXCEPT !.revision = versions[b.v].revision]
  BY DEF Revised
<1>2. b \in CallType /\ b.op = op /\ b.v \in Ids
  BY OnVersionOK
<1>3. versions[b.v].revision \in Nat
  BY <1>2, VersionTypes DEF VersionRow
<1>4. QED
  BY <1>1, <1>2, <1>3 DEF CallType

LEMMA FreshCallsOK ==
  ASSUME TypeOK, NEW c \in FreshCalls
  PROVE  c \in CallType /\ CallOK(c)
<1>1. ASSUME NEW op \in {"create_provider", "update_provider", "create_draft"}, NEW d \in Asked(op, 0)
      PROVE  d \in CallType /\ d.op = op
  <2>1. op \in Ops /\ 0 \in DOMAIN KeysOf[op] \cap Nat
    BY DEF Ops
  <2>2. QED
    BY <2>1, AskedOK
<1>2. CASE c \in Creates
  <2>1. PICK d \in Asked("create_provider", 0), p \in Providers, x \in Changes.create :
          c = Change(d, p, x, 0)
    BY <1>2 DEF Creates
  <2>2. d \in CallType /\ d.op = "create_provider"
    BY <1>1
  <2>3. x \in {"enable", "disable"}
    OBVIOUS
  <2>4. QED
    BY <2>1, <2>2, <2>3 DEF Change, CallType, CallOK, Ops, VersionOps
<1>3. CASE c \in Updates
  <2>1. PICK d \in Asked("update_provider", 0), p \in Providers, x \in Changes.update :
          c = Change(d, p, x, providers[p].revision)
    BY <1>3 DEF Updates
  <2>2. d \in CallType /\ d.op = "update_provider"
    BY <1>1
  <2>3. x \in {"enable", "disable", "rename"}
    OBVIOUS
  <2>4. providers[p].revision \in Nat
    BY DEF TypeOK, ProviderRow
  <2>5. QED
    BY <2>1, <2>2, <2>3, <2>4 DEF Change, CallType, CallOK, Ops, VersionOps
<1>4. CASE c \in Tests
  <2>1. PICK d \in OnVersion("test_connection", {"draft"}), p \in Providers : c = [d EXCEPT !.p = p]
    BY <1>4 DEF Tests
  <2>2. d \in CallType /\ d.op = "test_connection" /\ d.v \in Ids
    BY OnVersionOK DEF Ops
  <2>3. QED
    BY <2>1, <2>2 DEF CallType, CallOK, Ops
<1>5. CASE c \in Drafts
  <2>1. PICK d \in Asked("create_draft", 0), o \in Orgs : c = [d EXCEPT !.org = o]
    BY <1>5 DEF Drafts
  <2>2. d \in CallType /\ d.op = "create_draft"
    BY <1>1
  <2>3. QED
    BY <2>1, <2>2 DEF CallType, CallOK, Ops, VersionOps
<1>6. CASE c \in Routings
  <2>1. PICK d \in Revised("replace_routes", "draft"), U \in RouteSets : c = [d EXCEPT !.uses = U]
    BY <1>6 DEF Routings
  <2>2. d \in CallType /\ d.op = "replace_routes" /\ d.v \in Ids
    BY RevisedOK DEF Ops, VersionOps
  <2>3. QED
    BY <2>1, <2>2 DEF CallType, CallOK, Ops, VersionOps
<1>7. CASE c \in Revised("validate", "draft")
  BY <1>7, RevisedOK DEF CallOK, Ops, VersionOps
<1>8. CASE c \in Submissions
  <2>1. PICK d \in Revised("submit_publish", "validated"), r \in evaluations :
          c = [d EXCEPT !.evaluation = r]
    BY <1>8 DEF Submissions
  <2>2. d \in CallType /\ d.op = "submit_publish" /\ d.v \in Ids
    BY RevisedOK DEF Ops, VersionOps
  <2>3. r \in Nat
    BY VersionTypes DEF TypeOK
  <2>4. QED
    BY <2>1, <2>2, <2>3 DEF CallType, CallOK, Ops, VersionOps
<1>9. CASE c \in Revised("publish", "pending_publish")
  BY <1>9, RevisedOK DEF CallOK, Ops, VersionOps
<1>10. CASE c \in OnVersion("rollback", Released)
  BY <1>10, OnVersionOK DEF CallOK, Ops, VersionOps
<1>11. QED
  BY <1>2, <1>3, <1>4, <1>5, <1>6, <1>7, <1>8, <1>9, <1>10 DEF FreshCalls

LEMMA CallsOK ==
  ASSUME TypeOK, Phases, NEW c \in RepeatedCalls \cup FreshCalls
  PROVE  c \in CallType /\ CallOK(c)
BY FreshCallsOK DEF TypeOK, Phases, RepeatedCalls

\* A thread that does not begin serves a call about what exists.
LEMMA ServedCallOK ==
  ASSUME Phases, NEW e \in Admins, pc[e] # "idle"
  PROVE  CallOK(call[e])
BY DEF Phases

-----------------------------------------------------------------------------
(***************************************************************************)
(* What a step does to the tables.                                         *)
(***************************************************************************)
LEMMA ProvidersStep ==
  ASSUME TypeOK, NEW e \in Admins, Acts(e)
  PROVE  /\ providers' \in [Providers -> ProviderRow]
         /\ \A p \in Providers :
              providers'[p] = providers[p] \/ providers[p] = Missing \/ HoldsProvider(e, p)
<1>1. providers \in [Providers -> ProviderRow] /\ seen[e].revision \in Nat
  BY DEF TypeOK, SeenType
<1>2. CASE CreateProvider(e)
  <2>1. Provider(call[e].change, 1) \in ProviderRow
    BY DEF Provider, ProviderRow
  <2>2. QED
    BY <1>1, <1>2, <2>1 DEF CreateProvider
<1>3. CASE UpdateProvider(e)
  <2>1. \A row \in ProviderRow : Updated(row, call[e].change) \in ProviderRow
    BY DEF Updated, Provider, ProviderRow
  <2>2. HoldsProvider(e, call[e].p)
    BY <1>3 DEF UpdateProvider, HoldsProvider, Commits, InTransaction, OrgOps
  <2>3. QED
    BY <1>1, <1>3, <2>1, <2>2 DEF UpdateProvider
<1>4. CASE TestConnection(e)
  <2>1. ASSUME NEW row \in ProviderRow
        PROVE  Probed(row, seen[e].passed) \in ProviderRow
    <3>1. ProbedStatus(row.enabled, seen[e].passed) \in {"disabled", "active", "unhealthy"}
      BY DEF ProbedStatus
    <3>2. ASSUME NEW status \in {"disabled", "active", "unhealthy"}, NEW n \in Nat
          PROVE  [row EXCEPT !.status = status, !.revision = n] \in ProviderRow
      BY DEF ProviderRow
    <3>3. PICK n \in Nat : n = row.revision + 1
      BY DEF ProviderRow
    <3>4. QED
      BY <3>1, <3>2, <3>3 DEF Probed
  <2>2. HoldsProvider(e, call[e].p)
    BY <1>4 DEF TestConnection, HoldsProvider, Commits, InTransaction, OrgOps
  <2>3. QED
    BY <1>1, <1>4, <2>1, <2>2 DEF TestConnection
<1>5. CASE providers' = providers
  BY <1>1, <1>5
<1>6. QED
  BY <1>2, <1>3, <1>4, <1>5, StepCases DEF Begin, AskTester, AskGate, Lock, ReadRunning,
     Refuse, CreateDraft, ReplaceRoutes, Validate, SubmitPublish, Save, Publish, Rollback

\* A commit adds its call to the audit log, in its transaction and with a number.
LEMMA AuditStep ==
  ASSUME TypeOK, Phases, NEW e \in Admins, Acts(e)
  PROVE  /\ evaluations' = evaluations
         /\ \/ audit' = audit
            \/ /\ InTransaction(e)
               /\ \E n \in Nat : audit' = audit \cup {[call |-> call[e], object |-> n]}
<1>1. /\ pc[e] # "idle" => call[e] \in CallType /\ CallOK(call[e])
      /\ call[e] \in CallType /\ call[e].revision \in Nat /\ seen[e].revision \in Nat
      /\ call[e].v \in Nat /\ Len(versions) \in Nat
  BY VersionTypes DEF TypeOK, Phases, CallType, SeenType
<1>2. ASSUME NEW op, Commits(e, op) PROVE InTransaction(e)
  BY <1>2 DEF Commits, InTransaction
<1>3. CASE CreateProvider(e)
  BY <1>1, <1>2, <1>3 DEF CreateProvider, Audited
<1>4. CASE UpdateProvider(e)
  BY <1>1, <1>2, <1>4 DEF UpdateProvider, Audited
<1>5. CASE TestConnection(e)
  BY <1>1, <1>2, <1>5 DEF TestConnection, Audited
<1>6. CASE CreateDraft(e) \/ Rollback(e)
  BY <1>1, <1>2, <1>6 DEF CreateDraft, Rollback, Audited
<1>7. CASE ReplaceRoutes(e) \/ Validate(e) \/ SubmitPublish(e) \/ Publish(e)
  BY <1>1, <1>2, <1>7 DEF ReplaceRoutes, Validate, SubmitPublish, Publish, Save, Audited
<1>8. QED
  BY <1>3, <1>4, <1>5, <1>6, <1>7, StepCases DEF Begin, AskTester, AskGate, Lock, ReadRunning,
     Refuse

LEMMA AdvancedRow ==
  ASSUME NEW row \in VersionRow, NEW status \in Statuses
  PROVE  LET new == Advanced(row, status)
         IN  /\ new \in VersionRow
             /\ new.status = status /\ new.revision = row.revision + 1
             /\ new.org = row.org /\ new.source = row.source /\ new.uses = row.uses
             /\ new.tested = row.tested /\ new.evaluation = row.evaluation
<1>1. ASSUME NEW n \in Nat
      PROVE  LET new == [row EXCEPT !.status = status, !.revision = n]
             IN  /\ new \in VersionRow
                 /\ new.status = status /\ new.revision = n
                 /\ new.org = row.org /\ new.source = row.source /\ new.uses = row.uses
                 /\ new.tested = row.tested /\ new.evaluation = row.evaluation
  BY DEF VersionRow
<1>2. PICK n \in Nat : n = row.revision + 1
  BY DEF VersionRow
<1>3. QED
  BY <1>1, <1>2 DEF Advanced

LEMMA RoutedRow ==
  ASSUME NEW row \in VersionRow, NEW U \in SUBSET Providers
  PROVE  LET new == Routed(row, U)
         IN  /\ new \in VersionRow
             /\ new.status = "draft" /\ new.revision = row.revision + 1
             /\ new.org = row.org /\ new.source = row.source /\ new.tested = row.tested
<1>1. ASSUME NEW mid \in VersionRow
      PROVE  LET new == [mid EXCEPT !.uses = U]
             IN  /\ new \in VersionRow
                 /\ new.status = mid.status /\ new.revision = mid.revision
                 /\ new.org = mid.org /\ new.source = mid.source /\ new.tested = mid.tested
  BY DEF VersionRow
<1>2. QED
  BY <1>1, AdvancedRow DEF Routed, Statuses

\* What a version's release record is set to, with the version.
LEMMA ReleasedRow ==
  ASSUME NEW row \in VersionRow, NEW status \in Statuses \ {"draft", "validated"},
         NEW release \in {"pending"} \cup Released, NEW run \in Nat
  PROVE  LET new == WithRelease(Advanced(row, status), release, run)
         IN  /\ new \in VersionRow
             /\ new.status = status /\ new.revision = row.revision + 1
             /\ new.org = row.org /\ new.source = row.source /\ new.uses = row.uses
             /\ new.tested = row.tested /\ new.evaluation = run
<1>1. ASSUME NEW mid \in VersionRow
      PROVE  LET new == WithRelease(mid, release, run)
             IN  /\ new \in VersionRow
                 /\ new.status = mid.status /\ new.revision = mid.revision
                 /\ new.org = mid.org /\ new.source = mid.source /\ new.uses = mid.uses
                 /\ new.tested = mid.tested /\ new.evaluation = run
  BY DEF VersionRow, WithRelease
<1>2. QED
  BY <1>1, AdvancedRow

LEMMA SubmittedRow ==
  ASSUME NEW row \in VersionRow, NEW run \in Nat
  PROVE  LET new == Submitted(row, run)
         IN  /\ new \in VersionRow
             /\ new.status = "pending_publish" /\ new.revision = row.revision + 1
             /\ new.org = row.org /\ new.source = row.source /\ new.uses = row.uses
             /\ new.tested = row.tested /\ new.evaluation = run
BY ReleasedRow DEF Submitted, Statuses

LEMMA RetiredRow ==
  ASSUME NEW row \in VersionRow, NEW status \in {"superseded", "rolled_back"}
  PROVE  LET new == Retired(row, status)
         IN  /\ new \in VersionRow
             /\ new.status = status /\ new.revision = row.revision + 1
             /\ new.org = row.org /\ new.source = row.source /\ new.uses = row.uses
             /\ new.tested = row.tested /\ new.evaluation = row.evaluation
<1>1. row.evaluation \in Nat /\ status \in Released /\ status \in Statuses \ {"draft", "validated"}
  BY DEF VersionRow, Released, Statuses
<1>2. QED
  BY <1>1, ReleasedRow DEF Retired

LEMMA PublishedRow ==
  ASSUME NEW row \in VersionRow
  PROVE  LET new == Published(row)
         IN  /\ new \in VersionRow
             /\ new.status = "running" /\ new.revision = row.revision + 1
             /\ new.org = row.org /\ new.source = row.source /\ new.uses = row.uses
             /\ new.tested = row.tested /\ new.evaluation = row.evaluation
BY ReleasedRow DEF Published, Released, Statuses, VersionRow

LEMMA TestedRow ==
  ASSUME NEW row \in VersionRow, NEW p, NEW passed \in BOOLEAN, NEW n \in Nat
  PROVE  LET new == Tested(row, p, passed, n)
         IN  /\ new \in VersionRow
             /\ new.status = row.status /\ new.revision = row.revision
             /\ new.org = row.org /\ new.source = row.source /\ new.uses = row.uses
             /\ WithTests(new, row.tested) = row
<1>1. ASSUME NEW t \in [Providers -> [passed : BOOLEAN, revision : Nat]]
      PROVE  LET new == WithTests(row, t)
             IN  /\ new \in VersionRow
                 /\ new.status = row.status /\ new.revision = row.revision
                 /\ new.org = row.org /\ new.source = row.source /\ new.uses = row.uses
                 /\ WithTests(new, row.tested) = row
  BY DEF VersionRow, WithTests
<1>2. [row.tested EXCEPT ![p] = [passed |-> passed, revision |-> n]]
        \in [Providers -> [passed : BOOLEAN, revision : Nat]]
  BY DEF VersionRow
<1>3. QED
  BY <1>1, <1>2 DEF Tested

LEMMA RestoredRow ==
  ASSUME TypeOK, NEW v \in Ids
  PROVE  LET new == Restored(v)
         IN  /\ new \in VersionRow
             /\ new.status = "running" /\ new.org = versions[v].org /\ new.source = v
             /\ new.uses = versions[v].uses /\ new.evaluation = versions[v].evaluation
             /\ \A p \in Providers : ~new.tested[p].passed
<1>1. versions[v] \in VersionRow /\ v \in Nat /\ versions[v].org \in Orgs
  BY VersionTypes DEF VersionRow
<1>2. QED
  BY <1>1 DEF Restored, Untested, VersionRow, Statuses, Released

-----------------------------------------------------------------------------
LEMMA ReplacedSeq ==
  ASSUME NEW S, NEW s \in Seq(S), NEW i, NEW x, i \in DOMAIN s => x \in S
  PROVE  LET t == [s EXCEPT ![i] = x]
         IN  /\ t \in Seq(S) /\ DOMAIN t = DOMAIN s
             /\ \A j \in DOMAIN s : t[j] = IF j = i THEN x ELSE s[j]
<1>1. [s EXCEPT ![i] = x] \in [DOMAIN s -> S]
  BY RowsOfSeq
<1>2. QED
  BY <1>1, MappedSeq, RowsOfSeq

\* The transaction of no other thread is about version v.
OnlyBy(e, v) == \A f \in Admins \ {e} : ~HoldsVersion(f, v)

\* What a step of thread e makes of version v, and of a version that is new.
RowStep(e, v) ==
  LET old == versions[v]
      new == versions'[v]
      same == new.uses = old.uses /\ new.tested = old.tested
  IN  \/ new = old
      \/ /\ OnlyBy(e, v) /\ new.org = old.org /\ new.source = old.source
         /\ \/ /\ old.status = "draft" /\ new.status = "draft"
               /\ WithTests(new, old.tested) = old
               /\ TestConnection(e) /\ v = call[e].v
            \/ /\ new.revision = old.revision + 1
               /\ \/ /\ old.status = "draft" /\ new.status \in {"draft", "validated"}
                     /\ new.tested = old.tested
                  \/ /\ old.status = "validated" /\ new.status = "pending_publish" /\ same
                     /\ new.evaluation = v /\ v \in evaluations
                     /\ SubmitPublish(e) /\ v = call[e].v
                  \/ /\ old.status = "pending_publish" /\ new.status = "running" /\ same
                     /\ new.evaluation = old.evaluation /\ Publish(e) /\ v = call[e].v
                  \/ /\ old.status = "running" /\ new.status \in {"superseded", "rolled_back"}
                     /\ same /\ new.evaluation = old.evaluation
                     /\ Publish(e) \/ Rollback(e)
                     /\ old.org = versions[call[e].v].org

NewRow(e, v) ==
  /\ v = Len(versions) + 1
  /\ \/ call[e].org \in Orgs /\ versions'[v] = Draft(call[e].org)
     \/ Rollback(e) /\ versions'[v] = Restored(call[e].v)

VersionsStep(e) ==
  /\ versions' \in Seq(VersionRow)
  /\ Ids \subseteq DOMAIN versions'
  /\ \A v \in Ids : RowStep(e, v)
  /\ \A v \in DOMAIN versions' \ Ids : NewRow(e, v)

\* What a transaction on a version knows when it commits.
LEMMA Committing ==
  ASSUME Inv, NEW e \in Admins, NEW op \in VersionOps, Commits(e, op)
  PROVE  LET v == call[e].v
         IN  /\ v \in Ids /\ versions[v] \in VersionRow /\ versions[v].status \in Fits(op)
             /\ OnlyBy(e, v)
             /\ op \in OrgOps =>
                  /\ seen[e].running = RunningIn(versions[v].org)
                  /\ \A f \in Admins \ {e}, u \in seen[e].running : ~HoldsVersion(f, u)
<1>1. InTransaction(e) /\ call[e].op = op /\ pc[e] # "idle"
  BY DEF Commits, InTransaction
<1>2. call[e].v \in Ids /\ versions[call[e].v] \in VersionRow
  BY <1>1, VersionTypes DEF Inv, Phases, CallOK
<1>3. versions[call[e].v].status \in Fits(op)
  BY <1>1 DEF Inv, Held
<1>4. OnlyBy(e, call[e].v)
  BY <1>1 DEF Inv, Exclusion, OnlyBy, HoldsVersion
<1>5. ASSUME op \in OrgOps
      PROVE  /\ seen[e].running = RunningIn(versions[call[e].v].org)
             /\ \A f \in Admins \ {e}, u \in seen[e].running : ~HoldsVersion(f, u)
  <2>1. seen[e].running = RunningIn(versions[call[e].v].org)
    BY <1>1, <1>5 DEF Inv, Held, Commits
  <2>2. ASSUME NEW f \in Admins \ {e}, NEW u \in seen[e].running, HoldsVersion(f, u)
        PROVE  FALSE
    <3>1. versions[u].status = "running" /\ versions[u].org = versions[call[e].v].org
      BY <2>1 DEF RunningIn
    <3>2. call[f].op \in VersionOps /\ call[f].v = u /\ InTransaction(f)
      BY <2>2 DEF HoldsVersion
    <3>3. "running" \in Fits(call[f].op)
      BY <3>1, <3>2 DEF Inv, Held
    <3>4. call[f].op = "rollback"
      BY <3>2, <3>3 DEF Fits, VersionOps
    <3>5. QED
      BY <1>1, <1>5, <3>1, <3>2, <3>4 DEF Inv, Exclusion, OrgOps
  <2>3. QED
    BY <2>1, <2>2
<1>6. QED
  BY <1>2, <1>3, <1>4, <1>5

LEMMA OneRowStep ==
  ASSUME TypeOK, NEW e \in Admins, NEW v \in Ids, NEW row \in VersionRow,
         versions' = [versions EXCEPT ![v] = row], RowStep(e, v)
  PROVE  VersionsStep(e)
<1>1. versions \in Seq(VersionRow)
  BY DEF TypeOK
<1>2. /\ versions' \in Seq(VersionRow) /\ DOMAIN versions' = Ids
      /\ \A u \in Ids : u # v => versions'[u] = versions[u]
  BY <1>1, ReplacedSeq DEF Ids
<1>3. \A u \in Ids : u # v => RowStep(e, u)
  BY <1>2 DEF RowStep
<1>4. QED
  BY <1>2, <1>3 DEF VersionsStep

LEMMA AppendRowStep ==
  ASSUME TypeOK, NEW e \in Admins, NEW s \in Seq(VersionRow), NEW row \in VersionRow,
         DOMAIN s = Ids, Len(s) = Len(versions),
         versions' = Append(s, row),
         \A v \in Ids : versions'[v] = s[v] => RowStep(e, v),
         versions'[Len(versions) + 1] = row => NewRow(e, Len(versions) + 1)
  PROVE  VersionsStep(e)
<1>1. /\ versions' \in Seq(VersionRow) /\ DOMAIN versions' = Ids \cup {Len(versions) + 1}
      /\ \A v \in Ids : versions'[v] = s[v]
      /\ versions'[Len(versions) + 1] = row
  BY AppendedSeq
<1>2. QED
  BY <1>1 DEF VersionsStep

LEMMA TestStep ==
  ASSUME Inv, NEW e \in Admins, TestConnection(e)
  PROVE  VersionsStep(e)
<1> DEFINE v == call[e].v
           row == Tested(versions[v], call[e].p, seen[e].passed, seen[e].revision + 1)
<1>1. TypeOK /\ v \in Ids /\ versions[v] \in VersionRow
  BY VersionTypes DEF Inv, Phases, CallOK, TestConnection, Commits, OrgOps
<1>2. seen[e].passed \in BOOLEAN /\ seen[e].revision + 1 \in Nat
  BY DEF Inv, TypeOK, SeenType
<1>3. /\ row \in VersionRow /\ row.status = versions[v].status
      /\ row.org = versions[v].org /\ row.source = versions[v].source
      /\ WithTests(row, versions[v].tested) = versions[v]
  BY <1>1, <1>2, TestedRow
<1>4. versions[v].status = "draft" /\ OnlyBy(e, v)
  BY DEF TestConnection, DraftAsSeen, VersionFree, OnlyBy
<1>5. versions' = [versions EXCEPT ![v] = row]
  BY DEF TestConnection
<1> HIDE DEF row
<1>6. versions'[v] = row
  BY <1>1, <1>5 DEF Ids, TypeOK
<1>7. RowStep(e, v)
  BY <1>3, <1>4, <1>6 DEF RowStep
<1>8. QED
  BY <1>1, <1>3, <1>5, <1>7, OneRowStep

LEMMA SaveStep ==
  ASSUME Inv, NEW e \in Admins, NEW op \in VersionOps, Commits(e, op), NEW row,
         row \in VersionRow, Save(e, row),
         LET old == versions[call[e].v]
         IN  /\ row.revision = old.revision + 1
             /\ row.org = old.org /\ row.source = old.source /\ row.tested = old.tested
             /\ \/ old.status = "draft" /\ row.status \in {"draft", "validated"}
                \/ /\ old.status = "validated" /\ row.status = "pending_publish"
                   /\ row.uses = old.uses /\ SubmitPublish(e)
                   /\ row.evaluation = call[e].v /\ call[e].v \in evaluations
  PROVE  VersionsStep(e)
<1> DEFINE v == call[e].v
<1>1. TypeOK /\ v \in Ids /\ OnlyBy(e, v)
  BY Committing DEF Inv
<1>2. versions' = [versions EXCEPT ![v] = row]
  BY DEF Save
<1>3. versions'[v] = row
  BY <1>1, <1>2 DEF Ids, TypeOK
<1>4. RowStep(e, v)
  BY <1>1, <1>3 DEF RowStep
<1>5. QED
  BY <1>1, <1>2, <1>4, OneRowStep

LEMMA PublishStep ==
  ASSUME Inv, NEW e \in Admins, Publish(e)
  PROVE  /\ VersionsStep(e) /\ DOMAIN versions' = Ids
         /\ \A u \in RunningIn(versions[call[e].v].org) : versions'[u].status # "running"
<1> DEFINE v == call[e].v
           S == RunningIn(versions[v].org)
<1>1. Commits(e, "publish") /\ "publish" \in VersionOps /\ "publish" \in OrgOps
  BY DEF Publish, VersionOps, OrgOps
<1>2. /\ TypeOK /\ v \in Ids /\ versions[v].status \in Fits("publish") /\ OnlyBy(e, v)
      /\ seen[e].running = S /\ \A u \in S : OnlyBy(e, u)
  BY <1>1, Committing DEF Inv, OnlyBy
<1>3. versions[v].status = "pending_publish" /\ v \notin S
  BY <1>2 DEF Fits, RunningIn
<1>4. /\ DOMAIN versions' = Ids
      /\ versions'[v] = Published(versions[v])
      /\ \A u \in S : versions'[u] = Retired(versions[u], "superseded")
      /\ \A u \in Ids : u # v /\ u \notin S => versions'[u] = versions[u]
  BY <1>2, <1>3 DEF Publish, RunningIn
<1>5. \A u \in Ids : versions[u] \in VersionRow
  BY <1>2, VersionTypes
<1>6. \A u \in Ids : versions'[u] \in VersionRow
  BY <1>2, <1>4, <1>5, PublishedRow, RetiredRow
<1>7. versions' \in Seq(VersionRow)
  <2>1. versions' \in [Ids -> VersionRow]
    BY <1>6 DEF Publish
  <2>2. QED
    BY <1>2, <2>1, MappedSeq DEF TypeOK, Ids
<1>8. RowStep(e, v)
  BY <1>2, <1>3, <1>4, <1>5, PublishedRow DEF RowStep
<1>9. ASSUME NEW u \in S
      PROVE  RowStep(e, u) /\ versions'[u].status # "running"
  <2>1. u \in Ids /\ versions[u].status = "running" /\ versions[u].org = versions[v].org
    BY DEF RunningIn
  <2>2. QED
    BY <1>2, <1>4, <1>5, <2>1, RetiredRow DEF RowStep
<1>10. ASSUME NEW u \in Ids PROVE RowStep(e, u)
  <2>1. CASE u = v
    BY <1>8, <2>1
  <2>2. CASE u \in S
    BY <1>9, <2>2
  <2>3. CASE u # v /\ u \notin S
    BY <1>4, <2>3 DEF RowStep
  <2>4. QED
    BY <2>1, <2>2, <2>3
<1>11. QED
  BY <1>4, <1>7, <1>9, <1>10 DEF VersionsStep

LEMMA RollbackStep ==
  ASSUME Inv, NEW e \in Admins, Rollback(e)
  PROVE  /\ VersionsStep(e) /\ call[e].v \in Ids /\ versions[call[e].v].status \in Released
         /\ Len(versions) + 1 \in DOMAIN versions' \ Ids
         /\ versions'[Len(versions) + 1] = Restored(call[e].v)
         /\ \A u \in RunningIn(versions[call[e].v].org) : versions'[u].status # "running"
<1> DEFINE v == call[e].v
           S == RunningIn(versions[v].org)
           status(u) == IF u = v THEN "superseded" ELSE "rolled_back"
           s == [u \in Ids |-> IF u \notin S THEN versions[u] ELSE Retired(versions[u], status(u))]
<1>1. Commits(e, "rollback") /\ "rollback" \in VersionOps /\ "rollback" \in OrgOps
  BY DEF Rollback, VersionOps, OrgOps
<1>2. /\ TypeOK /\ v \in Ids /\ versions[v].status \in Fits("rollback")
      /\ seen[e].running = S /\ \A u \in S : OnlyBy(e, u)
  BY <1>1, Committing DEF Inv, OnlyBy
<1>3. \A u \in Ids : versions[u] \in VersionRow
  BY <1>2, VersionTypes
<1>4. \A u : status(u) \in {"superseded", "rolled_back"}
  OBVIOUS
<1>5. versions' = Append(s, Restored(v))
  BY <1>2 DEF Rollback
<1> HIDE DEF status
<1>6. \A u \in S : u \in Ids
  BY DEF RunningIn
<1>7. \A u \in Ids : s[u] \in VersionRow
  BY <1>3, <1>4, RetiredRow
<1>8. s \in [Ids -> VersionRow]
  BY <1>7
<1>9. \A u \in Ids : u \notin S => s[u] = versions[u]
  OBVIOUS
<1>10. \A u \in S : s[u] = Retired(versions[u], status(u))
  BY <1>6
<1> HIDE DEF s
<1>11. s \in Seq(VersionRow) /\ DOMAIN s = Ids /\ Len(s) = Len(versions)
  BY <1>2, <1>8, MappedSeq DEF TypeOK, Ids
<1>12. Restored(v) \in VersionRow
  BY <1>2, RestoredRow
<1>13. /\ Len(versions) + 1 \in DOMAIN versions' \ Ids
       /\ versions'[Len(versions) + 1] = Restored(v)
       /\ \A u \in Ids : versions'[u] = s[u]
  BY <1>5, <1>11, <1>12, AppendedSeq
<1>14. ASSUME NEW u \in S
       PROVE  RowStep(e, u) /\ versions'[u].status # "running"
  <2>1. u \in Ids /\ versions[u].status = "running" /\ versions[u].org = versions[v].org
    BY DEF RunningIn
  <2>2. versions'[u] = Retired(versions[u], status(u)) /\ status(u) \in {"superseded", "rolled_back"}
    BY <1>4, <1>10, <1>13, <2>1
  <2>3. QED
    BY <1>2, <1>3, <2>1, <2>2, RetiredRow DEF RowStep
<1>15. \A u \in Ids : RowStep(e, u)
  BY <1>9, <1>13, <1>14 DEF RowStep
<1>16. NewRow(e, Len(versions) + 1)
  BY <1>13 DEF NewRow
<1>17. VersionsStep(e)
  BY <1>2, <1>5, <1>11, <1>12, <1>15, <1>16, AppendRowStep
<1>18. QED
  BY <1>2, <1>13, <1>14, <1>17 DEF Fits

LEMMA VersionsStepHolds ==
  ASSUME Inv, NEW e \in Admins, Acts(e)
  PROVE  VersionsStep(e)
<1>1. TypeOK /\ versions \in Seq(VersionRow)
  BY DEF Inv, TypeOK
<1>2. CASE TestConnection(e)
  BY <1>2, TestStep
<1>3. CASE CreateDraft(e)
  <2>1. call[e].org \in Orgs
    BY <1>3 DEF Inv, Phases, CallOK, CreateDraft, Commits, OrgOps
  <2>2. Draft(call[e].org) \in VersionRow
    BY <2>1, DraftType
  <2>3. versions' = Append(versions, Draft(call[e].org))
    BY <1>3 DEF CreateDraft
  <2>4. /\ \A v \in Ids : versions'[v] = versions[v] => RowStep(e, v)
        /\ versions'[Len(versions) + 1] = Draft(call[e].org) => NewRow(e, Len(versions) + 1)
    BY <2>1 DEF RowStep, NewRow
  <2>5. QED
    BY <1>1, <2>2, <2>3, <2>4, AppendRowStep DEF Ids
<1>4. CASE ReplaceRoutes(e)
  <2>1. Commits(e, "replace_routes") /\ "replace_routes" \in VersionOps
    BY <1>4 DEF ReplaceRoutes, VersionOps
  <2>2. versions[call[e].v] \in VersionRow /\ versions[call[e].v].status = "draft"
    BY <2>1, Committing DEF Fits
  <2>3. call[e].uses \in SUBSET Providers
    BY DEF Inv, TypeOK, CallType
  <2> DEFINE row == Routed(versions[call[e].v], call[e].uses)
              old == versions[call[e].v]
  <2>4. /\ row \in VersionRow /\ row.revision = old.revision + 1
        /\ row.org = old.org /\ row.source = old.source /\ row.status = "draft"
        /\ row.tested = old.tested
    BY <2>2, <2>3, RoutedRow
  <2>5. Save(e, row)
    BY <1>4 DEF ReplaceRoutes
  <2> HIDE DEF row
  <2>6. QED
    BY <2>1, <2>2, <2>3, <2>4, <2>5, SaveStep
<1>5. CASE Validate(e)
  <2>1. Commits(e, "validate") /\ "validate" \in VersionOps /\ "validated" \in Statuses
    BY <1>5 DEF Validate, VersionOps, Statuses
  <2>2. versions[call[e].v] \in VersionRow /\ versions[call[e].v].status = "draft"
    BY <2>1, Committing DEF Fits
  <2> DEFINE row == Advanced(versions[call[e].v], "validated")
              old == versions[call[e].v]
  <2>3. /\ row \in VersionRow /\ row.revision = old.revision + 1
        /\ row.org = old.org /\ row.source = old.source /\ row.status = "validated"
        /\ row.tested = old.tested
    BY <2>1, <2>2, AdvancedRow
  <2>4. Save(e, row)
    BY <1>5 DEF Validate
  <2> HIDE DEF row
  <2>5. QED
    BY <2>1, <2>2, <2>3, <2>4, SaveStep
<1>6. CASE SubmitPublish(e)
  <2>1. Commits(e, "submit_publish") /\ "submit_publish" \in VersionOps
    BY <1>6 DEF SubmitPublish, VersionOps
  <2>2. versions[call[e].v] \in VersionRow /\ versions[call[e].v].status = "validated"
    BY <2>1, Committing DEF Fits
  <2>3. call[e].evaluation = call[e].v /\ call[e].v \in evaluations
    BY <2>1 DEF Inv, TypeOK, CallType, Phases, CallOK, Commits, OrgOps
  <2>4. call[e].evaluation \in Nat
    BY DEF Inv, TypeOK, CallType
  <2> DEFINE row == Submitted(versions[call[e].v], call[e].evaluation)
              old == versions[call[e].v]
  <2>5. /\ row \in VersionRow /\ row.revision = old.revision + 1
        /\ row.org = old.org /\ row.source = old.source /\ row.status = "pending_publish"
        /\ row.uses = old.uses /\ row.tested = old.tested
        /\ row.evaluation = call[e].evaluation
    <3>1. \A v \in VersionRow, n \in Nat : Submitted(v, n).revision = v.revision + 1
      BY SubmittedRow
    <3>2. row.revision = old.revision + 1
      BY <2>2, <2>4, <3>1
    <3>3. row \in VersionRow
      BY <2>2, <2>4, SubmittedRow
    <3>4. row.org = old.org /\ row.source = old.source /\ row.status = "pending_publish"
      BY <2>2, <2>4, SubmittedRow
    <3>5. row.uses = old.uses /\ row.tested = old.tested
      BY <2>2, <2>4, SubmittedRow
    <3>6. row.evaluation = call[e].evaluation
      BY <2>2, <2>4, SubmittedRow
    <3>7. QED
      BY <3>2, <3>3, <3>4, <3>5, <3>6
  <2>6. Save(e, row)
    BY <1>6 DEF SubmitPublish
  <2> HIDE DEF row
  <2>7. QED
    BY <1>6, <2>1, <2>2, <2>3, <2>4, <2>5, <2>6, SaveStep
<1>7. CASE Publish(e)
  BY <1>7, PublishStep
<1>8. CASE Rollback(e)
  BY <1>8, RollbackStep
<1>9. CASE versions' = versions
  BY <1>1, <1>9 DEF VersionsStep, RowStep, Ids
<1>10. QED
  BY <1>2, <1>3, <1>4, <1>5, <1>6, <1>7, <1>8, <1>9, StepCases DEF Begin, AskTester, AskGate,
     Lock, ReadRunning, Refuse, CreateProvider, UpdateProvider

-----------------------------------------------------------------------------
(***************************************************************************)
(* The invariant, conjunct by conjunct, over a step of a thread.           *)
(***************************************************************************)
LEMMA TypeStep ==
  ASSUME Inv, NEW e \in Admins, Acts(e)
  PROVE  TypeOK'
<1>1. TypeOK /\ Phases
  BY DEF Inv
<1>2. providers' \in [Providers -> ProviderRow]
  BY <1>1, ProvidersStep
<1>3. versions' \in Seq(VersionRow) /\ evaluations' \subseteq DOMAIN versions'
  BY <1>1, VersionsStepHolds, AuditStep DEF VersionsStep, TypeOK, Ids
<1>4. audit' \subseteq [call : CallType, object : Nat]
  BY <1>1, AuditStep DEF TypeOK
<1>5. NoCall \in CallType /\ NothingSeen \in SeenType
  BY DEF NoCall, CallType, NothingSeen, SeenType
<1>6. /\ pc' \in [Admins -> {"idle", "read", "begun", "locked", "checked"}]
      /\ call' \in [Admins -> CallType]
  <2>1. CASE Begin(e)
    <3>1. PICK c \in RepeatedCalls \cup FreshCalls :
            /\ call' = [call EXCEPT ![e] = c]
            /\ pc' = [pc EXCEPT ![e] = IF c.op \in AskingOps THEN "read" ELSE "begun"]
      BY <2>1 DEF Begin
    <3>2. c \in CallType
      BY <1>1, CallsOK
    <3>3. QED
      BY <1>1, <3>1, <3>2 DEF TypeOK
  <2>2. CASE AskTester(e) \/ AskGate(e) \/ Lock(e) \/ ReadRunning(e)
    BY <1>1, <2>2 DEF TypeOK, AskTester, AskGate, Lock, ReadRunning
  <2>3. CASE Finish(e)
    BY <1>1, <1>5, <2>3 DEF TypeOK, Finish
  <2>4. QED
    BY <2>1, <2>2, <2>3, StepCases DEF Refuse, CreateProvider, UpdateProvider, TestConnection,
       CreateDraft, ReplaceRoutes, Validate, SubmitPublish, Save, Publish, Rollback
<1>7. seen' \in [Admins -> SeenType]
  <2>1. CASE AskTester(e)
    <3>1. call[e] \in CallType /\ CallOK(call[e]) /\ call[e].op = "test_connection"
      BY <1>1, <2>1 DEF TypeOK, Phases, AskTester
    <3>2. versions[call[e].v] \in VersionRow /\ providers[call[e].p] \in ProviderRow
      BY <1>1, <3>1, VersionTypes DEF CallOK, TypeOK
    <3>3. PICK passed \in BOOLEAN :
            seen' = [seen EXCEPT ![e] =
                       [ revision |-> providers[call[e].p].revision, passed |-> passed,
                         draft |-> versions[call[e].v].revision,
                         uses |-> versions[call[e].v].uses, running |-> {} ]]
      BY <2>1 DEF AskTester
    <3>4. [ revision |-> providers[call[e].p].revision, passed |-> passed,
            draft |-> versions[call[e].v].revision,
            uses |-> versions[call[e].v].uses, running |-> {} ] \in SeenType
      BY <3>2 DEF VersionRow, ProviderRow, SeenType
    <3>5. QED
      BY <1>1, <3>3, <3>4 DEF TypeOK
  <2>2. CASE AskGate(e)
    <3>1. CallOK(call[e]) /\ call[e].op = "submit_publish"
      BY <1>1, <2>2 DEF Phases, AskGate
    <3>2. versions[call[e].v].uses \in SUBSET Providers
      BY <1>1, <3>1, VersionTypes DEF CallOK, VersionOps, VersionRow
    <3>3. ASSUME NEW old \in SeenType
          PROVE  [old EXCEPT !.uses = versions[call[e].v].uses] \in SeenType
      BY <3>2 DEF SeenType
    <3>4. seen' = [seen EXCEPT ![e] = [seen[e] EXCEPT !.uses = versions[call[e].v].uses]]
      BY <2>2 DEF AskGate
    <3>5. [seen[e] EXCEPT !.uses = versions[call[e].v].uses] \in SeenType
      BY <1>1, <3>3 DEF TypeOK
    <3>6. QED
      BY <1>1, <3>4, <3>5 DEF TypeOK
  <2>3. CASE ReadRunning(e)
    <3>1. RunningIn(versions[call[e].v].org) \in SUBSET Nat
      BY <1>1, VersionTypes DEF RunningIn
    <3>2. ASSUME NEW old \in SeenType
          PROVE  [old EXCEPT !.running = RunningIn(versions[call[e].v].org)] \in SeenType
      BY <3>1 DEF SeenType
    <3>3. seen' = [seen EXCEPT ![e] = [seen[e] EXCEPT !.running = RunningIn(versions[call[e].v].org)]]
      BY <2>3 DEF ReadRunning
    <3>4. [seen[e] EXCEPT !.running = RunningIn(versions[call[e].v].org)] \in SeenType
      BY <1>1, <3>2 DEF TypeOK
    <3>5. QED
      BY <1>1, <3>3, <3>4 DEF TypeOK
  <2>4. CASE Finish(e)
    BY <1>1, <1>5, <2>4 DEF TypeOK, Finish
  <2>5. CASE seen' = seen
    BY <1>1, <2>5 DEF TypeOK
  <2>6. QED
    BY <2>1, <2>2, <2>3, <2>4, <2>5, StepCases DEF Begin, Lock, Refuse, CreateProvider,
       UpdateProvider, TestConnection, CreateDraft, ReplaceRoutes, Validate, SubmitPublish,
       Save, Publish, Rollback
<1>8. QED
  BY <1>2, <1>3, <1>4, <1>6, <1>7 DEF TypeOK, Ids

LEMMA PhasesStep ==
  ASSUME Inv, NEW e \in Admins, Acts(e)
  PROVE  Phases'
<1>1. TypeOK /\ Phases
  BY DEF Inv
<1>2. Ids \subseteq DOMAIN versions' /\ evaluations' = evaluations
  BY <1>1, VersionsStepHolds, AuditStep DEF VersionsStep
<1> DEFINE StaysOK(c) ==
      /\ c.op \in Ops
      /\ c.op \in {"create_provider", "update_provider", "test_connection"} => c.p \in Providers
      /\ c.op = "create_draft" => c.org \in Orgs
      /\ c.op \in VersionOps \cup {"test_connection"} => c.v \in DOMAIN versions'
      /\ c.op = "submit_publish" => c.evaluation \in evaluations'
<1>3. \A c : CallOK(c) => StaysOK(c)
  BY <1>2 DEF CallOK, Ids
<1> HIDE DEF StaysOK
<1>4. \A f \in Admins \ {e} : pc'[f] = pc[f] /\ call'[f] = call[f]
  BY <1>1, OthersStay
<1>5. \A a \in audit' : StaysOK(a.call)
  <2>1. ASSUME NEW a \in audit', a \notin audit PROVE a.call = call[e] /\ pc[e] # "idle"
    BY <1>1, <2>1, AuditStep DEF InTransaction
  <2>2. QED
    BY <1>1, <1>3, <2>1 DEF Phases
<1>6. /\ pc'[e] # "idle" => StaysOK(call'[e])
      /\ pc'[e] = "checked" => call'[e].op \in OrgOps
      /\ call'[e].op = "submit_publish" /\ pc'[e] \in {"begun", "locked"} =>
           call'[e].evaluation = call'[e].v
  <2>1. CASE Begin(e)
    <3>1. PICK c \in RepeatedCalls \cup FreshCalls :
            /\ call' = [call EXCEPT ![e] = c]
            /\ pc' = [pc EXCEPT ![e] = IF c.op \in AskingOps THEN "read" ELSE "begun"]
      BY <2>1 DEF Begin
    <3>2. StaysOK(c)
      BY <1>1, <1>3, CallsOK
    <3>3. call'[e] = c /\ pc'[e] = IF c.op \in AskingOps THEN "read" ELSE "begun"
      BY <1>1, <3>1 DEF TypeOK
    <3>4. QED
      BY <3>2, <3>3 DEF AskingOps
  <2>2. CASE AskTester(e) \/ AskGate(e) \/ Lock(e) \/ ReadRunning(e)
    <3>1. call' = call /\ StaysOK(call[e])
      BY <1>1, <1>3, <2>2 DEF Phases, AskTester, AskGate, Lock, ReadRunning
    <3>2. QED
      BY <1>1, <2>2, <3>1 DEF TypeOK, Phases, AskTester, AskGate, Lock, ReadRunning
  <2>3. CASE pc'[e] = "idle" /\ call'[e] = NoCall
    BY <2>3 DEF NoCall
  <2>4. QED
    BY <1>1, <2>1, <2>2, <2>3, ThreadStep
<1>7. \A f \in Admins \ {e} :
        /\ pc'[f] # "idle" => StaysOK(call'[f])
        /\ pc'[f] = "checked" => call'[f].op \in OrgOps
        /\ call'[f].op = "submit_publish" /\ pc'[f] \in {"begun", "locked"} =>
             call'[f].evaluation = call'[f].v
  BY <1>1, <1>3, <1>4 DEF Phases
<1>8. QED
  BY <1>5, <1>6, <1>7 DEF Phases, CallOK, Ids, StaysOK

(***************************************************************************)
(* What a transaction has found stays so over the steps of other threads.  *)
(***************************************************************************)
LEMMA Bystander ==
  ASSUME Inv, NEW e \in Admins, Acts(e), NEW f \in Admins \ {e}, InTransaction(f)
  PROVE  LET v == call[f].v
         IN  /\ pc'[f] = pc[f] /\ call'[f] = call[f] /\ seen'[f] = seen[f]
             /\ ~KeyUsed(call[f])'
             /\ call[f].op \in VersionOps => v \in Ids /\ versions'[v] = versions[v]
             /\ pc[f] = "checked" =>
                  /\ call[f].op \in OrgOps /\ call[f].op \in VersionOps
                  /\ {u \in DOMAIN versions' : versions'[u].org = versions[v].org
                                                 /\ versions'[u].status = "running"}
                       = RunningIn(versions[v].org)
                  /\ \A p \in versions[v].uses : providers'[p] = providers[p]
<1> DEFINE v == call[f].v
<1>1. TypeOK /\ Phases /\ pc[f] # "idle" /\ CallOK(call[f])
  BY DEF Inv, Phases, InTransaction
<1>2. pc'[f] = pc[f] /\ call'[f] = call[f] /\ seen'[f] = seen[f]
  BY <1>1, OthersStay
<1>3. ~KeyUsed(call[f])'
  <2>1. ASSUME NEW a \in audit' PROVE ~(a.call.op = call[f].op /\ a.call.key = call[f].key)
    <3>1. CASE a \in audit
      BY <3>1 DEF Inv, Held, KeyUsed
    <3>2. CASE a \notin audit
      <4>1. a.call = call[e] /\ InTransaction(e)
        BY <1>1, <3>2, AuditStep
      <4>2. QED
        BY <4>1 DEF Inv, Exclusion
    <3>3. QED
      BY <3>1, <3>2
  <2>2. QED
    BY <1>2, <2>1 DEF KeyUsed
<1>4. ASSUME call[f].op \in VersionOps
      PROVE  v \in Ids /\ versions'[v] = versions[v]
  <2>1. v \in Ids /\ HoldsVersion(f, v)
    BY <1>1, <1>4 DEF CallOK, HoldsVersion
  <2>2. RowStep(e, v)
    BY <2>1, VersionsStepHolds DEF VersionsStep
  <2>3. ~OnlyBy(e, v)
    BY <2>1 DEF OnlyBy
  <2>4. QED
    BY <2>1, <2>2, <2>3 DEF RowStep
<1>5. ASSUME pc[f] = "checked"
      PROVE  /\ call[f].op \in OrgOps /\ call[f].op \in VersionOps
             /\ {u \in DOMAIN versions' : versions'[u].org = versions[v].org
                                            /\ versions'[u].status = "running"}
                  = RunningIn(versions[v].org)
             /\ \A p \in versions[v].uses : providers'[p] = providers[p]
  <2>1. call[f].op \in OrgOps /\ call[f].op \in VersionOps
    BY <1>1, <1>5 DEF Phases, OrgOps, VersionOps
  <2>2. ASSUME Publish(e) \/ Rollback(e)
        PROVE  versions[call[e].v].org # versions[v].org
    <3>1. InTransaction(e) /\ call[e].op \in OrgOps
      BY <2>2 DEF Publish, Rollback, Commits, InTransaction, OrgOps
    <3>2. QED
      BY <2>1, <3>1 DEF Inv, Exclusion
  <2>3. ASSUME NEW u \in Ids
        PROVE  versions'[u].org = versions[v].org /\ versions'[u].status = "running"
                 <=> versions[u].org = versions[v].org /\ versions[u].status = "running"
    <3>1. RowStep(e, u)
      BY VersionsStepHolds DEF VersionsStep
    <3>2. versions'[u].org = versions[u].org
      BY <3>1 DEF RowStep
    <3>3. Publish(e) /\ u = call[e].v => versions[u].org # versions[v].org
      BY <2>2
    <3>4. QED
      BY <2>2, <3>1, <3>2, <3>3 DEF RowStep
  <2>4. ASSUME NEW u \in DOMAIN versions' \ Ids
        PROVE  ~(versions'[u].org = versions[v].org /\ versions'[u].status = "running")
    <3>1. NewRow(e, u)
      BY VersionsStepHolds DEF VersionsStep
    <3>2. CASE versions'[u] = Draft(call[e].org)
      BY <3>2 DEF Draft
    <3>3. CASE Rollback(e) /\ versions'[u] = Restored(call[e].v)
      BY <2>2, <3>3 DEF Restored
    <3>4. QED
      BY <3>1, <3>2, <3>3 DEF NewRow
  <2>5. Ids \subseteq DOMAIN versions'
    BY VersionsStepHolds DEF VersionsStep
  <2>6. ASSUME NEW p \in versions[v].uses
        PROVE  providers'[p] = providers[p]
    <3>1. Ready(v, NeedsCurrent(f))
      BY <1>5 DEF Inv, Held
    <3>2. providers[p].enabled
      BY <3>1 DEF Ready, ProviderReady
    <3>3. providers[p] # Missing
      BY <3>2 DEF Missing
    <3>4. p \in Providers
      BY <1>1, <2>1, VersionTypes DEF CallOK, VersionRow
    <3>5. SharesProvider(f, p)
      BY <1>5, <2>1 DEF SharesProvider
    <3>6. ~HoldsProvider(e, p)
      BY <3>4, <3>5 DEF Inv, Exclusion, HoldsProvider
    <3>7. QED
      BY <1>1, <3>3, <3>4, <3>6, ProvidersStep
  <2>7. QED
    BY <2>1, <2>3, <2>4, <2>5, <2>6 DEF RunningIn
<1>6. QED
  BY <1>2, <1>3, <1>4, <1>5

\* The thread that steps is in its transaction after it only if it has locked or read.
LEMMA ActorInTransaction ==
  ASSUME Inv, NEW e \in Admins, Acts(e), InTransaction(e)'
  PROVE  /\ (Lock(e) /\ pc'[e] = "locked") \/ (ReadRunning(e) /\ pc'[e] = "checked")
         /\ UNCHANGED << providers, versions, evaluations, audit, call >>
<1>1. TypeOK
  BY DEF Inv
<1>2. /\ ~(pc'[e] = "idle")
      /\ ~Begin(e) /\ ~AskTester(e) /\ ~AskGate(e)
  BY <1>1 DEF InTransaction, TypeOK, Begin, AskTester, AskGate
<1>3. Lock(e) \/ ReadRunning(e)
  BY <1>1, <1>2, ThreadStep
<1>4. CASE Lock(e)
  <2>1. pc' = [pc EXCEPT ![e] = "locked"] /\ UNCHANGED << providers, versions, evaluations, audit, call >>
    BY <1>4 DEF Lock
  <2>2. pc'[e] = "locked"
    BY <1>1, <2>1 DEF TypeOK
  <2>3. QED
    BY <1>4, <2>1, <2>2
<1>5. CASE ReadRunning(e)
  <2>1. pc' = [pc EXCEPT ![e] = "checked"] /\ UNCHANGED << providers, versions, evaluations, audit, call >>
    BY <1>5 DEF ReadRunning
  <2>2. pc'[e] = "checked"
    BY <1>1, <2>1 DEF TypeOK
  <2>3. QED
    BY <1>5, <2>1, <2>2
<1>6. QED
  BY <1>3, <1>4, <1>5

LEMMA HeldStep ==
  ASSUME Inv, NEW e \in Admins, Acts(e)
  PROVE  Held'
<1>1. ASSUME NEW f \in Admins \ {e}, InTransaction(f)'
      PROVE  /\ ~KeyUsed(call[f])'
             /\ call'[f].op \in VersionOps => versions'[call'[f].v].status \in Fits(call'[f].op)
             /\ pc'[f] = "checked" =>
                  /\ (seen[f].running = RunningIn(versions[call[f].v].org))'
                  /\ Ready(call[f].v, NeedsCurrent(f))'
  <2>1. InTransaction(f)
    BY <1>1, OthersStay DEF Inv, InTransaction
  <2>2. call'[f] = call[f] /\ seen'[f] = seen[f] /\ pc'[f] = pc[f]
    BY <2>1, Bystander
  <2>3. call[f].op \in VersionOps => versions'[call[f].v] = versions[call[f].v]
    BY <2>1, Bystander
  <2>4. call'[f].op \in VersionOps => versions'[call'[f].v].status \in Fits(call'[f].op)
    BY <2>1, <2>2, <2>3 DEF Inv, Held
  <2>5. ASSUME pc'[f] = "checked"
        PROVE  /\ (seen[f].running = RunningIn(versions[call[f].v].org))'
               /\ Ready(call[f].v, NeedsCurrent(f))'
    <3>1. /\ call[f].op \in VersionOps
          /\ {u \in DOMAIN versions' : versions'[u].org = versions[call[f].v].org
                                         /\ versions'[u].status = "running"}
               = RunningIn(versions[call[f].v].org)
          /\ \A p \in versions[call[f].v].uses : providers'[p] = providers[p]
      BY <2>1, <2>2, <2>5, Bystander
    <3>2. seen[f].running = RunningIn(versions[call[f].v].org) /\ Ready(call[f].v, NeedsCurrent(f))
      BY <2>2, <2>5 DEF Inv, Held
    <3>3. (seen[f].running = RunningIn(versions[call[f].v].org))'
      BY <2>2, <2>3, <3>1, <3>2 DEF RunningIn, Ids
    <3>4. Ready(call[f].v, NeedsCurrent(f))'
      BY <2>2, <2>3, <3>1, <3>2 DEF Ready, ProviderReady, NeedsCurrent
    <3>5. QED
      BY <3>3, <3>4
  <2>6. QED
    BY <2>1, <2>4, <2>5, Bystander
<1>2. ASSUME InTransaction(e)'
      PROVE  /\ ~KeyUsed(call[e])'
             /\ call'[e].op \in VersionOps => versions'[call'[e].v].status \in Fits(call'[e].op)
             /\ pc'[e] = "checked" =>
                  /\ (seen[e].running = RunningIn(versions[call[e].v].org))'
                  /\ Ready(call[e].v, NeedsCurrent(e))'
  <2>1. UNCHANGED << providers, versions, evaluations, audit, call >>
    BY <1>2, ActorInTransaction
  <2>2. CASE Lock(e) /\ pc'[e] = "locked"
    <3>1. ~KeyUsed(call[e])'
      BY <2>1, <2>2 DEF Lock, KeyUsed
    <3>2. ASSUME call[e].op \in VersionOps
          PROVE  versions[call[e].v].status \in Fits(call[e].op)
      <4>1. Admissible(e)
        BY <2>2, <3>2 DEF Lock, TargetAsSeen
      <4>2. QED
        BY <3>2, <4>1 DEF Admissible, Fits, VersionOps
    <3>3. QED
      BY <2>1, <2>2, <3>1, <3>2
  <2>3. CASE ReadRunning(e) /\ pc'[e] = "checked"
    <3>1. InTransaction(e) /\ TypeOK
      BY <2>3 DEF ReadRunning, InTransaction, Inv
    <3>2. ~KeyUsed(call[e])'
      BY <2>1, <3>1 DEF Inv, Held, KeyUsed
    <3>3. call'[e].op \in VersionOps => versions'[call'[e].v].status \in Fits(call'[e].op)
      BY <2>1, <3>1 DEF Inv, Held
    <3>4. seen'[e].running = RunningIn(versions[call[e].v].org)
      <4>1. seen' = [seen EXCEPT ![e] = [seen[e] EXCEPT !.running = RunningIn(versions[call[e].v].org)]]
        BY <2>3 DEF ReadRunning
      <4>2. ASSUME NEW old \in SeenType, NEW S
            PROVE  [old EXCEPT !.running = S].running = S
        BY DEF SeenType
      <4>3. QED
        BY <3>1, <4>1, <4>2 DEF TypeOK
    <3>5. (seen[e].running = RunningIn(versions[call[e].v].org))'
      BY <2>1, <3>4 DEF RunningIn, Ids
    <3>6. Ready(call[e].v, NeedsCurrent(e))'
      BY <2>1, <2>3 DEF ReadRunning, Ready, ProviderReady, NeedsCurrent
    <3>7. QED
      BY <3>2, <3>3, <3>5, <3>6
  <2>4. QED
    BY <1>2, <2>2, <2>3, ActorInTransaction
<1>3. \A f \in Admins : pc'[f] = "checked" => InTransaction(f)'
  BY DEF InTransaction
<1>4. QED
  BY <1>1, <1>2, <1>3 DEF Held

\* What Exclusion says of two threads.
Apart(e, f) ==
  /\ call[e].op = call[f].op => call[e].key # call[f].key
  /\ call[e].op \in VersionOps /\ call[f].op \in VersionOps => call[e].v # call[f].v
  /\ call[e].op \in OrgOps /\ call[f].op \in OrgOps =>
       versions[call[e].v].org # versions[call[f].v].org
  /\ \A p \in Providers : HoldsProvider(e, p) => ~SharesProvider(f, p)

LEMMA ExclusionStep ==
  ASSUME Inv, NEW e \in Admins, Acts(e)
  PROVE  Exclusion'
<1>1. OrgOps \subseteq VersionOps
  BY DEF OrgOps, VersionOps
<1>2. ASSUME NEW f \in Admins \ {e}, NEW g \in Admins \ {e}, f # g,
             InTransaction(f)', InTransaction(g)'
      PROVE  Apart(f, g)'
  <2>1. InTransaction(f) /\ InTransaction(g)
    BY <1>2, OthersStay DEF Inv, InTransaction
  <2>2. Apart(f, g)
    BY <1>2, <2>1 DEF Inv, Exclusion, Apart
  <2>3. /\ pc'[f] = pc[f] /\ call'[f] = call[f] /\ pc'[g] = pc[g] /\ call'[g] = call[g]
        /\ call[f].op \in OrgOps => versions'[call[f].v] = versions[call[f].v]
        /\ call[g].op \in OrgOps => versions'[call[g].v] = versions[call[g].v]
    BY <1>1, <2>1, Bystander
  <2>4. QED
    BY <2>2, <2>3 DEF Apart, HoldsProvider, SharesProvider, InTransaction
<1>3. ASSUME NEW f \in Admins \ {e}, InTransaction(e)', InTransaction(f)'
      PROVE  Apart(e, f)' /\ Apart(f, e)'
  <2>1. UNCHANGED << providers, versions, evaluations, audit, call >> /\ pc'[f] = pc[f]
    BY <1>3, ActorInTransaction, OthersStay DEF Inv
  <2>2. InTransaction(f)
    BY <1>3, <2>1 DEF InTransaction
  <2>3. CASE Lock(e) /\ pc'[e] = "locked"
    <3>1. KeyFree(e) /\ TargetFree(e)
      BY <2>3 DEF Lock
    <3>2. call[e].op = call[f].op => call[e].key # call[f].key
      BY <2>2, <3>1 DEF KeyFree, HoldsKey
    <3>3. call[e].op \in VersionOps /\ call[f].op \in VersionOps => call[e].v # call[f].v
      BY <2>2, <3>1 DEF TargetFree, VersionFree, HoldsVersion
    <3>4. call[e].op \in OrgOps /\ call[f].op \in OrgOps =>
            versions[call[e].v].org # versions[call[f].v].org
      BY <2>2, <3>1 DEF TargetFree, OrgFree, HoldsOrg
    <3>5. \A p \in Providers : HoldsProvider(e, p)' => ~SharesProvider(f, p)'
      <4>1. ASSUME NEW p \in Providers, HoldsProvider(e, p)' PROVE ~SharesProvider(f, p)
        <5>1. call[e].op \in {"test_connection", "update_provider"} /\ call[e].p = p
          BY <2>1, <4>1 DEF HoldsProvider
        <5>2. QED
          BY <3>1, <5>1 DEF TargetFree, ProviderFree
      <4>2. QED
        BY <2>1, <4>1 DEF SharesProvider
    <3>6. \A p \in Providers : ~SharesProvider(e, p)'
      BY <2>3 DEF SharesProvider
    <3>7. QED
      BY <2>1, <3>2, <3>3, <3>4, <3>5, <3>6 DEF Apart
  <2>4. CASE ReadRunning(e) /\ pc'[e] = "checked"
    <3>1. InTransaction(e) /\ call[e].op \in OrgOps /\ NoneUpdates(e, Wants(e))
      BY <2>4 DEF ReadRunning, InTransaction
    <3>2. Apart(e, f) /\ Apart(f, e)
      BY <2>2, <3>1 DEF Inv, Exclusion, Apart
    <3>3. \A p \in Providers : ~HoldsProvider(e, p)'
      BY <2>1, <3>1 DEF HoldsProvider, OrgOps
    <3>4. ASSUME NEW p \in Providers, HoldsProvider(f, p)' PROVE ~SharesProvider(e, p)'
      <4>1. HoldsProvider(f, p)
        BY <2>1, <2>2, <3>4 DEF HoldsProvider
      <4>2. p \notin versions[call[e].v].uses
        BY <3>1, <4>1 DEF NoneUpdates, Wants, OrgOps
      <4>3. QED
        BY <2>1, <4>2 DEF SharesProvider
    <3>5. QED
      BY <2>1, <3>2, <3>3, <3>4 DEF Apart
  <2>5. QED
    BY <1>3, <2>3, <2>4, ActorInTransaction
<1>4. QED
  BY <1>2, <1>3 DEF Exclusion, Apart

LEMMA OneRunningStep ==
  ASSUME Inv, NEW e \in Admins, Acts(e)
  PROVE  OneRunning'
<1>1. VersionsStep(e)
  BY VersionsStepHolds
<1>2. ASSUME NEW u \in Ids, versions'[u].status = "running",
             ~ (Publish(e) /\ u = call[e].v)
      PROVE  versions[u].status = "running" /\ versions'[u].org = versions[u].org
  BY <1>1, <1>2 DEF VersionsStep, RowStep
<1>3. ASSUME NEW u \in DOMAIN versions' \ Ids, versions'[u].status = "running"
      PROVE  Rollback(e) /\ u = Len(versions) + 1 /\ versions'[u].org = versions[call[e].v].org
  BY <1>1, <1>3 DEF VersionsStep, NewRow, Draft, Restored
<1>4. CASE Publish(e)
  <2>1. /\ DOMAIN versions' = Ids
        /\ \A u \in RunningIn(versions[call[e].v].org) : versions'[u].status # "running"
    BY <1>4, PublishStep
  <2>2. call[e].v \in Ids /\ versions'[call[e].v].org = versions[call[e].v].org
    <3>1. call[e].v \in Ids
      BY <1>4, Committing DEF Publish, VersionOps
    <3>2. QED
      BY <1>1, <3>1 DEF VersionsStep, RowStep
  <2>3. ASSUME NEW u \in Ids, versions'[u].status = "running", u # call[e].v
        PROVE  versions'[u].org # versions[call[e].v].org /\ versions[u].status = "running"
                 /\ versions'[u].org = versions[u].org
    BY <1>2, <2>1, <2>3 DEF RunningIn
  <2>4. QED
    BY <2>1, <2>2, <2>3 DEF Inv, OneRunning, Ids
<1>5. CASE Rollback(e)
  <2>1. \A u \in RunningIn(versions[call[e].v].org) : versions'[u].status # "running"
    BY <1>5, RollbackStep
  <2>2. ~Publish(e)
    BY <1>5 DEF Publish, Rollback, Commits
  <2>3. ASSUME NEW u \in Ids, versions'[u].status = "running"
        PROVE  versions'[u].org # versions[call[e].v].org /\ versions[u].status = "running"
                 /\ versions'[u].org = versions[u].org
    BY <1>2, <2>1, <2>2, <2>3 DEF RunningIn
  <2>4. QED
    BY <1>3, <2>3 DEF Inv, OneRunning, Ids
<1>6. CASE ~Publish(e) /\ ~Rollback(e)
  BY <1>2, <1>3, <1>6 DEF Inv, OneRunning, Ids
<1>7. QED
  BY <1>4, <1>5, <1>6

LEMMA OneEffectStep ==
  ASSUME Inv, NEW e \in Admins, Acts(e)
  PROVE  OneEffectPerKey'
<1>1. CASE audit' = audit
  BY <1>1 DEF Inv, OneEffectPerKey
<1>2. CASE InTransaction(e) /\ \E n \in Nat : audit' = audit \cup {[call |-> call[e], object |-> n]}
  <2>1. PICK n \in Nat : audit' = audit \cup {[call |-> call[e], object |-> n]}
    BY <1>2
  <2>2. \A a \in audit : ~(a.call.op = call[e].op /\ a.call.key = call[e].key)
    BY <1>2 DEF Inv, Held, KeyUsed
  <2>3. QED
    BY <2>1, <2>2 DEF Inv, OneEffectPerKey
<1>3. QED
  BY <1>1, <1>2, AuditStep DEF Inv

LEMMA RestoredStep ==
  ASSUME Inv, NEW e \in Admins, Acts(e)
  PROVE  RestoredIsUntested'
<1>1. VersionsStep(e) /\ TypeOK
  BY VersionsStepHolds DEF Inv
<1>2. ASSUME NEW v \in Ids, versions'[v].source # 0
      PROVE  versions'[v].status \in Released /\ \A p \in Providers : ~versions'[v].tested[p].passed
  <2>1. RowStep(e, v)
    BY <1>1 DEF VersionsStep
  <2>2. versions[v].source # 0
    BY <1>2, <2>1 DEF RowStep
  <2>3. versions[v].status \in Released /\ \A p \in Providers : ~versions[v].tested[p].passed
    BY <2>2 DEF Inv, RestoredIsUntested
  <2>4. QED
    BY <2>1, <2>3 DEF RowStep, Released
<1>3. ASSUME NEW v \in DOMAIN versions' \ Ids, versions'[v].source # 0
      PROVE  versions'[v].status \in Released /\ \A p \in Providers : ~versions'[v].tested[p].passed
  <2>1. Rollback(e) /\ versions'[v] = Restored(call[e].v)
    BY <1>1, <1>3 DEF VersionsStep, NewRow, Draft
  <2>2. call[e].v \in Ids
    BY <2>1, RollbackStep
  <2>3. QED
    BY <1>1, <2>1, <2>2, RestoredRow DEF Released
<1>4. QED
  BY <1>2, <1>3 DEF RestoredIsUntested, Ids

LEMMA EvaluatedStep ==
  ASSUME Inv, NEW e \in Admins, Acts(e)
  PROVE  EvaluatedIsNoDraft' /\ ServedWasEvaluated'
<1>1. VersionsStep(e) /\ TypeOK /\ evaluations' = evaluations /\ evaluations \subseteq Ids
  BY VersionsStepHolds, AuditStep DEF Inv, TypeOK
<1>2. ASSUME NEW v \in Ids, versions[v].status # "draft"
      PROVE  /\ versions'[v].status # "draft"
             /\ versions'[v].uses = versions[v].uses /\ versions'[v].org = versions[v].org
  BY <1>1, <1>2 DEF VersionsStep, RowStep
<1>3. EvaluatedIsNoDraft'
  BY <1>1, <1>2 DEF Inv, EvaluatedIsNoDraft
<1> DEFINE Evaluated(v, r) ==
      /\ r.evaluation \in evaluations'
      /\ r.evaluation = (IF r.source = 0 THEN v ELSE r.source)
      /\ versions'[r.evaluation].uses = r.uses
      /\ versions'[r.evaluation].org = r.org
<1>4. ASSUME NEW v \in Ids, versions[v].status \notin {"draft", "validated"}
      PROVE  Evaluated(v, versions[v])
  <2>1. /\ versions[v].evaluation \in evaluations
        /\ versions[v].evaluation = (IF versions[v].source = 0 THEN v ELSE versions[v].source)
        /\ versions[versions[v].evaluation].uses = versions[v].uses
        /\ versions[versions[v].evaluation].org = versions[v].org
    BY <1>4 DEF Inv, ServedWasEvaluated
  <2>2. versions[versions[v].evaluation].status # "draft" /\ versions[v].evaluation \in Ids
    BY <1>1, <2>1 DEF Inv, EvaluatedIsNoDraft
  <2>3. QED
    BY <1>1, <1>2, <2>1, <2>2
<1>5. ASSUME NEW v \in Ids, versions'[v].status \notin {"draft", "validated"}
      PROVE  Evaluated(v, versions'[v])
  <2>1. RowStep(e, v)
    BY <1>1 DEF VersionsStep
  <2>2. CASE versions[v].status \notin {"draft", "validated"}
    <3>1. /\ versions'[v].evaluation = versions[v].evaluation /\ versions'[v].uses = versions[v].uses
          /\ versions'[v].org = versions[v].org /\ versions'[v].source = versions[v].source
      BY <2>1, <2>2 DEF RowStep
    <3>2. QED
      BY <1>4, <2>2, <3>1
  <2>3. CASE versions[v].status = "validated"
    <3>1. /\ versions'[v].evaluation = v /\ v \in evaluations
          /\ versions'[v].source = versions[v].source
      BY <1>5, <2>1, <2>3 DEF RowStep
    <3>2. versions[v].source = 0
      BY <2>3 DEF Inv, RestoredIsUntested, Released
    <3>3. QED
      BY <1>1, <3>1, <3>2
  <2>4. CASE versions[v].status = "draft"
    BY <1>5, <2>1, <2>4 DEF RowStep
  <2>5. QED
    BY <2>2, <2>3, <2>4
<1>6. ASSUME NEW v \in DOMAIN versions' \ Ids, versions'[v].status \notin {"draft", "validated"}
      PROVE  Evaluated(v, versions'[v])
  <2> DEFINE s == call[e].v
  <2>1. Rollback(e) /\ versions'[v] = Restored(s)
    BY <1>1, <1>6 DEF VersionsStep, NewRow, Draft
  <2>2. s \in Ids /\ versions[s].status \in Released /\ s \in Nat \ {0} /\ versions[s] \in VersionRow
    BY <1>1, <2>1, RollbackStep, VersionTypes
  <2>3. versions[s].source = 0
    <3>1. Commits(e, "rollback")
      BY <2>1 DEF Rollback
    <3>2. Ready(s, NeedsCurrent(e))
      BY <3>1 DEF Inv, Held, Commits, OrgOps
    <3>3. PICK p \in versions[s].uses : versions[s].tested[p].passed
      BY <3>2 DEF Ready, ProviderReady
    <3>4. p \in Providers
      BY <2>2 DEF VersionRow
    <3>5. QED
      BY <2>2, <3>3, <3>4 DEF Inv, RestoredIsUntested
  <2>4. Evaluated(s, versions[s])
    BY <1>4, <2>2 DEF Released
  <2>5. /\ versions'[v].org = versions[s].org /\ versions'[v].source = s
        /\ versions'[v].uses = versions[s].uses /\ versions'[v].evaluation = versions[s].evaluation
    BY <1>1, <2>1, <2>2, RestoredRow
  <2>6. QED
    BY <2>2, <2>3, <2>4, <2>5
<1>7. ServedWasEvaluated'
  BY <1>5, <1>6 DEF ServedWasEvaluated, Ids
<1>8. QED
  BY <1>3, <1>7

LEMMA EvaluationStep ==
  ASSUME Inv, NEW v \in Ids, EvaluationPasses(v)
  PROVE  Inv'
<1>1. /\ UNCHANGED << providers, versions, audit, pc, call, seen >>
      /\ versions[v].status = "validated" /\ evaluations' = evaluations \cup {v}
  BY DEF EvaluationPasses
<1>2. TypeOK'
  BY <1>1 DEF Inv, TypeOK, Ids
<1>3. Phases'
  BY <1>1 DEF Inv, Phases, CallOK, Ids
<1>4. Exclusion'
  BY <1>1 DEF Inv, Exclusion, InTransaction, HoldsProvider, SharesProvider
<1>5. Held'
  BY <1>1 DEF Inv, Held, InTransaction, KeyUsed, RunningIn, Ready, ProviderReady, NeedsCurrent, Ids
<1>6. OneRunning' /\ OneEffectPerKey' /\ RestoredIsUntested'
  BY <1>1 DEF Inv, OneRunning, OneEffectPerKey, RestoredIsUntested, Ids
<1>7. EvaluatedIsNoDraft' /\ ServedWasEvaluated'
  BY <1>1 DEF Inv, EvaluatedIsNoDraft, ServedWasEvaluated, Ids
<1>8. QED
  BY <1>2, <1>3, <1>4, <1>5, <1>6, <1>7 DEF Inv

LEMMA StutterInv ==
  ASSUME Inv, UNCHANGED vars
  PROVE  Inv'
BY DEF vars, Inv, TypeOK, Phases, CallOK, Exclusion, InTransaction, HoldsProvider, SharesProvider,
       Held, KeyUsed, RunningIn, Ready, ProviderReady, NeedsCurrent, OneRunning, OneEffectPerKey,
       RestoredIsUntested, EvaluatedIsNoDraft, ServedWasEvaluated, Ids

LEMMA InitInv == Init => Inv
<1> SUFFICES ASSUME Init PROVE Inv
  OBVIOUS
<1>1. Ids = {} /\ versions = << >>
  BY DEF Init, Ids
<1>2. TypeOK
  BY <1>1 DEF Init, TypeOK, NoCall, CallType, NothingSeen, SeenType, Missing, ProviderRow
<1>3. Phases /\ Exclusion /\ Held
  BY DEF Init, Phases, Exclusion, Held, InTransaction, NoCall
<1>4. OneRunning /\ OneEffectPerKey /\ RestoredIsUntested /\ EvaluatedIsNoDraft /\ ServedWasEvaluated
  BY <1>1 DEF Init, OneRunning, OneEffectPerKey, RestoredIsUntested, EvaluatedIsNoDraft, ServedWasEvaluated
<1>5. QED
  BY <1>2, <1>3, <1>4 DEF Inv

LEMMA NextInv == Inv /\ [Next]_vars => Inv'
<1> SUFFICES ASSUME Inv, [Next]_vars PROVE Inv'
  OBVIOUS
<1>1. CASE \E e \in Admins : Acts(e)
  <2>1. PICK e \in Admins : Acts(e)
    BY <1>1
  <2>2. QED
    BY <2>1, TypeStep, PhasesStep, ExclusionStep, HeldStep, OneRunningStep, OneEffectStep,
       RestoredStep, EvaluatedStep DEF Inv
<1>2. CASE \E v \in Ids : EvaluationPasses(v)
  BY <1>2, EvaluationStep
<1>3. CASE UNCHANGED vars
  BY <1>3, StutterInv
<1>4. QED
  BY <1>1, <1>2, <1>3 DEF Next, Acts

-----------------------------------------------------------------------------
(***************************************************************************)
(* Connection tests: a test counts for the revision it gives the provider, *)
(* and revisions only grow, so that a test once out of date stays so.      *)
(***************************************************************************)
\* No two transactions hold the row of a provider.
OneHolder ==
  \A e, f \in Admins, p \in Providers : e # f => ~(HoldsProvider(e, p) /\ HoldsProvider(f, p))

\* A provider under test stays configured, and as it was read while it is held.
TestsAreCurrent ==
  \A e \in Admins : call[e].op = "test_connection" =>
    /\ pc[e] \in {"begun", "locked"} => providers[call[e].p] # Missing
    /\ InTransaction(e) => providers[call[e].p].revision = seen[e].revision

\* No test is of a revision that the provider is yet to have.
TestsArePast ==
  \A v \in Ids : \A p \in Providers : versions[v].tested[p].revision <= providers[p].revision

TestsInv == OneHolder /\ TestsAreCurrent /\ TestsArePast

LEMMA ProvidersGrow ==
  ASSUME Inv, NEW e \in Admins, Acts(e), NEW p \in Providers
  PROVE  /\ providers'[p].revision >= providers[p].revision
         /\ providers[p] # Missing => providers'[p] # Missing
         /\ providers[p] # Missing /\ ~HoldsProvider(e, p) => providers'[p] = providers[p]
         /\ TestConnection(e) /\ p = call[e].p => providers'[p].revision = providers[p].revision + 1
<1>1. providers \in [Providers -> ProviderRow] /\ providers[p].revision \in Nat
  BY DEF Inv, TypeOK, ProviderRow
<1>2. ASSUME NEW row \in ProviderRow
      PROVE  /\ Updated(row, call[e].change).revision = row.revision + 1
             /\ Probed(row, seen[e].passed).revision = row.revision + 1
  BY DEF ProviderRow, Updated, Provider, Probed
<1>3. ASSUME NEW row \in ProviderRow, NEW new, new.revision = row.revision + 1
      PROVE  new # Missing
  BY <1>3 DEF Missing, ProviderRow
<1>4. providers[p] # Missing /\ ~HoldsProvider(e, p) => providers'[p] = providers[p]
  BY ProvidersStep DEF Inv
<1>5. CASE CreateProvider(e)
  <2>1. providers[call[e].p] = Missing /\ ~TestConnection(e)
    BY <1>5 DEF CreateProvider, TestConnection, Commits
  <2>2. Provider(call[e].change, 1).revision = 1 /\ Missing.revision = 0
    BY DEF Provider, Missing
  <2>3. QED
    BY <1>1, <1>4, <1>5, <2>1, <2>2 DEF CreateProvider
<1>6. CASE UpdateProvider(e)
  <2>1. providers' = [providers EXCEPT ![call[e].p] = Updated(@, call[e].change)] /\ ~TestConnection(e)
    BY <1>6 DEF UpdateProvider, TestConnection, Commits
  <2>2. QED
    BY <1>1, <1>2, <1>3, <1>4, <2>1
<1>7. CASE TestConnection(e)
  <2>1. providers' = [providers EXCEPT ![call[e].p] = Probed(@, seen[e].passed)]
    BY <1>7 DEF TestConnection
  <2>2. QED
    BY <1>1, <1>2, <1>3, <1>4, <2>1
<1>8. CASE providers' = providers /\ ~TestConnection(e)
  BY <1>1, <1>8
<1>9. QED
  BY <1>5, <1>6, <1>7, <1>8, StepCases DEF Begin, AskTester, AskGate, Lock, ReadRunning,
     Refuse, CreateDraft, ReplaceRoutes, Validate, SubmitPublish, Save, Publish, Rollback

LEMMA OneHolderStep ==
  ASSUME Inv, OneHolder, NEW e \in Admins, Acts(e)
  PROVE  OneHolder'
<1>1. ASSUME NEW f \in Admins \ {e}, NEW p
      PROVE  HoldsProvider(f, p)' <=> HoldsProvider(f, p)
  BY OthersStay DEF Inv, HoldsProvider, InTransaction
<1>2. ASSUME NEW f \in Admins \ {e}, NEW p \in Providers, HoldsProvider(e, p)', HoldsProvider(f, p)
      PROVE  FALSE
  <2>1. InTransaction(e)'
    BY <1>2 DEF HoldsProvider
  <2>2. (Lock(e) \/ ReadRunning(e)) /\ call' = call
    BY <2>1, ActorInTransaction
  <2>3. call[e].op \in {"test_connection", "update_provider"} /\ call[e].p = p
    BY <1>2, <2>2 DEF HoldsProvider
  <2>4. Lock(e)
    BY <2>2, <2>3 DEF ReadRunning, OrgOps
  <2>5. QED
    BY <1>2, <2>3, <2>4 DEF Lock, TargetFree, ProviderFree
<1>3. QED
  BY <1>1, <1>2 DEF OneHolder

LEMMA TestsAreCurrentStep ==
  ASSUME Inv, OneHolder, TestsAreCurrent, NEW e \in Admins, Acts(e)
  PROVE  TestsAreCurrent'
<1> DEFINE Current(f) == call[f].op = "test_connection" =>
             /\ pc[f] \in {"begun", "locked"} => providers[call[f].p] # Missing
             /\ InTransaction(f) => providers[call[f].p].revision = seen[f].revision
<1>1. ASSUME NEW f \in Admins \ {e}, call[f].op = "test_connection",
             pc[f] \in {"begun", "locked"} \/ InTransaction(f)
      PROVE  Current(f)'
  <2>1. pc'[f] = pc[f] /\ call'[f] = call[f] /\ seen'[f] = seen[f]
    BY OthersStay DEF Inv
  <2>2. pc[f] \in {"begun", "locked"}
    BY <1>1 DEF Inv, Phases, OrgOps, InTransaction
  <2>3. call[f].p \in Providers /\ providers[call[f].p] # Missing
    BY <1>1, <2>2 DEF Inv, Phases, CallOK, TestsAreCurrent
  <2>4. providers'[call[f].p] # Missing
    BY <2>3, ProvidersGrow
  <2>5. ASSUME InTransaction(f) PROVE providers'[call[f].p].revision = seen[f].revision
    <3>1. HoldsProvider(f, call[f].p)
      BY <1>1, <2>5 DEF HoldsProvider
    <3>2. ~HoldsProvider(e, call[f].p)
      BY <2>3, <3>1 DEF OneHolder
    <3>3. QED
      BY <1>1, <2>3, <2>5, <3>2, ProvidersGrow DEF TestsAreCurrent
  <2>6. QED
    BY <2>1, <2>4, <2>5 DEF InTransaction
<1>2. ASSUME call'[e].op = "test_connection", pc'[e] \in {"begun", "locked"} \/ InTransaction(e)'
      PROVE  Current(e)'
  <2>1. CASE AskTester(e)
    BY <1>2, <2>1 DEF AskTester, InTransaction, Inv, TypeOK
  <2>2. CASE Lock(e)
    <3>1. /\ UNCHANGED << providers, call, seen >> /\ pc[e] = "begun"
          /\ TargetAsSeen(e)
      BY <2>2 DEF Lock
    <3>2. QED
      BY <1>2, <3>1 DEF TargetAsSeen, TestsAreCurrent
  <2>3. QED
    <3>1. ~Begin(e)
      BY <1>2 DEF Begin, AskingOps, Inv, TypeOK, InTransaction
    <3>2. ~ReadRunning(e) /\ ~AskGate(e)
      BY <1>2 DEF ReadRunning, AskGate, OrgOps
    <3>3. ~(pc'[e] = "idle" /\ call'[e] = NoCall)
      BY <1>2 DEF NoCall
    <3>4. QED
      BY <2>1, <2>2, <3>1, <3>2, <3>3, ThreadStep DEF Inv
<1>3. \A f \in Admins : Current(f)'
  <2>1. ASSUME NEW f \in Admins \ {e} PROVE Current(f)'
    <3>1. pc'[f] = pc[f] /\ call'[f] = call[f]
      BY OthersStay DEF Inv
    <3>2. QED
      BY <1>1, <3>1 DEF InTransaction
  <2>2. Current(e)'
    BY <1>2
  <2>3. QED
    BY <2>1, <2>2
<1>4. QED
  BY <1>3 DEF TestsAreCurrent

LEMMA TestsArePastStep ==
  ASSUME Inv, TestsInv, NEW e \in Admins, Acts(e)
  PROVE  TestsArePast'
<1>1. /\ VersionsStep(e) /\ providers' \in [Providers -> ProviderRow]
      /\ providers \in [Providers -> ProviderRow] /\ TypeOK
  BY VersionsStepHolds, ProvidersStep DEF Inv, TypeOK
<1>2. \A p \in Providers : providers[p].revision \in Nat /\ providers'[p].revision \in Nat
  BY <1>1 DEF ProviderRow
<1>3. ASSUME NEW v \in Ids, NEW p \in Providers
      PROVE  versions'[v].tested[p].revision <= providers'[p].revision
  <2>1. /\ versions[v].tested \in [Providers -> [passed : BOOLEAN, revision : Nat]]
        /\ versions[v].tested[p].revision <= providers[p].revision
    BY <1>1, VersionTypes DEF VersionRow, TestsInv, TestsArePast
  <2>2. versions[v].tested[p].revision \in Nat /\ providers'[p].revision >= providers[p].revision
    BY <2>1, ProvidersGrow
  <2>3. CASE versions'[v].tested = versions[v].tested
    BY <1>2, <2>1, <2>2, <2>3
  <2>4. CASE TestConnection(e) /\ v = call[e].v
    <3>1. versions'[v] = Tested(versions[v], call[e].p, seen[e].passed, seen[e].revision + 1)
      BY <1>1, <2>4 DEF TestConnection, TypeOK, Ids
    <3>2. versions'[v].tested =
            [versions[v].tested EXCEPT ![call[e].p] =
               [passed |-> seen[e].passed, revision |-> seen[e].revision + 1]]
      BY <1>1, <3>1, VersionTypes DEF Tested, WithTests, VersionRow
    <3>3. CASE p # call[e].p
      BY <1>2, <2>1, <2>2, <3>2, <3>3
    <3>4. CASE p = call[e].p
      <4>1. providers[p].revision = seen[e].revision
        BY <2>4, <3>4 DEF TestsInv, TestsAreCurrent, TestConnection, Commits, InTransaction, OrgOps
      <4>2. providers'[p].revision = providers[p].revision + 1
        BY <2>4, <3>4, ProvidersGrow
      <4>3. versions'[v].tested[p].revision = seen[e].revision + 1
        BY <2>1, <3>2, <3>4
      <4>4. QED
        BY <1>2, <4>1, <4>2, <4>3
    <3>5. QED
      BY <3>3, <3>4
  <2>5. QED
    BY <1>1, <2>3, <2>4 DEF VersionsStep, RowStep
<1>4. ASSUME NEW v \in DOMAIN versions' \ Ids, NEW p \in Providers
      PROVE  versions'[v].tested[p].revision <= providers'[p].revision
  <2>1. NewRow(e, v)
    BY <1>1 DEF VersionsStep
  <2>2. versions'[v].tested[p].revision = 0
    BY <2>1 DEF NewRow, Draft, Restored, Untested
  <2>3. QED
    BY <1>2, <2>2
<1>5. QED
  BY <1>3, <1>4 DEF TestsArePast, Ids

LEMMA TestsHold == Spec => [](Inv /\ TestsInv)
<1>1. Init => TestsInv
  BY DEF Init, TestsInv, OneHolder, TestsAreCurrent, TestsArePast, HoldsProvider, InTransaction,
         NoCall, Ids
<1>2. ASSUME Inv, TestsInv, [Next]_vars PROVE TestsInv'
  <2>1. ASSUME NEW e \in Admins, Acts(e) PROVE TestsInv'
    BY <1>2, <2>1, OneHolderStep, TestsAreCurrentStep, TestsArePastStep DEF TestsInv
  <2>2. ASSUME NEW v \in Ids, EvaluationPasses(v) PROVE TestsInv'
    BY <1>2, <2>2 DEF EvaluationPasses, TestsInv, OneHolder, TestsAreCurrent, TestsArePast,
           HoldsProvider, InTransaction, Ids
  <2>3. CASE UNCHANGED vars
    BY <1>2, <2>3 DEF vars, TestsInv, OneHolder, TestsAreCurrent, TestsArePast,
           HoldsProvider, InTransaction, Ids
  <2>4. QED
    BY <1>2, <2>1, <2>2, <2>3 DEF Next, Acts
<1>3. QED
  BY <1>1, <1>2, InitInv, NextInv, PTL DEF Spec

\* What an outdated version is for a step: left alone, and outdated still.
LEMMA OutdatedStep ==
  ASSUME Inv, TestsInv, NEW e \in Admins, Acts(e), NEW v \in Ids, Outdated(v)
  PROVE  v \in DOMAIN versions' /\ versions'[v] = versions[v] /\ Outdated(v)'
<1>1. VersionsStep(e) /\ RowStep(e, v) /\ v \in DOMAIN versions' /\ versions[v] \in VersionRow
  BY VersionsStepHolds, VersionTypes DEF Inv, VersionsStep
<1>2. PICK p \in versions[v].uses : versions[v].tested[p].revision # providers[p].revision
  BY DEF Outdated
<1>3. p \in Providers
  BY <1>1 DEF VersionRow
<1>4. ~Ready(v, TRUE)
  BY <1>2 DEF Ready, ProviderReady
<1>5. versions'[v] = versions[v]
  <2>1. ~(SubmitPublish(e) /\ v = call[e].v)
    BY <1>4 DEF SubmitPublish
  <2>2. ~(Publish(e) /\ v = call[e].v)
    <3>1. Publish(e) => Ready(call[e].v, TRUE)
      BY DEF Inv, Held, Publish, Commits, OrgOps, NeedsCurrent
    <3>2. QED
      BY <1>4, <3>1
  <2>3. versions[v].status \in {"validated", "pending_publish"}
    BY DEF Outdated
  <2>4. QED
    BY <1>1, <2>1, <2>2, <2>3 DEF RowStep
<1>6. versions[v].tested[p].revision # providers'[p].revision
  <2>1. providers'[p].revision >= providers[p].revision
    BY <1>3, ProvidersGrow
  <2>2. versions[v].tested[p].revision <= providers[p].revision
    BY <1>3 DEF TestsInv, TestsArePast
  <2>3. /\ versions[v].tested[p].revision \in Nat
        /\ providers[p].revision \in Nat /\ providers'[p].revision \in Nat
    BY <1>1, <1>3, ProvidersStep DEF Inv, TypeOK, VersionRow, ProviderRow
  <2>4. QED
    BY <1>2, <2>1, <2>2, <2>3
<1>7. QED
  BY <1>1, <1>2, <1>5, <1>6 DEF Outdated

-----------------------------------------------------------------------------
(***************************************************************************)
(* What the organizations are served: only publish and rollback change it, *)
(* each for one organization, from what runs there to one version.         *)
(***************************************************************************)
Approved == {Approval(v) : v \in evaluations}

Served(o) == {[version |-> v, uses |-> versions[v].uses] : v \in RunningIn(o)}

\* The rows of a version that is no draft: its organization and routes stay.
LEMMA FrozenRow ==
  ASSUME Inv, NEW e \in Admins, Acts(e), NEW v \in Ids, versions[v].status # "draft"
  PROVE  /\ v \in DOMAIN versions'
         /\ versions'[v].uses = versions[v].uses /\ versions'[v].org = versions[v].org
BY VersionsStepHolds DEF VersionsStep, RowStep

LEMMA ApprovedStays ==
  ASSUME Inv, NEW e \in Admins, Acts(e)
  PROVE  Approved' = Approved
<1>1. evaluations' = evaluations /\ evaluations \subseteq Ids
  BY AuditStep DEF Inv, TypeOK
<1>2. \A v \in evaluations : Approval(v)' = Approval(v)
  BY <1>1, FrozenRow DEF Inv, EvaluatedIsNoDraft, Approval
<1>3. QED
  BY <1>1, <1>2 DEF Approved

\* What runs after a step ran before it, unless the step publishes or restores it.
LEMMA StillRunning ==
  ASSUME Inv, NEW e \in Admins, Acts(e), NEW o,
         ~(Publish(e) \/ Rollback(e)) \/ o # versions[call[e].v].org
  PROVE  /\ RunningIn(o)' = RunningIn(o)
         /\ \A v \in RunningIn(o) : versions'[v].uses = versions[v].uses
<1>1. VersionsStep(e)
  BY VersionsStepHolds
<1>2. ASSUME NEW v \in RunningIn(o)
      PROVE  v \in RunningIn(o)' /\ versions'[v].uses = versions[v].uses
  <2>1. v \in Ids /\ versions[v].org = o /\ versions[v].status = "running"
    BY DEF RunningIn
  <2>2. RowStep(e, v) /\ v \in DOMAIN versions'
    BY <1>1, <2>1 DEF VersionsStep
  <2>3. versions'[v] = versions[v]
    BY <2>1, <2>2 DEF RowStep
  <2>4. QED
    BY <2>1, <2>2, <2>3 DEF RunningIn, Ids
<1>3. ASSUME NEW v \in RunningIn(o)'
      PROVE  v \in RunningIn(o)
  <2>1. v \in DOMAIN versions' /\ versions'[v].org = o /\ versions'[v].status = "running"
    BY DEF RunningIn, Ids
  <2>2. CASE v \in Ids
    <3>1. RowStep(e, v)
      BY <1>1, <2>2 DEF VersionsStep
    <3>2. ~(Publish(e) /\ v = call[e].v)
      BY <2>1, <3>1 DEF RowStep
    <3>3. versions[v].status = "running" /\ versions[v].org = o
      BY <2>1, <3>1, <3>2 DEF RowStep
    <3>4. QED
      BY <2>2, <3>3 DEF RunningIn
  <2>3. CASE v \notin Ids
    <3>1. Rollback(e) /\ versions'[v] = Restored(call[e].v)
      BY <1>1, <2>1, <2>3 DEF VersionsStep, NewRow, Draft
    <3>2. versions'[v].org = versions[call[e].v].org
      BY <3>1 DEF Restored
    <3>3. QED
      BY <2>1, <3>1, <3>2
  <2>4. QED
    BY <2>2, <2>3
<1>4. QED
  BY <1>2, <1>3

\* publish and rollback leave one version running, which did not run before.
LEMMA RunsInstead ==
  ASSUME Inv, NEW e \in Admins, Acts(e), Publish(e) \/ Rollback(e)
  PROVE  \E o \in Orgs, n \in DOMAIN versions' :
           o = versions[call[e].v].org /\ RunningIn(o)' = {n} /\ n \notin RunningIn(o)
<1> DEFINE Running(q, table) == {v \in DOMAIN table : table[v].org = q /\ table[v].status = "running"}
<1>1. VersionsStep(e) /\ OneRunning' /\ TypeOK
  BY VersionsStepHolds, OneRunningStep DEF Inv
<1>2. PICK o \in Orgs : call[e].v \in Ids /\ o = versions[call[e].v].org
  <2>1. call[e].v \in Ids
    BY DEF Inv, Phases, CallOK, Publish, Rollback, Commits, VersionOps
  <2>2. QED
    BY <1>1, <2>1, VersionTypes DEF VersionRow
<1>3. ASSUME NEW n \in DOMAIN versions', versions'[n].status = "running", versions'[n].org = o
      PROVE  RunningIn(o)' = {n}
  <2>1. n \in Running(o, versions')
    BY <1>3
  <2>2. ASSUME NEW u \in Running(o, versions') PROVE u = n
    BY <1>1, <1>3, <2>2 DEF OneRunning, Ids
  <2>3. Running(o, versions') = {n}
    BY <2>1, <2>2
  <2>4. QED
    BY <2>3 DEF RunningIn, Ids
<1>4. CASE Publish(e)
  <2> DEFINE v == call[e].v
  <2>1. versions[v].status = "pending_publish"
    BY <1>4, Committing DEF Publish, VersionOps, Fits
  <2>2. v \in DOMAIN versions' /\ versions'[v] = Published(versions[v])
    BY <1>1, <1>2, <1>4 DEF Publish, VersionsStep
  <2>3. versions'[v].status = "running" /\ versions'[v].org = o
    BY <1>1, <1>2, <2>2, VersionTypes, PublishedRow
  <2>4. v \notin RunningIn(o)
    BY <2>1 DEF RunningIn
  <2>5. QED
    BY <1>2, <1>3, <2>2, <2>3, <2>4
<1>5. CASE Rollback(e)
  <2> DEFINE n == Len(versions) + 1
  <2>1. n \in DOMAIN versions' \ Ids /\ versions'[n] = Restored(call[e].v)
    BY <1>5, RollbackStep
  <2>2. versions'[n].status = "running" /\ versions'[n].org = o
    BY <1>1, <1>2, <2>1, RestoredRow
  <2>3. n \notin RunningIn(o)
    BY <2>1 DEF RunningIn
  <2>4. QED
    BY <1>2, <1>3, <2>1, <2>2, <2>3
<1>6. QED
  BY <1>4, <1>5

\* What runs after a step is approved in its organization.
LEMMA ServedIsApproved ==
  ASSUME ServedWasEvaluated', NEW o \in Orgs, NEW v \in RunningIn(o)'
  PROVE  \E a \in Approved' : a.org = o /\ a.uses = versions'[v].uses
<1>1. v \in DOMAIN versions' /\ versions'[v].org = o /\ versions'[v].status = "running"
  BY DEF RunningIn, Ids
<1>2. /\ versions'[v].evaluation \in evaluations'
      /\ versions'[versions'[v].evaluation].uses = versions'[v].uses
      /\ versions'[versions'[v].evaluation].org = versions'[v].org
  BY <1>1 DEF ServedWasEvaluated, Ids
<1> DEFINE a == Approval(versions[v].evaluation)
<1>3. a' \in Approved' /\ a'.org = o /\ a'.uses = versions'[v].uses
  BY <1>1, <1>2 DEF Approved, Approval
<1>4. QED
  BY <1>3

LEMMA ServingInit == Init => Serving!Init
BY DEF Init, Serving!Init, RunningIn, Ids

LEMMA ServingActs ==
  ASSUME Inv, NEW e \in Admins, Acts(e)
  PROVE  Serving!Next \/ UNCHANGED Serving!vars
<1>1. Approved' = Approved
  BY ApprovedStays
<1>2. Inv'
  BY NextInv DEF Next, Acts
<1>3. CASE ~(Publish(e) \/ Rollback(e))
  <2>1. \A o \in Orgs : Served(o)' = Served(o)
    BY <1>3, StillRunning DEF Served
  <2>2. UNCHANGED Serving!vars
    BY <1>1, <2>1 DEF Serving!vars, Approved, Served
  <2>3. QED
    BY <2>2
<1>4. CASE Publish(e) \/ Rollback(e)
  <2>1. PICK o \in Orgs, n \in DOMAIN versions' :
          o = versions[call[e].v].org /\ RunningIn(o)' = {n} /\ n \notin RunningIn(o)
    BY <1>4, RunsInstead
  <2> DEFINE s == [version |-> n, uses |-> versions'[n].uses]
             now == [q \in Orgs |-> Served(q)]
  <2>2. now'[o] = {s}
    BY <2>1 DEF Served
  <2>3. \A q \in Orgs : q # o => now'[q] = now[q]
    BY <1>4, <2>1, StillRunning DEF Served
  <2>4. now' = [now EXCEPT ![o] = {s}]
    <3>1. now \in [Orgs -> {now[q] : q \in Orgs}] /\ now' \in [Orgs -> {now'[q] : q \in Orgs}]
      OBVIOUS
    <3> HIDE DEF now
    <3>2. QED
      BY <2>2, <2>3, <3>1
  <2>5. \A r \in now[o] : r.version # s.version
    BY <2>1 DEF Served
  <2>6. \E a \in Approved : a.org = o /\ a.uses = s.uses
    <3>1. \E a \in Approved' : a.org = o /\ a.uses = versions'[n].uses
      BY <1>2, <2>1, ServedIsApproved DEF Inv
    <3>2. QED
      BY <1>1, <3>1
  <2>7. Serving!Serve(o)
    BY <1>1, <2>2, <2>4, <2>5, <2>6 DEF Serving!Serve, Approved, Served
  <2>8. QED
    BY <2>7 DEF Serving!Next
<1>5. QED
  BY <1>3, <1>4

LEMMA ServingEvaluation ==
  ASSUME Inv, NEW v \in Ids, EvaluationPasses(v)
  PROVE  Serving!Next \/ UNCHANGED Serving!vars
<1>1. /\ UNCHANGED versions /\ evaluations' = evaluations \cup {v}
      /\ \A u : Approval(u)' = Approval(u)
  BY DEF EvaluationPasses, Approval
<1>2. Approved' = Approved \cup {Approval(v)}
  BY <1>1 DEF Approved
<1>3. UNCHANGED [o \in Orgs |-> Served(o)]
  BY <1>1 DEF Served, RunningIn, Ids
<1>4. CASE v \in evaluations
  <2>1. Approved' = Approved
    BY <1>2, <1>4 DEF Approved
  <2>2. QED
    BY <1>3, <2>1 DEF Serving!vars, Approved, Served
<1>5. CASE v \notin evaluations
  <2>1. \A b \in Approved : b.version # Approval(v).version
    BY <1>5 DEF Approved, Approval
  <2>2. PICK a : a = Approval(v)
    OBVIOUS
  <2>3. a \in Approved' /\ Approved' = Approved \cup {a} /\ \A b \in Approved : b.version # a.version
    BY <1>2, <2>1, <2>2
  <2>4. Serving!Approve
    BY <1>3, <2>3 DEF Serving!Approve, Approved, Served
  <2>5. QED
    BY <2>4 DEF Serving!Next
<1>6. QED
  BY <1>4, <1>5

-----------------------------------------------------------------------------
(***************************************************************************)
(* The theorems.                                                           *)
(***************************************************************************)
\* Everything the argument needs holds in every state.
LEMMA InvHolds == Spec => []Inv
BY InitInv, NextInv, PTL DEF Spec

\* Every variable keeps its type (the tables of PostgresLlmGovernanceRepository,
\* and what its transactions have read).
THEOREM TypeCorrect == Spec => []TypeOK
<1>1. Inv => TypeOK
  BY DEF Inv
<1>2. QED
  BY <1>1, InvHolds, PTL

(***************************************************************************)
(* What organizations are served is one evaluated configuration after      *)
(* another, and after the first never none: publish and rollback retire    *)
(* and start in one transaction, with the advisory lock of the             *)
(* organization held.                                                      *)
(***************************************************************************)
THEOREM GovernanceImplementsServing == Spec => ImplementsServing
<1>1. ASSUME Inv, [Next]_vars PROVE Serving!Next \/ UNCHANGED Serving!vars
  <2>1. CASE \E e \in Admins : Acts(e)
    BY <1>1, <2>1, ServingActs
  <2>2. ASSUME NEW v \in Ids, EvaluationPasses(v)
        PROVE  Serving!Next \/ UNCHANGED Serving!vars
    BY <1>1, <2>2, ServingEvaluation
  <2>3. CASE UNCHANGED vars
    BY <2>3 DEF vars, Serving!vars, Approval, RunningIn, Ids
  <2>4. QED
    BY <1>1, <2>1, <2>2, <2>3 DEF Next, Acts
<1>2. Inv /\ [Next]_vars => [Serving!Next]_(Serving!vars)
  BY <1>1
<1>3. QED
  BY <1>2, ServingInit, InvHolds, PTL DEF Spec, ImplementsServing, Serving!Spec

\* An organization never has two running versions (publish and rollback).
THEOREM OneVersionRuns == Spec => []OneRunning
<1>1. Inv => OneRunning
  BY DEF Inv
<1>2. QED
  BY <1>1, InvHolds, PTL

\* An idempotency key takes effect once (_find_idempotency and its lock).
THEOREM KeysTakeEffectOnce == Spec => []OneEffectPerKey
<1>1. Inv => OneEffectPerKey
  BY DEF Inv
<1>2. QED
  BY <1>1, InvHolds, PTL

(***************************************************************************)
(* What is submitted, served or restored was evaluated, through any number *)
(* of rollbacks: a restored version has no connection tests, so that       *)
(* rollback refuses to take it as a source (_ensure_version_ready_pg).     *)
(***************************************************************************)
THEOREM EverythingServedWasEvaluated == Spec => []ServedWasEvaluated
<1>1. Inv => ServedWasEvaluated
  BY DEF Inv
<1>2. QED
  BY <1>1, InvHolds, PTL

\* A version's life cycle is never left, and what was released is not changed
\* (the lifecycle trigger of migrations/012 never has to refuse).
THEOREM VersionsKeepTheirHistory == Spec => HistoryIsKept
<1> DEFINE KeptRow(v) ==
       LET old == versions[v]
           new == versions'[v]
       IN  /\ v \in DOMAIN versions'
           /\ new.org = old.org /\ new.source = old.source
           /\ WithTests(new, old.tested) # old =>
                new.status \in NextStatus(old.status) /\ new.revision = old.revision + 1
           /\ old.status # "draft" => new.uses = old.uses /\ new.tested = old.tested
    Kept == \A v \in Ids :
       KeptRow(v) /\ (Outdated(v) => versions'[v] = versions[v] /\ Outdated(v)')
<1>1. ASSUME TypeOK, NEW v \in Ids
      PROVE  WithTests(versions[v], versions[v].tested) = versions[v]
  <2>1. \A row \in VersionRow : WithTests(row, row.tested) = row
    BY DEF WithTests, VersionRow
  <2>2. QED
    BY <1>1, <2>1, VersionTypes
<1>2. ASSUME Inv, versions' = versions, providers' = providers PROVE Kept
  BY <1>1, <1>2 DEF Inv, Ids, Outdated
<1>3. ASSUME Inv, TestsInv, NEW e \in Admins, Acts(e) PROVE Kept
  <2>1. ASSUME NEW v \in Ids PROVE KeptRow(v)
    <3>1. RowStep(e, v) /\ v \in DOMAIN versions'
      BY <1>3, VersionsStepHolds DEF VersionsStep
    <3>2. CASE versions'[v] = versions[v]
      BY <1>1, <1>3, <3>1, <3>2 DEF Inv
    <3>3. CASE versions'[v] # versions[v]
      BY <3>1, <3>3 DEF RowStep, NextStatus
    <3>4. QED
      BY <3>2, <3>3
  <2>2. ASSUME NEW v \in Ids, Outdated(v) PROVE versions'[v] = versions[v] /\ Outdated(v)'
    BY <1>3, <2>2, OutdatedStep
  <2>3. QED
    BY <2>1, <2>2
<1>4. ASSUME Inv, TestsInv, [Next]_vars PROVE [Kept]_vars
  <2>1. CASE \E e \in Admins : Acts(e)
    BY <1>3, <1>4, <2>1
  <2>2. CASE \E v \in Ids : EvaluationPasses(v)
    BY <1>2, <1>4, <2>2 DEF EvaluationPasses
  <2>3. CASE UNCHANGED vars
    BY <2>3
  <2>4. QED
    BY <1>4, <2>1, <2>2, <2>3 DEF Next, Acts
<1>5. [Kept]_vars <=>
      [\A v \in Ids :
       LET old == versions[v]
           new == versions'[v]
       IN  /\ v \in DOMAIN versions'
           /\ new.org = old.org /\ new.source = old.source
           /\ WithTests(new, old.tested) # old =>
                new.status \in NextStatus(old.status) /\ new.revision = old.revision + 1
           /\ old.status # "draft" => new.uses = old.uses /\ new.tested = old.tested
           /\ Outdated(v) => new = old /\ Outdated(v)']_vars
  OBVIOUS
<1>6. QED
  BY <1>4, <1>5, TestsHold, PTL DEF Spec, HistoryIsKept

(***************************************************************************)
(* A version whose provider changes after its validation is never served:  *)
(* it stays outdated, so that neither a submission nor a publication finds *)
(* it ready, and no call makes it a draft again (_ensure_version_ready_pg  *)
(* compares the test's revision with the provider's).                      *)
(***************************************************************************)
THEOREM OutdatedForEver ==
  ASSUME NEW v \in Nat
  PROVE  Spec => [](v \in Ids /\ Outdated(v) => [](v \in Ids /\ Outdated(v)))
<1> DEFINE Dead == v \in Ids /\ Outdated(v)
<1>1. ASSUME Inv, TestsInv, [Next]_vars, Dead PROVE Dead'
  <2>1. ASSUME NEW e \in Admins, Acts(e) PROVE Dead'
    BY <1>1, <2>1, OutdatedStep DEF Ids
  <2>2. CASE versions' = versions /\ providers' = providers
    BY <1>1, <2>2 DEF Outdated, Ids
  <2>3. QED
    BY <1>1, <2>1, <2>2 DEF Next, Acts, EvaluationPasses, vars
<1> HIDE DEF Dead
<1>2. QED
  <2>1. Inv /\ TestsInv /\ [Next]_vars /\ Dead => Dead'
    BY <1>1
  <2>2. Spec => [](Dead => []Dead)
    BY <2>1, TestsHold, PTL DEF Spec
  <2>3. QED
    BY <2>2 DEF Dead

\* What starts to run has enabled, active and tested providers at that moment
\* (publish and rollback under their locks on the providers).
THEOREM ServedVersionsWereReady == Spec => ServedWasReady
<1> DEFINE ReadyNow(v) ==
      LET r == versions'[v]
          tested == IF r.source = 0 THEN r.tested ELSE versions'[r.source].tested
      IN  \A p \in r.uses :
            /\ providers'[p].enabled /\ providers'[p].status = "active"
            /\ tested[p].passed
            /\ r.source = 0 => tested[p].revision = providers'[p].revision
<1>1. ASSUME Inv, NEW e \in Admins, Acts(e), NEW v \in DOMAIN versions', StartsRunning(v)
      PROVE  ReadyNow(v)
  <2>1. VersionsStep(e) /\ TypeOK
    BY <1>1, VersionsStepHolds DEF Inv
  <2>2. CASE v \in Ids
    <3>1. RowStep(e, v) /\ versions[v].status # "running" /\ versions'[v].status = "running"
      BY <1>1, <2>1, <2>2 DEF VersionsStep, StartsRunning
    <3>2. /\ versions[v].status = "pending_publish" /\ Publish(e) /\ v = call[e].v
          /\ versions'[v].uses = versions[v].uses /\ versions'[v].tested = versions[v].tested
          /\ versions'[v].source = versions[v].source
      BY <3>1 DEF RowStep
    <3>3. pc[e] = "checked" /\ call[e].op = "publish" /\ providers' = providers
      BY <3>2 DEF Publish, Commits, OrgOps
    <3>4. Ready(v, TRUE)
      BY <1>1, <3>2, <3>3 DEF Inv, Held, NeedsCurrent
    <3>5. versions[v].source = 0
      BY <1>1, <2>2, <3>2 DEF Inv, RestoredIsUntested, Released
    <3>6. QED
      BY <3>2, <3>3, <3>4, <3>5 DEF Ready, ProviderReady
  <2>3. CASE v \notin Ids
    <3> DEFINE s == call[e].v
    <3>1. Rollback(e) /\ versions'[v] = Restored(s)
      BY <1>1, <2>1, <2>3 DEF VersionsStep, NewRow, StartsRunning, Draft
    <3>2. s \in Ids /\ s \in Nat \ {0} /\ versions[s].status \in Released /\ RowStep(e, s)
      BY <1>1, <2>1, <3>1, RollbackStep, VersionTypes DEF VersionsStep
    <3>3. versions'[s].tested = versions[s].tested
      BY <3>2 DEF RowStep, Released
    <3>4. pc[e] = "checked" /\ providers' = providers
      BY <3>1 DEF Rollback, Commits, OrgOps
    <3>5. Ready(s, NeedsCurrent(e))
      BY <1>1, <3>4 DEF Inv, Held
    <3>6. versions'[v].uses = versions[s].uses /\ versions'[v].source = s
      BY <2>1, <3>1, <3>2, RestoredRow
    <3>7. QED
      BY <3>2, <3>3, <3>4, <3>5, <3>6 DEF Ready, ProviderReady
  <2>4. QED
    BY <2>2, <2>3
<1>2. ASSUME versions' = versions, NEW v \in DOMAIN versions', StartsRunning(v)
      PROVE  FALSE
  BY <1>2 DEF StartsRunning, Ids
<1>3. ASSUME Inv, [Next]_vars
      PROVE  [\A v \in DOMAIN versions' : StartsRunning(v) => ReadyNow(v)]_vars
  <2>1. CASE \E e \in Admins : Acts(e)
    BY <1>1, <1>3, <2>1
  <2>2. CASE \E v \in Ids : EvaluationPasses(v)
    BY <1>2, <2>2 DEF EvaluationPasses
  <2>3. CASE UNCHANGED vars
    BY <2>3
  <2>4. QED
    BY <1>3, <2>1, <2>2, <2>3 DEF Next, Acts
<1>4. QED
  BY <1>3, InvHolds, PTL DEF Spec, ServedWasReady
=============================================================================
