------------------------ MODULE AdministrationProofs ------------------------
(***************************************************************************)
(* Theorems about SystemAdmin, TaskRetry, Catalog and Accounts, for any    *)
(* operators, keys, tasks, editors, products, tenants, subjects, replicas  *)
(* and tickets.  They share no state, so each has an invariant of its own. *)
(* The last part adds the types of the instance that TLC checks, in which  *)
(* LlmNodes and Deployment have a share too; their theorems are in modules *)
(* of their own.                                                           *)
(***************************************************************************)
EXTENDS MCAdministration, LlmNodesProofs, DeploymentProofs,
        FiniteSetTheorems, SequenceTheorems, TLAPS

USE OperatorsAssumption, FailuresAssumption, CatalogAssumption, AccountsAssumption

-----------------------------------------------------------------------------
(***************************************************************************)
(* SystemAdmin.  A call that creates an operator carries a role, and roles *)
(* are changed and never removed.                                          *)
(***************************************************************************)
SystemInv ==
  /\ SystemTypeOK
  /\ \A c \in OpThreads :
       ops[c].op = "create" /\ ops[c].row.object \in Operators => ops[c].role # "none"
  /\ OneCreationPerKey

LEMMA Creating ==
  ASSUME SystemTypeOK, NEW c \in OpThreads, ops[c].op = "create"
  PROVE  /\ ops[c].row \in [action : Actions, key : CreateKeys \cup {NoKey}, object : Objects]
         /\ ops[c].role \in OperatorRoles \cup {"none"}
BY DEF SystemTypeOK, NoOp

LEMMA SystemInitInv == SystemInit => SystemInv
BY DEF SystemInit, SystemInv, SystemTypeOK, OneCreationPerKey, NoOp

\* A step of one call that changes no table.
LEMMA CreateStep ==
  ASSUME SystemInv, NEW c \in OpThreads, NEW action \in Actions, NEW object \in Objects,
         NEW role \in OperatorRoles \cup {"none"}, NEW roles,
         object \in Operators => role # "none",
         Create(c, action, object, roles, role)
  PROVE  SystemInv'
<1>1. PICK key \in CreateKeys \cup {NoKey} :
        ops' = [ops EXCEPT ![c] =
          [op |-> "create", row |-> Row(action, key, object), role |-> role]]
  BY DEF Create
<1> DEFINE x == [op |-> "create", row |-> Row(action, key, object), role |-> role]
<1>2. /\ x.op = "create" /\ x.row = Row(action, key, object) /\ x.role = role
      /\ Row(action, key, object) \in
           [action : Actions, key : CreateKeys \cup {NoKey}, object : Objects]
      /\ Row(action, key, object).object = object
  BY DEF Row
<1>3. SystemTypeOK'
  BY <1>1, <1>2 DEF SystemInv, SystemTypeOK, Create
<1>4. \A d \in OpThreads :
        ops'[d].op = "create" /\ ops'[d].row.object \in Operators => ops'[d].role # "none"
  BY <1>1, <1>2 DEF SystemInv, SystemTypeOK
<1>5. QED
  BY <1>3, <1>4 DEF SystemInv, OneCreationPerKey, Create

LEMMA AuditStep ==
  ASSUME SystemInv, NEW c \in OpThreads, Audit(c)
  PROVE  SystemInv'
<1> DEFINE row == ops[c].row
<1>1. /\ ops[c].op = "create" /\ UNCHANGED signedIn
      /\ ops' = [ops EXCEPT ![c] = NoOp]
  BY DEF Audit
<1>2. /\ row \in [action : Actions, key : CreateKeys \cup {NoKey}, object : Objects]
      /\ ops[c].role \in OperatorRoles \cup {"none"}
      /\ row.object \in Operators => ops[c].role # "none"
  BY <1>1, Creating DEF SystemInv
<1>3. \A d \in OpThreads :
        ops'[d].op = "create" /\ ops'[d].row.object \in Operators => ops'[d].role # "none"
  BY <1>1 DEF SystemInv, SystemTypeOK, NoOp
<1>4. CASE UNCHANGED << creations, roleOf, created >>
  BY <1>1, <1>3, <1>4 DEF SystemInv, SystemTypeOK, OneCreationPerKey
<1>5. CASE /\ IndexAdmits(row)
           /\ creations' = IF row.key = NoKey THEN creations ELSE creations \cup {row}
           /\ roleOf' = [o \in Operators |-> IF o = row.object THEN ops[c].role ELSE roleOf[o]]
           /\ created' = created \cup ({row.object} \ Operators)
  <2>1. row.key # NoKey => row \in [action : Actions, key : CreateKeys, object : Objects]
    BY <1>2
  <2>2. creations' \subseteq [action : Actions, key : CreateKeys, object : Objects]
    BY <1>5, <2>1 DEF SystemInv, SystemTypeOK
  <2>3. created' \subseteq Organizations \cup Stores
    BY <1>2, <1>5 DEF SystemInv, SystemTypeOK, Objects
  <2>4. roleOf' \in [Operators -> OperatorRoles \cup {"none"}]
    BY <1>2, <1>5 DEF SystemInv, SystemTypeOK
  <2>5. SystemTypeOK'
    BY <1>1, <2>2, <2>3, <2>4 DEF SystemInv, SystemTypeOK
  <2>6. \A o \in Operators : roleOf[o] # "none" => roleOf'[o] # "none"
    BY <1>2, <1>5
  <2>7. row.object \in created' \/ (row.object \in Operators /\ roleOf'[row.object] # "none")
    BY <1>2, <1>5
  <2>8. \A a, b \in creations' : a.key = b.key /\ a.action = b.action => a = b
    BY <1>5 DEF SystemInv, OneCreationPerKey, IndexAdmits, Replayed
  <2>9. \A a \in creations' :
          a.object \in created' \/ (a.object \in Operators /\ roleOf'[a.object] # "none")
    BY <1>5, <2>6, <2>7 DEF SystemInv, OneCreationPerKey
  <2>10. QED
    BY <1>3, <2>5, <2>8, <2>9 DEF SystemInv, OneCreationPerKey
<1>6. QED
  BY <1>4, <1>5 DEF Audit

LEMMA SystemStepInv == SystemInv /\ [SystemNext]_systemVars => SystemInv'
<1> SUFFICES ASSUME SystemInv, [SystemNext]_systemVars PROVE SystemInv'
  OBVIOUS
<1>1. ASSUME NEW o \in Operators, SignIn(o) PROVE SystemInv'
  <2>1. /\ roleOf' \in [Operators -> OperatorRoles \cup {"none"}]
        /\ \A p \in Operators : roleOf[p] # "none" => roleOf'[p] # "none"
    BY <1>1 DEF SignIn, RootSeeded, OperatorRoles, SystemInv, SystemTypeOK
  <2>2. QED
    BY <1>1, <2>1 DEF SignIn, SystemInv, SystemTypeOK, OneCreationPerKey
<1>2. ASSUME NEW o \in Operators, SignOut(o) PROVE SystemInv'
  BY <1>2 DEF SignOut, SystemInv, SystemTypeOK, OneCreationPerKey
<1>3. ASSUME NEW c \in OpThreads, NEW o \in Operators, NEW role \in OperatorRoles,
             CreateUser(c, o, role)
      PROVE  SystemInv'
  <2>1. "user.create" \in Actions /\ o \in Objects /\ role # "none"
    BY DEF Actions, Objects, OperatorRoles
  <2>2. QED
    BY <1>3, <2>1, CreateStep DEF CreateUser
<1>4. ASSUME NEW c \in OpThreads, NEW g \in Organizations, CreateOrganization(c, g)
      PROVE  SystemInv'
  <2>1. "organization.create" \in Actions /\ g \in Objects \ Operators
    BY DEF Actions, Objects
  <2>2. QED
    BY <1>4, <2>1, CreateStep DEF CreateOrganization
<1>5. ASSUME NEW c \in OpThreads, NEW s \in Stores, CreateStore(c, s)
      PROVE  SystemInv'
  <2>1. "store.create" \in Actions /\ s \in Objects \ Operators
    BY DEF Actions, Objects
  <2>2. QED
    BY <1>5, <2>1, CreateStep DEF CreateStore
<1>6. ASSUME NEW c \in OpThreads, LoseCall(c) PROVE SystemInv'
  BY <1>6 DEF LoseCall, SystemInv, SystemTypeOK, OneCreationPerKey, NoOp
<1>7. CASE UNCHANGED systemVars
  BY <1>7 DEF systemVars, SystemInv, SystemTypeOK, OneCreationPerKey
<1>8. QED
  BY <1>1, <1>2, <1>3, <1>4, <1>5, <1>6, <1>7, AuditStep DEF SystemNext

LEMMA SystemInvHolds == SystemSpec => []SystemInv
BY SystemInitInv, SystemStepInv, PTL DEF SystemSpec

\* The operators' tables and calls stay in their types.
THEOREM SystemTypeCorrect == SystemSpec => []SystemTypeOK
BY SystemInvHolds, PTL DEF SystemInv

\* However many attempts with one key overlap, one object is created, and it is
\* there.
THEOREM KeysCreateOnce == SystemSpec => []OneCreationPerKey
BY SystemInvHolds, PTL DEF SystemInv
-----------------------------------------------------------------------------
(***************************************************************************)
(* TaskRetry.  The key of a call in flight is its own and not in the log,  *)
(* so that the row it adds is new; a task that a call has locked is a      *)
(* retryable failure, and locked by that call only.                        *)
(***************************************************************************)
InFlight(call) == call.op \in {"asked", "locked"}

KeysAreOwn ==
  \A c \in RetryThreads : InFlight(retries[c]) =>
    /\ \A row \in retryLog : row.key # retries[c].key
    /\ \A d \in RetryThreads \ {c} : InFlight(retries[d]) => retries[d].key # retries[c].key

LocksAreOwn ==
  \A c \in RetryThreads : retries[c].op = "locked" =>
    /\ tasks[retries[c].task].status = "failed"
    /\ \A d \in RetryThreads \ {c} :
         retries[d].op = "locked" => retries[d].task # retries[c].task

RetryInv ==
  /\ RetryTypeOK
  /\ IsFiniteSet(retryLog)
  /\ KeysAreOwn
  /\ LocksAreOwn
  /\ RequeuedOncePerFailure
  /\ RawTraceIsAudited

LEMMA FlightRow ==
  ASSUME RetryTypeOK, NEW c \in RetryThreads, InFlight(retries[c])
  PROVE  retries[c] \in [op : {"asked", "locked"}, task : Tasks, key : RetryKeys]
BY DEF RetryTypeOK, InFlight

LEMMA RetryInitInv == RetryInit => RetryInv
<1> SUFFICES ASSUME RetryInit PROVE RetryInv
  OBVIOUS
<1>1. RetryTypeOK /\ KeysAreOwn /\ LocksAreOwn /\ RawTraceIsAudited
  BY DEF RetryInit, RetryTypeOK, TaskRow, KeysAreOwn, LocksAreOwn, RawTraceIsAudited, InFlight, NoRetry
<1>2. IsFiniteSet(retryLog)
  BY FS_EmptySet DEF RetryInit
<1>3. \A k \in Tasks : {row \in retryLog : row.task = k} = {}
  BY DEF RetryInit
<1>4. RequeuedOncePerFailure
  BY <1>3, FS_EmptySet DEF RetryInit, RequeuedOncePerFailure
<1>5. QED
  BY <1>1, <1>2, <1>4 DEF RetryInv

\* A call ends, or becomes one without a key.
LEMMA PlainCall ==
  ASSUME RetryInv, NEW c \in RetryThreads, NEW op \in {"none", "refused", "reading", "shown"},
         retries' = [retries EXCEPT ![c] = [op |-> op]],
         UNCHANGED << tasks, retryLog >>,
         traceLog \subseteq traceLog', traceLog' \subseteq {"denied", "shown"},
         op = "shown" => "shown" \in traceLog',
         op = "refused" => "denied" \in traceLog'
  PROVE  RetryInv'
<1>1. \A d \in RetryThreads : retries'[d] = IF d = c THEN [op |-> op] ELSE retries[d]
  BY DEF RetryInv, RetryTypeOK
<1>2. RetryTypeOK'
  BY DEF RetryInv, RetryTypeOK
<1>3. KeysAreOwn' /\ LocksAreOwn'
  BY <1>1 DEF RetryInv, KeysAreOwn, LocksAreOwn, InFlight
<1>4. RawTraceIsAudited'
  BY <1>1 DEF RetryInv, RawTraceIsAudited
<1>5. QED
  BY <1>2, <1>3, <1>4 DEF RetryInv, RequeuedOncePerFailure

LEMMA LockKeyStep ==
  ASSUME RetryInv, NEW c \in RetryThreads, NEW k \in Tasks, NEW key \in RetryKeys,
         LockKey(c, k, key)
  PROVE  RetryInv'
<1> DEFINE call == [op |-> "asked", task |-> k, key |-> key]
<1>1. /\ call.op = "asked" /\ call.key = key
      /\ call \in [op : {"asked", "locked"}, task : Tasks, key : RetryKeys]
  OBVIOUS
<1>2. /\ retries' = [retries EXCEPT ![c] = call]
      /\ UNCHANGED << tasks, retryLog, traceLog >>
      /\ \A row \in retryLog : row.key # key
      /\ \A d \in RetryThreads : InFlight(retries[d]) => retries[d].key # key
  BY DEF LockKey, Proceeds, KeyFree, InFlight
<1> HIDE DEF call
<1>3. \A d \in RetryThreads : retries'[d] = IF d = c THEN call ELSE retries[d]
  BY <1>2 DEF RetryInv, RetryTypeOK
<1>4. RetryTypeOK'
  BY <1>1, <1>2 DEF RetryInv, RetryTypeOK
<1>5. KeysAreOwn' /\ LocksAreOwn'
  BY <1>1, <1>2, <1>3 DEF RetryInv, KeysAreOwn, LocksAreOwn, InFlight
<1>6. RawTraceIsAudited'
  BY <1>1, <1>2, <1>3 DEF RetryInv, RawTraceIsAudited
<1>7. QED
  BY <1>2, <1>4, <1>5, <1>6 DEF RetryInv, RequeuedOncePerFailure

LEMMA LockTaskStep ==
  ASSUME RetryInv, NEW c \in RetryThreads, LockTask(c)
  PROVE  RetryInv'
<1>1. /\ retries[c].op = "asked" /\ TaskFree(retries[c].task)
      /\ UNCHANGED << tasks, retryLog, traceLog >>
  BY DEF LockTask
<1>2. retries[c] \in [op : {"asked", "locked"}, task : Tasks, key : RetryKeys]
  BY <1>1, FlightRow DEF RetryInv, InFlight
<1> DEFINE call == [retries[c] EXCEPT !.op = "locked"]
<1>3. /\ call.op = "locked" /\ call.key = retries[c].key /\ call.task = retries[c].task
      /\ call \in [op : {"asked", "locked"}, task : Tasks, key : RetryKeys]
  BY <1>2
<1> HIDE DEF call
<1>4. CASE /\ tasks[retries[c].task].status = "failed"
           /\ retries' = [retries EXCEPT ![c] = call]
  <2>1. \A d \in RetryThreads : retries'[d] = IF d = c THEN call ELSE retries[d]
    BY <1>4 DEF RetryInv, RetryTypeOK
  <2>2. RetryTypeOK'
    BY <1>1, <1>3, <1>4 DEF RetryInv, RetryTypeOK
  <2>3. KeysAreOwn'
    BY <1>1, <1>3, <2>1 DEF RetryInv, KeysAreOwn, InFlight
  <2>4. LocksAreOwn'
    BY <1>1, <1>3, <1>4, <2>1 DEF RetryInv, LocksAreOwn, TaskFree
  <2>5. RawTraceIsAudited'
    BY <1>1, <1>3, <2>1 DEF RetryInv, RawTraceIsAudited
  <2>6. QED
    BY <1>1, <2>2, <2>3, <2>4, <2>5 DEF RetryInv, RequeuedOncePerFailure
<1>5. CASE retries' = [retries EXCEPT ![c] = [op |-> "none"]]
  BY <1>1, <1>5, PlainCall DEF RetryInv, RetryTypeOK
<1>6. QED
  BY <1>4, <1>5 DEF LockTask, Proceeds, NoRetry, call

LEMMA RequeuedRow ==
  ASSUME NEW task \in TaskRow
  PROVE  /\ Requeued(task) \in TaskRow
         /\ Requeued(task).status = "queued"
         /\ Requeued(task).retries = task.retries + 1
         /\ Requeued(task).failures = task.failures
<1>1. Requeued(task) = [task EXCEPT !.status = "queued", !.retryable = FALSE,
                                    !.retries = task.retries + 1]
  BY DEF Requeued
<1>2. Requeued(task) = [status |-> "queued", retryable |-> FALSE,
                        retries |-> task.retries + 1, failures |-> task.failures]
  BY <1>1 DEF TaskRow
<1>3. QED
  BY <1>2 DEF TaskRow

LEMMA FailedRow ==
  ASSUME NEW task \in TaskRow, NEW again \in BOOLEAN
  PROVE  /\ Failed(task, again) \in TaskRow
         /\ Failed(task, again).status = "failed"
         /\ Failed(task, again).retries = task.retries
         /\ Failed(task, again).failures = task.failures + 1
<1>1. Failed(task, again) = [task EXCEPT !.status = "failed", !.retryable = again,
                                         !.failures = task.failures + 1]
  BY DEF Failed
<1>2. Failed(task, again) = [status |-> "failed", retryable |-> again,
                             retries |-> task.retries, failures |-> task.failures + 1]
  BY <1>1 DEF TaskRow
<1>3. QED
  BY <1>2 DEF TaskRow

LEMMA DoneRow ==
  ASSUME NEW task \in TaskRow
  PROVE  LET done == [task EXCEPT !.status = "done"] IN
           /\ done \in TaskRow /\ done.status = "done"
           /\ done.retries = task.retries /\ done.failures = task.failures
BY DEF TaskRow

LEMMA RequeueStep ==
  ASSUME RetryInv, NEW c \in RetryThreads, RetryTask(c)
  PROVE  RetryInv'
<1> DEFINE k == retries[c].task
           key == retries[c].key
           row == [task |-> k, key |-> key]
           task == Requeued(tasks[k])
<1>1. /\ retries[c].op = "locked" /\ traceLog' = traceLog
      /\ tasks' = [tasks EXCEPT ![k] = task]
      /\ retryLog' = retryLog \cup {row}
      /\ retries' = [retries EXCEPT ![c] = [op |-> "none"]]
  BY DEF RetryTask, Proceeds, NoRetry
<1>2. k \in Tasks /\ key \in RetryKeys /\ row.task = k /\ row.key = key
  BY <1>1, FlightRow DEF RetryInv, InFlight
<1>3. /\ tasks[k].status = "failed"
      /\ tasks[k] \in TaskRow
  BY <1>1, <1>2 DEF RetryInv, RetryTypeOK, LocksAreOwn
<1>4. /\ task \in TaskRow /\ task.status = "queued"
      /\ task.retries = tasks[k].retries + 1 /\ task.failures = tasks[k].failures
  BY <1>3, RequeuedRow
<1>5. row \notin retryLog
  BY <1>1, <1>2 DEF RetryInv, KeysAreOwn, InFlight
<1>6. row \in [task : Tasks, key : RetryKeys]
  BY <1>2
<1> HIDE DEF task, row
<1>7. \A d \in RetryThreads : retries'[d] = IF d = c THEN [op |-> "none"] ELSE retries[d]
  BY <1>1 DEF RetryInv, RetryTypeOK
<1>8. \A j \in Tasks : tasks'[j] = IF j = k THEN task ELSE tasks[j]
  BY <1>1, <1>2 DEF RetryInv, RetryTypeOK
<1>9. RetryTypeOK'
  <2>1. tasks' \in [Tasks -> TaskRow]
    BY <1>1, <1>4 DEF RetryInv, RetryTypeOK
  <2>2. retries' \in [RetryThreads ->
       [op : {"none", "refused", "reading", "shown"}]
         \cup [op : {"asked", "locked"}, task : Tasks, key : RetryKeys]]
    BY <1>1 DEF RetryInv, RetryTypeOK
  <2>3. retryLog' \subseteq [task : Tasks, key : RetryKeys]
    BY <1>1, <1>6 DEF RetryInv, RetryTypeOK
  <2>4. QED
    BY <1>1, <2>1, <2>2, <2>3 DEF RetryInv, RetryTypeOK
<1>10. IsFiniteSet(retryLog')
  BY <1>1, FS_AddElement DEF RetryInv
<1>11. KeysAreOwn'
  BY <1>1, <1>2, <1>7 DEF RetryInv, KeysAreOwn, InFlight
<1>12. LocksAreOwn'
  <2>1. \A d \in RetryThreads \ {c} : retries[d].op = "locked" => retries[d].task # k
    BY <1>1 DEF RetryInv, LocksAreOwn
  <2>2. \A d \in RetryThreads : retries[d].op = "locked" => retries[d].task \in Tasks
    BY FlightRow DEF RetryInv, InFlight
  <2>3. QED
    BY <1>7, <1>8, <2>1, <2>2 DEF RetryInv, LocksAreOwn
<1>13. RequeuedOncePerFailure'
  <2> SUFFICES ASSUME NEW j \in Tasks
               PROVE  /\ tasks'[j].retries + (IF tasks'[j].status = "failed" THEN 1 ELSE 0)
                           <= tasks'[j].failures
                      /\ Cardinality({r \in retryLog' : r.task = j}) = tasks'[j].retries
    BY DEF RequeuedOncePerFailure
  <2> DEFINE rows == {r \in retryLog : r.task = j}
  <2>1. IsFiniteSet(rows)
    BY FS_Subset DEF RetryInv
  <2>2. /\ tasks[j].retries + (IF tasks[j].status = "failed" THEN 1 ELSE 0)
             <= tasks[j].failures
        /\ Cardinality(rows) = tasks[j].retries
    BY DEF RetryInv, RequeuedOncePerFailure
  <2>3. CASE j # k
    <3>1. {r \in retryLog' : r.task = j} = rows
      BY <1>1, <1>2, <2>3
    <3>2. QED
      BY <1>8, <2>2, <2>3, <3>1
  <2>4. CASE j = k
    <3>1. {r \in retryLog' : r.task = j} = rows \cup {row}
      BY <1>1, <1>2, <2>4
    <3>2. row \notin rows
      BY <1>5
    <3>3. Cardinality(rows \cup {row}) = Cardinality(rows) + 1
      BY <2>1, <3>2, FS_AddElement
    <3>4. /\ tasks'[j].retries = tasks[j].retries + 1
          /\ tasks'[j].failures = tasks[j].failures
          /\ tasks'[j].status = "queued"
      BY <1>4, <1>8, <2>4
    <3>5. tasks[j].retries \in Nat /\ tasks[j].failures \in Nat
      BY DEF RetryInv, RetryTypeOK, TaskRow
    <3>6. tasks[j].status = "failed"
      BY <1>3, <2>4
    <3>7. tasks[j].retries + 1 <= tasks[j].failures
      BY <2>2, <3>6
    <3>8. tasks'[j].retries + (IF tasks'[j].status = "failed" THEN 1 ELSE 0)
            = tasks[j].retries + 1
      BY <3>4, <3>5
    <3>9. Cardinality({r \in retryLog' : r.task = j}) = tasks'[j].retries
      BY <2>2, <3>1, <3>3, <3>4
    <3>10. QED
      BY <3>4, <3>7, <3>8, <3>9
  <2>5. QED
    BY <2>3, <2>4
<1>14. RawTraceIsAudited'
  BY <1>1, <1>7 DEF RetryInv, RawTraceIsAudited
<1>15. QED
  BY <1>9, <1>10, <1>11, <1>12, <1>13, <1>14 DEF RetryInv

LEMMA RunTaskStep ==
  ASSUME RetryInv, NEW k \in Tasks, RunTask(k)
  PROVE  RetryInv'
<1>1. /\ tasks[k].status = "queued"
      /\ UNCHANGED << retryLog, traceLog, retries >>
      /\ tasks[k] \in TaskRow
  BY DEF RunTask, RetryInv, RetryTypeOK
<1>2. PICK task \in TaskRow :
        /\ tasks' = [tasks EXCEPT ![k] = task]
        /\ task.retries = tasks[k].retries
        /\ task.failures = tasks[k].failures + (IF task.status = "failed" THEN 1 ELSE 0)
  <2>1. CASE tasks' = [tasks EXCEPT ![k].status = "done"]
    <3> DEFINE done == [tasks[k] EXCEPT !.status = "done"]
    <3>1. tasks' = [tasks EXCEPT ![k] = done]
      BY <2>1
    <3>2. /\ done \in TaskRow /\ done.status = "done"
          /\ done.retries = tasks[k].retries /\ done.failures = tasks[k].failures
      BY <1>1, DoneRow
    <3>3. tasks[k].failures \in Nat
      BY <1>1 DEF TaskRow
    <3>4. tasks[k].failures = tasks[k].failures + 0
      BY <3>3
    <3>5. done.failures =
            tasks[k].failures + (IF done.status = "failed" THEN 1 ELSE 0)
      BY <3>2, <3>4
    <3> HIDE DEF done
    <3>6. QED
      BY <3>1, <3>2, <3>5
  <2>2. ASSUME NEW again \in BOOLEAN, tasks' = [tasks EXCEPT ![k] = Failed(tasks[k], again)]
        PROVE  \E task \in TaskRow :
                 /\ tasks' = [tasks EXCEPT ![k] = task]
                 /\ task.retries = tasks[k].retries
                 /\ task.failures =
                      tasks[k].failures + (IF task.status = "failed" THEN 1 ELSE 0)
    BY <1>1, <2>2, FailedRow
  <2>3. QED
    BY <2>1, <2>2 DEF RunTask
<1>3. \A j \in Tasks : tasks'[j] = IF j = k THEN task ELSE tasks[j]
  BY <1>2 DEF RetryInv, RetryTypeOK
<1>4. RetryTypeOK'
  BY <1>1, <1>2 DEF RetryInv, RetryTypeOK
<1>5. LocksAreOwn'
  <2>1. \A d \in RetryThreads : retries[d].op = "locked" => retries[d].task # k
    BY DEF RunTask, TaskFree
  <2>2. \A d \in RetryThreads : retries[d].op = "locked" => retries[d].task \in Tasks
    BY FlightRow DEF RetryInv, InFlight
  <2>3. QED
    BY <1>1, <1>3, <2>1, <2>2 DEF RetryInv, LocksAreOwn
<1>6. RequeuedOncePerFailure'
  <2> SUFFICES ASSUME NEW j \in Tasks
               PROVE  /\ tasks'[j].retries + (IF tasks'[j].status = "failed" THEN 1 ELSE 0)
                           <= tasks'[j].failures
                      /\ tasks'[j].retries = tasks[j].retries
    BY <1>1 DEF RetryInv, RequeuedOncePerFailure
  <2>1. /\ tasks[j].retries + (IF tasks[j].status = "failed" THEN 1 ELSE 0)
             <= tasks[j].failures
        /\ tasks[j].retries \in Nat /\ tasks[j].failures \in Nat
    BY DEF RetryInv, RetryTypeOK, TaskRow, RequeuedOncePerFailure
  <2>2. CASE j = k
    BY <1>1, <1>2, <1>3, <2>1, <2>2
  <2>3. CASE j # k
    BY <1>3, <2>1, <2>3
  <2>4. QED
    BY <2>2, <2>3
<1>7. KeysAreOwn' /\ RawTraceIsAudited'
  BY <1>1 DEF RetryInv, KeysAreOwn, RawTraceIsAudited
<1>8. QED
  BY <1>1, <1>4, <1>5, <1>6, <1>7 DEF RetryInv

LEMMA RetryStepInv == RetryInv /\ [RetryNext]_retryVars => RetryInv'
<1> SUFFICES ASSUME RetryInv, [RetryNext]_retryVars PROVE RetryInv'
  OBVIOUS
<1>1. ASSUME NEW c \in RetryThreads,
             DenyTrace(c) \/ GetMessageTrace(c) \/ ShowTrace(c) \/ EndRetry(c)
      PROVE  RetryInv'
  <2>1. traceLog \subseteq {"denied", "shown"}
    BY DEF RetryInv, RetryTypeOK
  <2>2. CASE DenyTrace(c)
    BY <2>1, <2>2, PlainCall DEF DenyTrace, Proceeds
  <2>3. CASE GetMessageTrace(c)
    BY <2>1, <2>3, PlainCall DEF GetMessageTrace, Proceeds
  <2>4. CASE ShowTrace(c)
    BY <2>1, <2>4, PlainCall DEF ShowTrace, Proceeds
  <2>5. CASE EndRetry(c)
    BY <2>1, <2>5, PlainCall DEF EndRetry, Proceeds, NoRetry
  <2>6. QED
    BY <1>1, <2>2, <2>3, <2>4, <2>5
<1>2. CASE UNCHANGED retryVars
  BY <1>2 DEF retryVars, RetryInv, RetryTypeOK, KeysAreOwn, LocksAreOwn,
              RequeuedOncePerFailure, RawTraceIsAudited
<1>3. QED
  BY <1>1, <1>2, LockKeyStep, LockTaskStep, RequeueStep, RunTaskStep DEF RetryNext

LEMMA RetryInvHolds == RetrySpec => []RetryInv
BY RetryInitInv, RetryStepInv, PTL DEF RetrySpec

\* The tasks' tables and calls stay in their types.
THEOREM RetryTypeCorrect == RetrySpec => []RetryTypeOK
BY RetryInvHolds, PTL DEF RetryInv

\* However many retries of one failure overlap, one of them requeues the task,
\* and the audit log has its row.
THEOREM FailuresRequeueOnce == RetrySpec => []RequeuedOncePerFailure
BY RetryInvHolds, PTL DEF RetryInv

\* A raw trace is out only after its access is in the audit log, and a refusal
\* only after its denial.
THEOREM TracesAreAudited == RetrySpec => []RawTraceIsAudited
BY RetryInvHolds, PTL DEF RetryInv

-----------------------------------------------------------------------------
(***************************************************************************)
(* Catalog.  A confirmation that is past a step left what the step wrote:  *)
(* nothing deletes a product or an asset.                                  *)
(***************************************************************************)
StepsAreKept ==
  \A c \in Editors : edits[c].op = "confirm" =>
    /\ edits[c].step \in {"asset", "draft"} =>
         products.canonical # NoProduct /\ products.app # NoProduct
    /\ edits[c].step = "draft" => asset.known

CatalogInv ==
  /\ CatalogTypeOK
  /\ StepsAreKept
  /\ ConfirmedIsComplete
  /\ TablesAgree
  /\ RecallIsReviewed

LEMMA CatalogInitInv == CatalogInit => CatalogInv
<1> SUFFICES ASSUME CatalogInit PROVE CatalogInv
  OBVIOUS
<1>1. edits \in [Editors -> {NoEdit}]
  BY DEF CatalogInit
<1>2. CatalogTypeOK
  BY <1>1 DEF CatalogInit, CatalogTypeOK
<1>3. StepsAreKept
  BY DEF CatalogInit, StepsAreKept, NoEdit
<1>4. ConfirmedIsComplete /\ TablesAgree /\ RecallIsReviewed
  BY DEF CatalogInit, ConfirmedIsComplete, TablesAgree, RecallIsReviewed, Recalled
<1>5. QED
  BY <1>2, <1>3, <1>4 DEF CatalogInv

LEMMA UpsertedRow ==
  ASSUME CatalogInv, NEW id \in ProductIds
  PROVE  /\ Upserted(id) \in [canonical : ProductIds, app : ProductIds]
         /\ Upserted(id).canonical # NoProduct /\ Upserted(id).app # NoProduct
BY DEF CatalogInv, CatalogTypeOK, Upserted

\* The rows stay; a call ends or is replaced by one that has done as much.
LEMMA EditStep ==
  ASSUME CatalogInv, NEW c \in Editors, NEW call,
         call \in {NoEdit} \cup [op : {"upload"}]
           \cup [op : {"confirm"}, step : {"product", "asset", "draft"}, key : ConfirmKeys,
                 id : ProductIds]
           \cup [op : {"review"}, accepted : BOOLEAN, text : Nat],
         call.op = "confirm" => call.step = "product",
         edits' = [edits EXCEPT ![c] = call],
         UNCHANGED << products, asset, candidate, entry, priced >>,
         file' \in BOOLEAN, texts' \in Nat,
         draft' \in [status : {"absent", "draft", "confirmed"},
                     confirmedBy : ConfirmKeys \cup {"none"}],
         draft'.status = "confirmed" => draft.status = "confirmed"
  PROVE  CatalogInv'
<1>1. \A d \in Editors : edits'[d] = IF d = c THEN call ELSE edits[d]
  BY DEF CatalogInv, CatalogTypeOK
<1>2. CatalogTypeOK'
  BY DEF CatalogInv, CatalogTypeOK
<1>3. StepsAreKept'
  BY <1>1 DEF CatalogInv, StepsAreKept
<1>4. QED
  BY <1>2, <1>3 DEF CatalogInv, ConfirmedIsComplete, TablesAgree, RecallIsReviewed, Recalled

LEMMA ConfirmRow ==
  ASSUME CatalogInv, NEW c \in Editors, edits[c].op = "confirm"
  PROVE  edits[c] \in [op : {"confirm"}, step : {"product", "asset", "draft"},
                       key : ConfirmKeys, id : ProductIds]
BY DEF CatalogInv, CatalogTypeOK, NoEdit

LEMMA ConfirmProductStep ==
  ASSUME CatalogInv, NEW c \in Editors, ConfirmProduct(c)
  PROVE  CatalogInv'
<1> DEFINE call == Confirmation("asset", edits[c].key, products'.app)
<1>1. /\ edits[c].op = "confirm" /\ products' = Upserted(edits[c].id)
      /\ edits' = [edits EXCEPT ![c] = call]
      /\ UNCHANGED << draft, file, asset, candidate, entry, texts, priced >>
  BY DEF ConfirmProduct, Edits
<1>2. edits[c] \in [op : {"confirm"}, step : {"product", "asset", "draft"},
                    key : ConfirmKeys, id : ProductIds]
  BY <1>1, ConfirmRow
<1>3. /\ products' \in [canonical : ProductIds, app : ProductIds]
      /\ products'.canonical # NoProduct /\ products'.app # NoProduct
  BY <1>1, <1>2, UpsertedRow
<1>4. /\ call.op = "confirm" /\ call.step = "asset"
      /\ call \in [op : {"confirm"}, step : {"product", "asset", "draft"},
                   key : ConfirmKeys, id : ProductIds]
  BY <1>2, <1>3 DEF Confirmation
<1> HIDE DEF call
<1>5. \A d \in Editors : edits'[d] = IF d = c THEN call ELSE edits[d]
  BY <1>1 DEF CatalogInv, CatalogTypeOK
<1>6. CatalogTypeOK'
  BY <1>1, <1>3, <1>4 DEF CatalogInv, CatalogTypeOK
<1>7. StepsAreKept'
  BY <1>1, <1>3, <1>4, <1>5 DEF CatalogInv, StepsAreKept
<1>8. QED
  BY <1>1, <1>3, <1>6, <1>7 DEF CatalogInv, ConfirmedIsComplete, TablesAgree,
                                RecallIsReviewed, Recalled

LEMMA ConfirmAssetStep ==
  ASSUME CatalogInv, NEW c \in Editors, ConfirmAsset(c)
  PROVE  CatalogInv'
<1> DEFINE call == [edits[c] EXCEPT !.step = "draft"]
<1>1. /\ edits[c].op = "confirm" /\ edits[c].step = "asset"
      /\ edits' = [edits EXCEPT ![c] = call]
      /\ UNCHANGED << products, draft, file, candidate, entry, texts, priced >>
  BY DEF ConfirmAsset, Edits
<1>2. edits[c] \in [op : {"confirm"}, step : {"product", "asset", "draft"},
                    key : ConfirmKeys, id : ProductIds]
  BY <1>1, ConfirmRow
<1>3. /\ call.op = "confirm" /\ call.step = "draft"
      /\ call \in [op : {"confirm"}, step : {"product", "asset", "draft"},
                   key : ConfirmKeys, id : ProductIds]
  BY <1>2
<1>4. asset' \in [known : BOOLEAN, product : ProductIds \cup {NoProduct}] /\ asset'.known
  BY <1>2 DEF ConfirmAsset, CreateAsset, LinkedTo, CatalogInv, CatalogTypeOK
<1> HIDE DEF call
<1>5. \A d \in Editors : edits'[d] = IF d = c THEN call ELSE edits[d]
  BY <1>1 DEF CatalogInv, CatalogTypeOK
<1>6. CatalogTypeOK'
  BY <1>1, <1>3, <1>4 DEF CatalogInv, CatalogTypeOK
<1>7. StepsAreKept'
  BY <1>1, <1>3, <1>4, <1>5 DEF CatalogInv, StepsAreKept
<1>8. QED
  BY <1>1, <1>4, <1>6, <1>7 DEF CatalogInv, ConfirmedIsComplete, TablesAgree,
                                RecallIsReviewed, Recalled

LEMMA ConfirmStatusStep ==
  ASSUME CatalogInv, NEW c \in Editors, ConfirmStatus(c)
  PROVE  CatalogInv'
<1>1. /\ edits[c].op = "confirm" /\ edits[c].step = "draft"
      /\ draft' = [status |-> "confirmed", confirmedBy |-> edits[c].key]
      /\ edits' = [edits EXCEPT ![c] = NoEdit]
      /\ UNCHANGED << products, file, asset, candidate, entry, texts, priced >>
  BY DEF ConfirmStatus, Edits
<1>2. edits[c].key \in ConfirmKeys
  BY <1>1, ConfirmRow
<1>3. \A d \in Editors : edits'[d] = IF d = c THEN NoEdit ELSE edits[d]
  BY <1>1 DEF CatalogInv, CatalogTypeOK
<1>4. CatalogTypeOK'
  BY <1>1, <1>2 DEF CatalogInv, CatalogTypeOK
<1>5. StepsAreKept'
  BY <1>1, <1>3 DEF CatalogInv, StepsAreKept, NoEdit
<1>6. ConfirmedIsComplete'
  BY <1>1 DEF CatalogInv, StepsAreKept, ConfirmedIsComplete
<1>7. QED
  BY <1>1, <1>4, <1>5, <1>6 DEF CatalogInv, TablesAgree, RecallIsReviewed, Recalled

LEMMA SaveReviewStep ==
  ASSUME CatalogInv, NEW c \in Editors, SaveReview(c)
  PROVE  CatalogInv'
<1>1. /\ edits[c].op = "review"
      /\ edits[c] \in [op : {"review"}, accepted : BOOLEAN, text : Nat]
      /\ edits' = [edits EXCEPT ![c] = NoEdit]
      /\ UNCHANGED << products, draft, file, asset, texts, priced >>
  BY DEF SaveReview, Edits, CatalogInv, CatalogTypeOK, NoEdit
<1>2. \A d \in Editors : edits'[d] = IF d = c THEN NoEdit ELSE edits[d]
  BY <1>1 DEF CatalogInv, CatalogTypeOK
<1>3. candidate' = [text |-> edits[c].text,
                    status |-> IF edits[c].accepted THEN "accepted" ELSE "rejected"]
  BY DEF SaveReview
<1>4. entry' = IF edits[c].accepted THEN [status |-> "approved", text |-> edits[c].text]
               ELSE IF entry.status = "absent" THEN entry
               ELSE [entry EXCEPT !.status = "disabled"]
  BY DEF SaveReview
<1>5. candidate' \in [status : {"absent", "pending", "accepted", "rejected"}, text : Nat]
  BY <1>1, <1>3
<1>6. entry' \in [status : {"absent", "approved", "disabled"}, text : Nat]
  BY <1>1, <1>4 DEF CatalogInv, CatalogTypeOK
<1>7. CatalogTypeOK'
  BY <1>1, <1>5, <1>6 DEF CatalogInv, CatalogTypeOK
<1>8. StepsAreKept'
  BY <1>1, <1>2 DEF CatalogInv, StepsAreKept, NoEdit
<1>9. RecallIsReviewed'
  BY <1>1, <1>3, <1>4 DEF RecallIsReviewed, Recalled
<1>10. QED
  BY <1>1, <1>7, <1>8, <1>9 DEF CatalogInv, ConfirmedIsComplete, TablesAgree

LEMMA CatalogStepInv == CatalogInv /\ [CatalogNext]_catalogVars => CatalogInv'
<1> SUFFICES ASSUME CatalogInv, [CatalogNext]_catalogVars PROVE CatalogInv'
  OBVIOUS
<1>1. ASSUME UpsertProduct PROVE CatalogInv'
  <2>1. /\ products' \in [canonical : ProductIds, app : ProductIds]
        /\ products'.canonical # NoProduct /\ products'.app # NoProduct
    BY <1>1, UpsertedRow DEF UpsertProduct
  <2>2. QED
    BY <1>1, <2>1 DEF UpsertProduct, CatalogInv, CatalogTypeOK, StepsAreKept,
                      ConfirmedIsComplete, TablesAgree, RecallIsReviewed, Recalled
<1>2. ASSUME CreatePriceSnapshot PROVE CatalogInv'
  BY <1>2 DEF CreatePriceSnapshot, CatalogInv, CatalogTypeOK, StepsAreKept,
              ConfirmedIsComplete, TablesAgree, RecallIsReviewed, Recalled
<1>3. ASSUME CreateMarkdown PROVE CatalogInv'
  <2>1. /\ candidate' = [status |-> "pending", text |-> texts + 1] /\ texts' = texts + 1
        /\ texts \in Nat
    BY <1>3 DEF CreateMarkdown, CatalogInv, CatalogTypeOK
  <2>2. QED
    BY <1>3, <2>1 DEF CreateMarkdown, CatalogInv, CatalogTypeOK, StepsAreKept,
                      ConfirmedIsComplete, TablesAgree, RecallIsReviewed, Recalled
<1>0. ASSUME AddAsset PROVE CatalogInv'
  <2>1. /\ asset' \in [known : BOOLEAN, product : ProductIds \cup {NoProduct}] /\ asset'.known
        /\ UNCHANGED << products, draft, file, candidate, entry, texts, priced, edits >>
    BY <1>0 DEF AddAsset, CreateAsset, LinkedTo, CatalogInv, CatalogTypeOK
  <2>2. QED
    BY <2>1 DEF CatalogInv, CatalogTypeOK, StepsAreKept, ConfirmedIsComplete, TablesAgree,
                RecallIsReviewed, Recalled
<1>4. ASSUME NEW c \in Editors, CreateDraft(c) PROVE CatalogInv'
  BY <1>4, EditStep DEF CreateDraft, Edits, CatalogInv, CatalogTypeOK
<1>5. ASSUME NEW c \in Editors, SaveDraft(c) PROVE CatalogInv'
  <2>1. /\ file' \in BOOLEAN
        /\ draft' \in [status : {"absent", "draft", "confirmed"},
                       confirmedBy : ConfirmKeys \cup {"none"}]
        /\ draft'.status = "confirmed" => draft.status = "confirmed"
    BY <1>5 DEF SaveDraft, CatalogInv, CatalogTypeOK
  <2>2. texts' \in Nat
    BY <1>5 DEF SaveDraft, CatalogInv, CatalogTypeOK
  <2>3. QED
    BY <1>5, <2>1, <2>2, EditStep DEF SaveDraft, Edits, NoEdit
<1>6. ASSUME NEW c \in Editors, ConfirmDraft(c) PROVE CatalogInv'
  <2>1. PICK key \in ConfirmKeys, id \in ProductIds :
          edits' = [edits EXCEPT ![c] =
            [op |-> "confirm", step |-> "product", key |-> key, id |-> id]]
    BY <1>6 DEF ConfirmDraft, Confirmation, Edits
  <2>2. QED
    BY <1>6, <2>1, EditStep DEF ConfirmDraft, CatalogInv, CatalogTypeOK
<1>7. ASSUME NEW c \in Editors, ReviewCandidate(c) PROVE CatalogInv'
  <2>1. PICK accepted \in BOOLEAN, own \in BOOLEAN :
          /\ texts' = IF own THEN texts + 1 ELSE texts
          /\ edits' = [edits EXCEPT ![c] =
               [op |-> "review", accepted |-> accepted,
                text |-> IF own THEN texts + 1 ELSE candidate.text]]
    BY <1>7 DEF ReviewCandidate, Edits
  <2>2. /\ texts' \in Nat
        /\ (IF own THEN texts + 1 ELSE candidate.text) \in Nat
    BY <2>1 DEF CatalogInv, CatalogTypeOK
  <2>3. QED
    BY <1>7, <2>1, <2>2, EditStep DEF ReviewCandidate, CatalogInv, CatalogTypeOK
<1>8. ASSUME NEW c \in Editors, LoseEdit(c) PROVE CatalogInv'
  BY <1>8, EditStep DEF LoseEdit, Edits, NoEdit, CatalogInv, CatalogTypeOK
<1>9. CASE UNCHANGED catalogVars
  BY <1>9 DEF catalogVars, CatalogInv, CatalogTypeOK, StepsAreKept, ConfirmedIsComplete,
              TablesAgree, RecallIsReviewed, Recalled
<1>10. QED
  BY <1>0, <1>1, <1>2, <1>3, <1>4, <1>5, <1>6, <1>7, <1>8, <1>9, ConfirmProductStep,
     ConfirmAssetStep, ConfirmStatusStep, SaveReviewStep DEF CatalogNext

LEMMA CatalogInvHolds == CatalogSpec => []CatalogInv
BY CatalogInitInv, CatalogStepInv, PTL DEF CatalogSpec

\* The rows of the catalog and its calls stay in their types.
THEOREM CatalogTypeCorrect == CatalogSpec => []CatalogTypeOK
BY CatalogInvHolds, PTL DEF CatalogInv

\* A reply recalls only the text that a review accepted last.
THEOREM RecalledIsAccepted == CatalogSpec => []RecallIsReviewed
BY CatalogInvHolds, PTL DEF CatalogInv

\* A confirmed draft has its product in both tables and its asset, wherever
\* which of its confirmations stopped.
THEOREM ConfirmedDraftsAreComplete == CatalogSpec => []ConfirmedIsComplete
BY CatalogInvHolds, PTL DEF CatalogInv

\* Neither table has a product that the other lacks.
THEOREM ProductTablesAgree == CatalogSpec => []TablesAgree
BY CatalogInvHolds, PTL DEF CatalogInv

\* The dashboard and the readiness page count the same stores as not ready.
THEOREM ReadinessAgrees == CatalogSpec => []DashboardAgrees
<1>1. DashboardAgrees
  BY DEF DashboardAgrees, ReadinessStatus, ReadinessBlocker
<1>2. QED
  BY <1>1, PTL

-----------------------------------------------------------------------------
(***************************************************************************)
(* Accounts.  A session's ticket has been consumed, and nothing makes it   *)
(* live again (Spent); a subject is written only where the unique index    *)
(* allows it.                                                              *)
(***************************************************************************)
\* The ticket of a session was its tenant's, and is used up.
Spent ==
  \A i \in DOMAIN sessions :
    sessions[i].via \in Tickets =>
      /\ tickets[sessions[i].via].state \in {"consumed", "forgotten"}
      /\ sessions[i].admin = tickets[sessions[i].via].tenant

OnePerTicket ==
  \A i, j \in DOMAIN sessions :
    sessions[i].via \in Tickets /\ sessions[j].via = sessions[i].via => i = j

AccountsInv == AccountsTypeOK /\ Spent /\ OnePerTicket /\ SubjectNamesOneAccount

-----------------------------------------------------------------------------
LEMMA AppendedSeq ==
  ASSUME NEW S, NEW s \in Seq(S), NEW x \in S
  PROVE  /\ Append(s, x) \in Seq(S)
         /\ DOMAIN Append(s, x) = DOMAIN s \cup {Len(s) + 1}
         /\ Len(s) + 1 \notin DOMAIN s
         /\ \A i \in DOMAIN s : Append(s, x)[i] = s[i]
         /\ Append(s, x)[Len(s) + 1] = x
OBVIOUS

\* A roster with an account has a first one.
LEMMA Rosters ==
  ASSUME AccountsTypeOK, NEW a \in Admins
  PROVE  WithAccount(a) \in Seq(Admins) /\ WithAccount(a)[1] \in Admins
<1>1. roster \in Seq(Admins)
  BY DEF AccountsTypeOK
<1>2. CASE Exists(roster, a)
  <2>1. roster # <<>>
    BY <1>2 DEF Exists
  <2>2. QED
    BY <1>1, <1>2, <2>1 DEF WithAccount
<1>3. CASE ~Exists(roster, a)
  BY <1>1, <1>3 DEF WithAccount
<1>4. QED
  BY <1>2, <1>3

LEMMA Visits ==
  ASSUME NEW visit \in VisitOf, visit.op \in {"login", "link"}
  PROVE  visit.subject \in Subjects /\ visit.admin \in Admins /\ visit.binds \in BOOLEAN
BY DEF VisitOf, Waiting

LEMMA NewVisit ==
  ASSUME NEW op \in {"login", "link"}, NEW s \in Subjects, NEW a \in Admins, NEW b \in BOOLEAN
  PROVE  [op |-> op, subject |-> s, admin |-> a, binds |-> b] \in VisitOf
BY DEF VisitOf

LEMMA IssuedTickets ==
  ASSUME NEW row \in TicketRow, row.state # "unissued"
  PROVE  /\ row \in [state : {"live", "expired", "consumed", "forgotten"}, tenant : Tenants,
                     replica : Replicas]
         /\ \A s \in {"live", "expired", "consumed", "forgotten"} :
              /\ [row EXCEPT !.state = s] \in TicketRow
              /\ [row EXCEPT !.state = s].state = s
              /\ [row EXCEPT !.state = s].tenant = row.tenant
<1>1. row \in [state : {"live", "expired", "consumed", "forgotten"}, tenant : Tenants,
               replica : Replicas]
  BY DEF TicketRow
<1>2. QED
  BY <1>1 DEF TicketRow

-----------------------------------------------------------------------------
\* A step that opens a session at most.
LEMMA SessionStep ==
  ASSUME AccountsInv, NEW a \in Admins, NEW via \in {"password", "oidc"} \cup Tickets,
         sessions' = Opened(a, via), AccountsTypeOK',
         via \in Tickets =>
           tickets[via].state \notin {"consumed", "forgotten"}
           /\ tickets'[via].state \in {"consumed", "forgotten"} /\ tickets'[via].tenant = a,
         \A k \in Tickets \ {via} : tickets'[k] = tickets[k]
  PROVE  Spent' /\ OnePerTicket'
<1> DEFINE new == [admin |-> a, via |-> via, open |-> TRUE]
           n == Len(sessions) + 1
<1>1. sessions \in Seq(SessionRow) /\ new \in SessionRow
  BY DEF AccountsInv, AccountsTypeOK, SessionRow
<1>2. /\ DOMAIN sessions' = DOMAIN sessions \cup {n} /\ n \notin DOMAIN sessions
      /\ \A i \in DOMAIN sessions : sessions'[i] = sessions[i]
      /\ sessions'[n] = new
  BY <1>1, AppendedSeq DEF Opened
<1>3. new.via = via /\ new.admin = a
  OBVIOUS
<1>4. \A i \in DOMAIN sessions : sessions[i].via \in Tickets => sessions[i].via # via
  BY DEF AccountsInv, Spent
<1> HIDE DEF new, n
<1>5. Spent'
  BY <1>2, <1>3, <1>4 DEF AccountsInv, Spent
<1>6. OnePerTicket'
  BY <1>2, <1>3, <1>4 DEF AccountsInv, OnePerTicket
<1>7. QED
  BY <1>5, <1>6

\* A step that opens none, and leaves a used ticket as it is.
LEMMA TicketStep ==
  ASSUME AccountsInv, UNCHANGED sessions,
         \A k \in Tickets :
           tickets[k].state \in {"consumed", "forgotten"} =>
             tickets'[k].state \in {"consumed", "forgotten"}
               /\ tickets'[k].tenant = tickets[k].tenant
  PROVE  Spent' /\ OnePerTicket'
BY DEF AccountsInv, Spent, OnePerTicket

LEMMA AccountsInitInv == AccountsInit => AccountsInv
<1> SUFFICES ASSUME AccountsInit PROVE AccountsInv
  OBVIOUS
<1>1. roster = <<>> /\ sessions = <<>> /\ DOMAIN sessions = {}
  BY DEF AccountsInit
<1>2. AccountsTypeOK
  BY <1>1 DEF AccountsInit, AccountsTypeOK, TicketRow, VisitOf
<1>3. SubjectNamesOneAccount
  BY DEF AccountsInit, SubjectNamesOneAccount
<1>4. QED
  BY <1>1, <1>2, <1>3 DEF AccountsInv, Spent, OnePerTicket

LEMMA LoginStep ==
  ASSUME AccountsInv, Login
  PROVE  AccountsInv'
<1> DEFINE a == roster'[1]
<1>1. roster' \in Seq(Admins) /\ a \in Admins
  BY Rosters DEF AccountsInv, Login, Bootstrapped, Admins
<1>2. sessions' = Opened(a, "password") /\ UNCHANGED << subjectOf, wide, connectors, tickets, visitors >>
  BY DEF Login
<1> HIDE DEF a
<1>3. sessions' \in Seq(SessionRow)
  BY <1>1, <1>2, AppendedSeq DEF AccountsInv, AccountsTypeOK, Opened, SessionRow
<1>4. AccountsTypeOK'
  BY <1>1, <1>2, <1>3 DEF AccountsInv, AccountsTypeOK
<1>5. Spent' /\ OnePerTicket'
  BY <1>1, <1>2, <1>4, SessionStep
<1>6. QED
  BY <1>2, <1>4, <1>5 DEF AccountsInv, SubjectNamesOneAccount

\* A step of one visitor that leaves the tables as they are.
LEMMA VisitStep ==
  ASSUME AccountsInv, NEW v \in Visitors, NEW visit \in VisitOf,
         visitors' = [visitors EXCEPT ![v] = visit],
         UNCHANGED << roster, subjectOf, wide, sessions, connectors, tickets >>
  PROVE  AccountsInv'
<1>1. AccountsTypeOK'
  BY DEF AccountsInv, AccountsTypeOK
<1>2. QED
  BY <1>1, TicketStep DEF AccountsInv, SubjectNamesOneAccount

LEMMA IdleVisit == Waiting \in VisitOf
BY DEF VisitOf

LEMMA VisitActions ==
  ASSUME AccountsInv, NEW v \in Visitors,
         \/ \E profile \in Profiles : LoginOidc(v, profile)
         \/ \E s \in Subjects : LinkBegin(v, s)
         \/ LoseVisitor(v)
  PROVE  AccountsInv'
<1>1. ASSUME NEW profile \in Profiles, LoginOidc(v, profile) PROVE AccountsInv'
  <2> DEFINE list == Bootstrapped
  <2>1. profile.subject \in Subjects
    BY DEF Profiles
  <2>2. list \in Seq(Admins)
    BY Rosters DEF AccountsInv, Bootstrapped, Admins
  <2>3. \E a \in Admins, b \in BOOLEAN :
          visitors' = [visitors EXCEPT ![v] =
            [op |-> "login", subject |-> profile.subject, admin |-> a, binds |-> b]]
    <3>1. CASE \E a \in Admins : visitors' = [visitors EXCEPT ![v] =
            [op |-> "login", subject |-> profile.subject, admin |-> a, binds |-> FALSE]]
      BY <3>1
    <3>2. CASE \E i \in DOMAIN list : visitors' = [visitors EXCEPT ![v] =
            [op |-> "login", subject |-> profile.subject, admin |-> list[i], binds |-> TRUE]]
      <4>1. \A i \in DOMAIN list : list[i] \in Admins
        BY <2>2
      <4>2. QED
        BY <3>2, <4>1
    <3>3. QED
      BY <1>1, <3>1, <3>2 DEF LoginOidc
  <2>4. QED
    BY <1>1, <2>1, <2>3, NewVisit, VisitStep DEF LoginOidc
<1>2. ASSUME NEW s \in Subjects, LinkBegin(v, s) PROVE AccountsInv'
  <2>1. PICK i \in DOMAIN sessions : visitors' = [visitors EXCEPT ![v] =
          [op |-> "link", subject |-> s, admin |-> sessions[i].admin, binds |-> TRUE]]
    BY <1>2 DEF LinkBegin
  <2>2. sessions[i] \in SessionRow
    BY DEF AccountsInv, AccountsTypeOK
  <2>3. sessions[i].admin \in Admins
    BY <2>2 DEF SessionRow
  <2>4. QED
    BY <1>2, <2>1, <2>3, NewVisit, VisitStep DEF LinkBegin
<1>3. CASE LoseVisitor(v)
  BY <1>3, IdleVisit, VisitStep DEF LoseVisitor
<1>4. QED
  BY <1>1, <1>2, <1>3

\* A subject is written where no other account has it.
LEMMA SubjectStep ==
  ASSUME AccountsInv, NEW a \in Admins, NEW s \in Subjects, IndexAllows(a, s),
         subjectOf' = [subjectOf EXCEPT ![a] = s]
  PROVE  SubjectNamesOneAccount' /\ subjectOf' \in [Admins -> Subjects \cup {NoSubject}]
BY DEF AccountsInv, AccountsTypeOK, SubjectNamesOneAccount, IndexAllows

LEMMA CommitLoginStep ==
  ASSUME AccountsInv, NEW v \in Visitors, CommitLogin(v)
  PROVE  AccountsInv'
<1> DEFINE a == visitors[v].admin
           s == visitors[v].subject
<1>1. a \in Admins /\ s \in Subjects /\ visitors[v].binds \in BOOLEAN
  BY Visits DEF AccountsInv, AccountsTypeOK, CommitLogin
<1>2. visitors' = [visitors EXCEPT ![v] = Waiting] /\ UNCHANGED << wide, connectors, tickets >>
  BY DEF CommitLogin
<1>3. CASE UNCHANGED << roster, subjectOf, sessions >>
  BY <1>2, <1>3, IdleVisit, VisitStep
<1>4. CASE /\ visitors[v].binds => IndexAllows(a, s)
           /\ roster' = Bootstrapped /\ sessions' = Opened(a, "oidc")
           /\ subjectOf' = IF visitors[v].binds THEN [subjectOf EXCEPT ![a] = s] ELSE subjectOf
  <2>1. SubjectNamesOneAccount' /\ subjectOf' \in [Admins -> Subjects \cup {NoSubject}]
    <3>1. CASE visitors[v].binds
      <4>1. subjectOf' = [subjectOf EXCEPT ![a] = s] /\ IndexAllows(a, s)
        BY <1>4, <3>1
      <4> HIDE DEF a, s
      <4>2. QED
        BY <1>1, <4>1, SubjectStep
    <3>2. CASE ~visitors[v].binds
      BY <1>4, <3>2 DEF AccountsInv, AccountsTypeOK, SubjectNamesOneAccount
    <3>3. QED
      BY <3>1, <3>2
  <2> HIDE DEF a
  <2>2. sessions' \in Seq(SessionRow)
    BY <1>1, <1>4, AppendedSeq DEF AccountsInv, AccountsTypeOK, Opened, SessionRow
  <2>3. roster' \in Seq(Admins)
    BY <1>4, Rosters DEF AccountsInv, Bootstrapped, Admins
  <2>4. AccountsTypeOK'
    BY <1>2, <2>1, <2>2, <2>3, IdleVisit DEF AccountsInv, AccountsTypeOK
  <2>5. Spent' /\ OnePerTicket'
    BY <1>1, <1>2, <1>4, <2>4, SessionStep
  <2>6. QED
    BY <2>1, <2>4, <2>5 DEF AccountsInv
<1>5. QED
  BY <1>3, <1>4 DEF CommitLogin

LEMMA LinkOidcStep ==
  ASSUME AccountsInv, NEW v \in Visitors, LinkOidc(v)
  PROVE  AccountsInv'
<1> DEFINE a == visitors[v].admin
           s == visitors[v].subject
<1>1. a \in Admins /\ s \in Subjects
  BY Visits DEF AccountsInv, AccountsTypeOK, LinkOidc
<1>2. /\ visitors' = [visitors EXCEPT ![v] = Waiting]
      /\ UNCHANGED << roster, wide, sessions, connectors, tickets >>
  BY DEF LinkOidc
<1>3. CASE UNCHANGED subjectOf
  BY <1>2, <1>3, IdleVisit, VisitStep
<1>4. CASE IndexAllows(a, s) /\ subjectOf' = [subjectOf EXCEPT ![a] = s]
  <2> HIDE DEF a, s
  <2>1. SubjectNamesOneAccount' /\ subjectOf' \in [Admins -> Subjects \cup {NoSubject}]
    BY <1>1, <1>4, SubjectStep
  <2>2. AccountsTypeOK'
    BY <1>2, <2>1, IdleVisit DEF AccountsInv, AccountsTypeOK
  <2>3. QED
    BY <1>2, <2>1, <2>2, TicketStep DEF AccountsInv
<1>5. QED
  BY <1>3, <1>4 DEF LinkOidc

-----------------------------------------------------------------------------
LEMMA EndSessionStep ==
  ASSUME AccountsInv, EndSession
  PROVE  AccountsInv'
<1>1. PICK i \in DOMAIN sessions : sessions' = [sessions EXCEPT ![i].open = FALSE]
  BY DEF EndSession
<1>2. sessions \in Seq(SessionRow) /\ sessions[i] \in SessionRow
  BY DEF AccountsInv, AccountsTypeOK
<1>3. [sessions[i] EXCEPT !.open = FALSE] \in SessionRow
      /\ [sessions[i] EXCEPT !.open = FALSE].via = sessions[i].via
      /\ [sessions[i] EXCEPT !.open = FALSE].admin = sessions[i].admin
  BY <1>2 DEF SessionRow
<1>4. /\ sessions' \in Seq(SessionRow) /\ DOMAIN sessions' = DOMAIN sessions
      /\ \A j \in DOMAIN sessions :
           sessions'[j].via = sessions[j].via /\ sessions'[j].admin = sessions[j].admin
  BY <1>1, <1>2, <1>3
<1>5. AccountsTypeOK'
  BY <1>4 DEF AccountsInv, AccountsTypeOK, EndSession
<1>6. Spent' /\ OnePerTicket'
  BY <1>4 DEF AccountsInv, Spent, OnePerTicket, EndSession
<1>7. QED
  BY <1>5, <1>6 DEF AccountsInv, SubjectNamesOneAccount, EndSession

LEMMA AddStoreStep ==
  ASSUME AccountsInv, AddStore
  PROVE  AccountsInv'
<1>1. PICK i \in DOMAIN roster : wide' = wide \cup {roster[i]}
  BY DEF AddStore
<1>2. roster[i] \in Admins
  BY DEF AccountsInv, AccountsTypeOK
<1>3. AccountsTypeOK'
  BY <1>1, <1>2 DEF AccountsInv, AccountsTypeOK, AddStore
<1>4. QED
  BY <1>3, TicketStep DEF AccountsInv, SubjectNamesOneAccount, AddStore

LEMMA ConnectorActions ==
  ASSUME AccountsInv, NEW r \in Replicas, NEW t \in Tenants,
         \/ Provision(r, t)
         \/ \E status \in {"active", "paused", "revoked"} : PatchConnector(r, t, status)
  PROVE  AccountsInv'
<1>1. PICK status \in {"active", "paused", "revoked"} :
        connectors' = [connectors EXCEPT ![r][t] = status]
  BY DEF Provision, PatchConnector
<1>2. UNCHANGED << roster, subjectOf, wide, sessions, tickets, visitors >>
  BY DEF Provision, PatchConnector
<1>3. AccountsTypeOK'
  BY <1>1, <1>2 DEF AccountsInv, AccountsTypeOK
<1>4. QED
  BY <1>2, <1>3, TicketStep DEF AccountsInv, SubjectNamesOneAccount

LEMMA IssueTicketStep ==
  ASSUME AccountsInv, NEW r \in Replicas, NEW t \in Tenants, NEW k \in Tickets, IssueTicket(r, t, k)
  PROVE  AccountsInv'
<1>1. [state |-> "live", tenant |-> t, replica |-> r] \in TicketRow
  BY DEF TicketRow
<1>2. tickets' \in [Tickets -> TicketRow]
      /\ \A l \in Tickets : tickets[l].state # "unissued" => tickets'[l] = tickets[l]
  BY <1>1 DEF AccountsInv, AccountsTypeOK, IssueTicket
<1>3. AccountsTypeOK'
  BY <1>2 DEF AccountsInv, AccountsTypeOK, IssueTicket
<1>4. Spent' /\ OnePerTicket'
  BY <1>2, TicketStep DEF IssueTicket
<1>5. QED
  BY <1>3, <1>4 DEF AccountsInv, SubjectNamesOneAccount, IssueTicket

LEMMA ExpireTicketStep ==
  ASSUME AccountsInv, NEW k \in Tickets, ExpireTicket(k)
  PROVE  AccountsInv'
<1>1. tickets[k] \in TicketRow /\ tickets[k].state = "live"
      /\ tickets' = [tickets EXCEPT ![k] = [tickets[k] EXCEPT !.state = "expired"]]
  BY DEF AccountsInv, AccountsTypeOK, ExpireTicket
<1>2. [tickets[k] EXCEPT !.state = "expired"] \in TicketRow
  BY <1>1, IssuedTickets
<1>3. tickets' \in [Tickets -> TicketRow]
      /\ \A l \in Tickets : tickets[l].state # "live" => tickets'[l] = tickets[l]
  BY <1>1, <1>2 DEF AccountsInv, AccountsTypeOK
<1>4. AccountsTypeOK'
  BY <1>3 DEF AccountsInv, AccountsTypeOK, ExpireTicket
<1>5. Spent' /\ OnePerTicket'
  BY <1>3, TicketStep DEF ExpireTicket
<1>6. QED
  BY <1>4, <1>5 DEF AccountsInv, SubjectNamesOneAccount, ExpireTicket

LEMMA ExchangeTicketStep ==
  ASSUME AccountsInv, NEW k \in Tickets, ExchangeTicket(k)
  PROVE  AccountsInv'
<1> DEFINE t == tickets[k].tenant
<1>1. /\ tickets[k] \in TicketRow /\ tickets[k].state = "live"
      /\ tickets' = [tickets EXCEPT ![k] = [tickets[k] EXCEPT !.state = "consumed"]]
      /\ UNCHANGED << subjectOf, wide, connectors, visitors >>
  BY DEF AccountsInv, AccountsTypeOK, ExchangeTicket, Consume
<1>2. /\ [tickets[k] EXCEPT !.state = "consumed"] \in TicketRow
      /\ [tickets[k] EXCEPT !.state = "consumed"].state = "consumed"
      /\ [tickets[k] EXCEPT !.state = "consumed"].tenant = t
      /\ t \in Tenants
  BY <1>1, IssuedTickets
<1>3. /\ tickets' \in [Tickets -> TicketRow]
      /\ tickets'[k].state = "consumed" /\ tickets'[k].tenant = t
      /\ \A l \in Tickets \ {k} : tickets'[l] = tickets[l]
  BY <1>1, <1>2 DEF AccountsInv, AccountsTypeOK
<1>4. CASE UNCHANGED << roster, sessions >>
  <2>1. AccountsTypeOK'
    BY <1>1, <1>3, <1>4 DEF AccountsInv, AccountsTypeOK
  <2>2. Spent' /\ OnePerTicket'
    BY <1>1, <1>3, <1>4, TicketStep
  <2>3. QED
    BY <1>1, <2>1, <2>2 DEF AccountsInv, SubjectNamesOneAccount
<1>5. CASE LoginLaunch(k)
  <2>1. t \in Admins /\ sessions' = Opened(t, k) /\ roster' = WithAccount(t)
    BY <1>2, <1>5 DEF LoginLaunch, Launched, Admins
  <2> HIDE DEF t
  <2>2. sessions' \in Seq(SessionRow)
    BY <2>1, AppendedSeq DEF AccountsInv, AccountsTypeOK, Opened, SessionRow
  <2>3. roster' \in Seq(Admins)
    BY <2>1, Rosters DEF AccountsInv
  <2>4. AccountsTypeOK'
    BY <1>1, <1>3, <2>2, <2>3 DEF AccountsInv, AccountsTypeOK
  <2>5. Spent' /\ OnePerTicket'
    BY <1>1, <1>3, <2>1, <2>4, SessionStep
  <2>6. QED
    BY <1>1, <2>4, <2>5 DEF AccountsInv, SubjectNamesOneAccount
<1>6. QED
  BY <1>4, <1>5 DEF ExchangeTicket

LEMMA RestartStep ==
  ASSUME AccountsInv, NEW r \in Replicas, Restart(r)
  PROVE  AccountsInv'
<1>1. ASSUME NEW k \in Tickets
      PROVE  /\ tickets'[k] \in TicketRow
             /\ \/ tickets'[k] = tickets[k]
                \/ tickets'[k].state = "forgotten" /\ tickets'[k].tenant = tickets[k].tenant
  <2>1. tickets[k] \in TicketRow
    BY DEF AccountsInv, AccountsTypeOK
  <2>2. CASE tickets[k].state # "unissued" /\ tickets[k].replica = r
    BY <2>1, <2>2, IssuedTickets DEF Restart
  <2>3. CASE ~(tickets[k].state # "unissued" /\ tickets[k].replica = r)
    BY <2>1, <2>3 DEF Restart
  <2>4. QED
    BY <2>2, <2>3
<1>2. tickets' \in [Tickets -> TicketRow]
  BY <1>1 DEF Restart
<1>3. connectors' \in [Replicas -> [Tenants -> {"none", "active", "paused", "revoked"}]]
  BY DEF Restart, AccountsInv, AccountsTypeOK
<1>4. AccountsTypeOK'
  BY <1>2, <1>3 DEF AccountsInv, AccountsTypeOK, Restart
<1>5. Spent' /\ OnePerTicket'
  BY <1>1, TicketStep DEF Restart
<1>6. QED
  BY <1>4, <1>5 DEF AccountsInv, SubjectNamesOneAccount, Restart

LEMMA AccountsStepInv == AccountsInv /\ [AccountsNext]_accountsVars => AccountsInv'
<1> SUFFICES ASSUME AccountsInv, [AccountsNext]_accountsVars PROVE AccountsInv'
  OBVIOUS
<1>1. CASE AccountsNext
  BY <1>1, LoginStep, EndSessionStep, AddStoreStep, CommitLoginStep, LinkOidcStep, VisitActions,
     RestartStep, ConnectorActions, IssueTicketStep, ExpireTicketStep, ExchangeTicketStep
     DEF AccountsNext
<1>2. CASE UNCHANGED accountsVars
  BY <1>2 DEF accountsVars, AccountsInv, AccountsTypeOK, Spent, OnePerTicket, SubjectNamesOneAccount
<1>3. QED
  BY <1>1, <1>2

LEMMA AccountsInvHolds == AccountsSpec => []AccountsInv
BY AccountsInitInv, AccountsStepInv, PTL DEF AccountsSpec

-----------------------------------------------------------------------------
\* The tables, the replicas' memory and the threads stay in their types.
THEOREM AccountsTypeCorrect == AccountsSpec => []AccountsTypeOK
BY AccountsInvHolds, PTL DEF AccountsInv

\* However logins by e-mail and manual links overlap, a subject is one account's.
THEOREM SubjectsNameOneAccount == AccountsSpec => []SubjectNamesOneAccount
BY AccountsInvHolds, PTL DEF AccountsInv

\* However often a ticket is sent, on whatever side of its commit the login fails
\* and whichever replica restarts, it opens one session at most, its tenant's.
THEOREM TicketsOpenOneSession == AccountsSpec => []TicketOpensOneSession
<1>1. AccountsInv => TicketOpensOneSession
  BY DEF AccountsInv, Spent, OnePerTicket, TicketOpensOneSession
<1>2. QED
  BY <1>1, AccountsInvHolds, PTL

-----------------------------------------------------------------------------
(***************************************************************************)
(* The instance that TLC checks.  A behaviour of it moves one of the six   *)
(* components and leaves the others as they started, so it is a behaviour  *)
(* of each, and the types that were proved of each hold.  It says nothing  *)
(* of components that move together: they have no state in common.         *)
(***************************************************************************)
LEMMA MovingOneOfSix ==
  Spec => /\ NodesSpec /\ AccountsSpec /\ SystemSpec
          /\ RetrySpec /\ CatalogSpec /\ DeploymentSpec
<1>1. Init => /\ NodesInit /\ AccountsInit /\ SystemInit
              /\ RetryInit /\ CatalogInit /\ DeploymentInit
  BY DEF Init
<1>2. [Next]_administrationVars =>
        /\ [NodesNext]_nodesVars /\ [AccountsNext]_accountsVars /\ [SystemNext]_systemVars
        /\ [RetryNext]_retryVars /\ [CatalogNext]_catalogVars
        /\ [DeploymentNext]_deploymentVars
  BY DEF Next, administrationVars, componentVars
<1>3. QED
  BY <1>1, <1>2, PTL DEF Spec, NodesSpec, AccountsSpec, SystemSpec, RetrySpec, CatalogSpec,
     DeploymentSpec

\* Every variable of the instance keeps its type, whichever component it moves.
THEOREM AdministrationTypeCorrect == Spec => []TypeOK
BY MovingOneOfSix, NodesTypeCorrect, AccountsTypeCorrect, SystemTypeCorrect,
   RetryTypeCorrect, CatalogTypeCorrect, DeploymentTypeCorrect, PTL DEF TypeOK
=============================================================================
