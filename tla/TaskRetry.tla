------------------------------ MODULE TaskRetry ------------------------------
(***************************************************************************)
(* Operators requeue failed background tasks and read message traces       *)
(* (services/system_admin.py on PostgreSQL).  A retry holds the advisory   *)
(* lock of its idempotency key from its first statement to its end, and    *)
(* the task's row from the SELECT ... FOR UPDATE on; a raw trace is shown  *)
(* once its access is in the audit log.  What runs the tasks is elsewhere. *)
(***************************************************************************)
EXTENDS Integers, FiniteSets

CONSTANTS
  Tasks,
  RetryKeys,
  RetryThreads,   \* the threads and event loops of the replicas
  FailureBound    \* how often a run lets one task fail

ASSUME FailuresAssumption == FailureBound \in Nat

VARIABLES
  tasks,      \* background_task; failures counts how often each has failed
  retryLog,   \* the audit rows of retries: the memory of their keys
  traceLog,   \* the audit rows of raw trace accesses, permitted or denied
  retries     \* the call of each thread

retryVars == << tasks, retryLog, traceLog, retries >>

NoRetry == [op |-> "none"]

RetryInit ==
  /\ tasks = [k \in Tasks |->
       [status |-> "queued", retryable |-> FALSE, retries |-> 0, failures |-> 0]]
  /\ retryLog = {}
  /\ traceLog = {}
  /\ retries = [c \in RetryThreads |-> NoRetry]

Proceeds(c, call) == retries' = [retries EXCEPT ![c] = call]

------------------------------------------------------------------------------
KeyFree(key) ==
  \A c \in RetryThreads : retries[c].op \in {"asked", "locked"} => retries[c].key /= key

\* Variant: the task is read without FOR UPDATE.
TaskUnlocked(k) == TRUE

TaskFree(k) == \A c \in RetryThreads : retries[c].op = "locked" => retries[c].task /= k

\* The advisory lock of the key, then its replay, which ends the call.
LockKey(c, k, key) ==
  /\ retries[c] = NoRetry
  /\ KeyFree(key)
  /\ \A row \in retryLog : row.key /= key
  /\ Proceeds(c, [op |-> "asked", task |-> k, key |-> key])
  /\ UNCHANGED << tasks, retryLog, traceLog >>

\* What decides is read under the row's lock; anything but a retryable failure
\* is a conflict.
LockTask(c) ==
  /\ retries[c].op = "asked"
  /\ TaskFree(retries[c].task)
  /\ LET task == tasks[retries[c].task] IN
       Proceeds(c, IF task.status = "failed" /\ task.retryable
                     THEN [retries[c] EXCEPT !.op = "locked"] ELSE NoRetry)
  /\ UNCHANGED << tasks, retryLog, traceLog >>

Requeued(task) ==
  [task EXCEPT !.status = "queued", !.retryable = FALSE, !.retries = @ + 1]

RetryTask(c) ==
  /\ retries[c].op = "locked"
  /\ LET k == retries[c].task IN
       /\ tasks' = [tasks EXCEPT ![k] = Requeued(@)]
       /\ retryLog' = retryLog \cup {[task |-> k, key |-> retries[c].key]}
  /\ Proceeds(c, NoRetry)
  /\ UNCHANGED traceLog

Failed(task, again) ==
  [task EXCEPT !.status = "failed", !.retryable = again, !.failures = @ + 1]

\* The service that runs tasks: its UPDATE waits for a locked row.
RunTask(k) ==
  /\ TaskFree(k)
  /\ tasks[k].status = "queued"
  /\ \/ tasks' = [tasks EXCEPT ![k].status = "done"]
     \/ /\ tasks[k].failures < FailureBound
        /\ \E again \in BOOLEAN : tasks' = [tasks EXCEPT ![k] = Failed(@, again)]
  /\ UNCHANGED << retryLog, traceLog, retries >>

------------------------------------------------------------------------------
\* A raw trace asked for without a reason or the capability: the denial is
\* committed before the request is refused.
DenyTrace(c) ==
  /\ retries[c] = NoRetry
  /\ traceLog' = traceLog \cup {"denied"}
  /\ Proceeds(c, [op |-> "refused"])
  /\ UNCHANGED << tasks, retryLog >>

GetMessageTrace(c) ==
  /\ retries[c] = NoRetry
  /\ Proceeds(c, [op |-> "reading"])
  /\ UNCHANGED << tasks, retryLog, traceLog >>

ShowTrace(c) ==
  /\ retries[c].op = "reading"
  /\ traceLog' = traceLog \cup {"shown"}
  /\ Proceeds(c, [op |-> "shown"])
  /\ UNCHANGED << tasks, retryLog >>

\* The response is out, or the replica or its connection is lost.
EndRetry(c) ==
  /\ retries[c] /= NoRetry
  /\ Proceeds(c, NoRetry)
  /\ UNCHANGED << tasks, retryLog, traceLog >>

RetryNext ==
  \/ \E c \in RetryThreads :
       \/ \E k \in Tasks, key \in RetryKeys : LockKey(c, k, key)
       \/ LockTask(c) \/ RetryTask(c)
       \/ DenyTrace(c) \/ GetMessageTrace(c) \/ ShowTrace(c) \/ EndRetry(c)
  \/ \E k \in Tasks : RunTask(k)

RetrySpec == RetryInit /\ [][RetryNext]_retryVars

------------------------------------------------------------------------------
TaskRow ==
  [status : {"queued", "failed", "done"}, retryable : BOOLEAN, retries : Nat, failures : Nat]

\* Types of the tables and of the calls' records.
RetryTypeOK ==
  /\ tasks \in [Tasks -> TaskRow]
  /\ retryLog \subseteq [task : Tasks, key : RetryKeys]
  /\ traceLog \subseteq {"denied", "shown"}
  /\ retries \in [RetryThreads ->
       [op : {"none", "refused", "reading", "shown"}]
         \cup [op : {"asked", "locked"}, task : Tasks, key : RetryKeys]]

\* A failure is requeued at most once, whoever retries it at the same time under
\* whatever keys, and a task's counter agrees with the audit log.
RequeuedOncePerFailure ==
  \A k \in Tasks :
    /\ tasks[k].retries + (IF tasks[k].status = "failed" THEN 1 ELSE 0) <= tasks[k].failures
    /\ Cardinality({row \in retryLog : row.task = k}) = tasks[k].retries

\* A raw trace is shown only when its access is in the audit log.
RawTraceIsAudited ==
  \A c \in RetryThreads :
    /\ retries[c].op = "shown" => "shown" \in traceLog
    /\ retries[c].op = "refused" => "denied" \in traceLog
=============================================================================
