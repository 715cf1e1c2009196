--------------------------- MODULE DecisionService ---------------------------
(***************************************************************************)
(* The reply-decision service on PostgreSQL: the API's executor threads    *)
(* (services/decision_execution.py) and its event loop run create, refill, *)
(* action-result and feedback calls (services/decision.py) as database     *)
(* transactions (services/repository.py, PostgresDecisionRepository).      *)
(*                                                                         *)
(* A create reads, builds the answer without a lock and saves.  The other  *)
(* calls lock the decision row, compute and save in one transaction.       *)
(* Every save first upserts the organization row and so locks it: a        *)
(* mutation takes the decision row and then the organization row, a create *)
(* the organization row and then the decision row.                         *)
(***************************************************************************)
EXTENDS DecisionState

CONSTANTS
  Decisions,      \* decision ids: one per (organization, store, request_id)
  Orgs,
  OrgOf,          \* the organization of each decision
  Workers,        \* the threads of the bounded executor
  Loop,           \* the event loop, which runs feedback itself
  Calls,          \* the calls clients make
  SerialCreates,  \* clients do not repeat a create that is still running
  None

Executors == Workers \cup {Loop}

CreateCalls == [op : {"create"}, d : Decisions, request : Requests]

BodyCalls == [op : {"mutate"}, d : Decisions, body : Bodies]

ASSUME OrgsAssumption == OrgOf \in [Decisions -> Orgs]
ASSUME ExecutorsAssumption == None \notin Executors /\ Loop \notin Workers
ASSUME CallsAssumption == Calls \subseteq CreateCalls \cup BodyCalls
ASSUME SerialCreatesAssumption == SerialCreates \in BOOLEAN

VARIABLES
  stored,       \* the committed state of each decision, or Absent
  incarnation,  \* history: how often a create has stored the decision
  pc,           \* what each executor is doing
  call,         \* the call it is serving
  local,        \* the state it is about to save
  rowLock,      \* who holds the row lock of a decision
  orgLock       \* who holds the row lock of an organization

vars == << stored, incarnation, pc, call, local, rowLock, orgLock >>

Absent == [response |-> [action |-> "absent"]]
NoCall == [op |-> "none"]

Exists(d) == stored[d] # Absent

Creating(e) == call[e].op = "create"
IsFeedback(c) == c.op = "mutate" /\ c.body.op = "feedback"

Init ==
  /\ stored = [d \in Decisions |-> Absent]
  /\ incarnation = [d \in Decisions |-> 0]
  /\ pc = [e \in Executors |-> "idle"]
  /\ call = [e \in Executors |-> NoCall]
  /\ local = [e \in Executors |-> Absent]
  /\ rowLock = [d \in Decisions |-> None]
  /\ orgLock = [o \in Orgs |-> None]

(***************************************************************************)
(* A request arrives.  The event loop hands it to a free thread, except    *)
(* feedback, which it runs itself; while it does, nothing else arrives.    *)
(***************************************************************************)
Begin(e, c) ==
  /\ pc[e] = "idle" /\ pc[Loop] = "idle"
  /\ IsFeedback(c) <=> (e = Loop)
  /\ IsFeedback(c) /\ Exists(c.d) => FeedbackCount(stored[c.d]) < MaxFeedback
  /\ SerialCreates /\ c.op = "create" =>
       \A f \in Executors : ~ (pc[f] # "idle" /\ Creating(f) /\ call[f].d = c.d)
  /\ pc' = [pc EXCEPT ![e] = IF c.op = "create" THEN "read" ELSE "lock"]
  /\ call' = [call EXCEPT ![e] = c]
  /\ UNCHANGED << stored, incarnation, local, rowLock, orgLock >>

\* The executor is done with its call: a reply or an error goes out.
Finish(e) ==
  /\ pc' = [pc EXCEPT ![e] = "idle"]
  /\ call' = [call EXCEPT ![e] = NoCall]
  /\ local' = [local EXCEPT ![e] = Absent]

\* Commit or rollback ends a transaction and releases its locks.
Release(e) ==
  /\ rowLock' = [d \in Decisions |-> IF rowLock[d] = e THEN None ELSE rowLock[d]]
  /\ orgLock' = [o \in Orgs |-> IF orgLock[o] = e THEN None ELSE orgLock[o]]

-----------------------------------------------------------------------------
(***************************************************************************)
(* create_reply_decision                                                   *)
(***************************************************************************)
CreateFinds(e) ==
  /\ pc[e] = "read" /\ Exists(call[e].d)
  /\ Finish(e)
  /\ UNCHANGED << stored, incarnation, rowLock, orgLock >>

\* Variant: every create builds and saves.
CreateAlwaysBuilds(e) ==
  /\ pc[e] = "read"
  /\ \E r \in Replies(call[e].request, ScoreSets) :
       local' = [local EXCEPT ![e] =
                   [request |-> call[e].request, response |-> r, ledger |-> <<>>]]
  /\ pc' = [pc EXCEPT ![e] = "save"]
  /\ UNCHANGED << stored, incarnation, call, rowLock, orgLock >>

CreateBuilds(e) ==
  /\ pc[e] = "read" /\ ~Exists(call[e].d)
  /\ \E r \in Replies(call[e].request, ScoreSets) :
       local' = [local EXCEPT ![e] =
                   [request |-> call[e].request, response |-> r, ledger |-> <<>>]]
  /\ pc' = [pc EXCEPT ![e] = "save"]
  /\ UNCHANGED << stored, incarnation, call, rowLock, orgLock >>

\* Knowledge recall or rewrite_grounded raises: 500, nothing stored.
CreateRaises(e) ==
  /\ pc[e] = "read" /\ ~Exists(call[e].d)
  /\ Finish(e)
  /\ UNCHANGED << stored, incarnation, rowLock, orgLock >>

\* Variant: the save does not wait for the row.
CreateCommitsAnyway(e) ==
  /\ pc[e] = "write" /\ Creating(e)
  /\ stored' = [stored EXCEPT ![call[e].d] = local[e]]
  /\ incarnation' = [incarnation EXCEPT ![call[e].d] = @ + 1]
  /\ Release(e)
  /\ Finish(e)

\* The upserts reach decision_record and the tables after it; commit.
CreateCommits(e) ==
  /\ pc[e] = "write" /\ Creating(e)
  /\ rowLock[call[e].d] = None
  /\ stored' = [stored EXCEPT ![call[e].d] = local[e]]
  /\ incarnation' = [incarnation EXCEPT ![call[e].d] = @ + 1]
  /\ Release(e)
  /\ Finish(e)

-----------------------------------------------------------------------------
\* Variant: a refused mutation leaves its transaction open.
MutateFailsOpen(e) ==
  /\ pc[e] = "lock"
  /\ rowLock[call[e].d] = None
  /\ Exists(call[e].d) => Refuse(stored[call[e].d], call[e].body)
  /\ Finish(e)
  /\ rowLock' = [rowLock EXCEPT ![call[e].d] = e]
  /\ UNCHANGED << stored, incarnation, orgLock >>

(***************************************************************************)
(* mutate_state, with refill_context, submit_action_result or              *)
(* submit_feedback as the mutation: SELECT ... FOR UPDATE waits for the    *)
(* row and reads what is committed then.                                   *)
(***************************************************************************)
MutateFails(e) ==
  /\ pc[e] = "lock"
  /\ rowLock[call[e].d] = None
  /\ Exists(call[e].d) =>
       \/ Refuse(stored[call[e].d], call[e].body)
       \/ Redecides(stored[call[e].d], call[e].body)     \* the graph raises
  /\ Finish(e)
  /\ UNCHANGED << stored, incarnation, rowLock, orgLock >>

\* Variant: a plain SELECT, which neither waits for the row nor locks it.
MutateComputesUnlocked(e) ==
  LET d == call[e].d
      c == call[e].body
  IN  /\ pc[e] = "lock"
      /\ Exists(d) /\ ~Refuse(stored[d], c)
      /\ \E s \in Outcomes(stored[d], c) : local' = [local EXCEPT ![e] = s]
      /\ pc' = [pc EXCEPT ![e] = "save"]
      /\ UNCHANGED << stored, incarnation, call, rowLock, orgLock >>

MutateComputes(e) ==
  LET d == call[e].d
      c == call[e].body
  IN  /\ pc[e] = "lock"
      /\ rowLock[d] = None
      /\ Exists(d) /\ ~Refuse(stored[d], c)
      /\ \E s \in Outcomes(stored[d], c) : local' = [local EXCEPT ![e] = s]
      /\ rowLock' = [rowLock EXCEPT ![d] = e]
      /\ pc' = [pc EXCEPT ![e] = "save"]
      /\ UNCHANGED << stored, incarnation, call, orgLock >>

MutateCommits(e) ==
  /\ pc[e] = "write" /\ ~Creating(e)
  /\ stored' = [stored EXCEPT ![call[e].d] = local[e]]
  /\ Release(e)
  /\ Finish(e)
  /\ UNCHANGED incarnation

-----------------------------------------------------------------------------
\* _upsert_tenant_store, the first statement of every save.
LockOrg(e) ==
  LET o == OrgOf[call[e].d] IN
  /\ pc[e] = "save"
  /\ orgLock[o] = None
  /\ orgLock' = [orgLock EXCEPT ![o] = e]
  /\ pc' = [pc EXCEPT ![e] = "write"]
  /\ UNCHANGED << stored, incarnation, call, local, rowLock >>

\* A create waits for the decision row of a mutation that waits for its org.
LockCycle(e, f) ==
  /\ pc[e] = "write" /\ Creating(e) /\ rowLock[call[e].d] = f
  /\ pc[f] = "save" /\ orgLock[OrgOf[call[f].d]] = e

\* PostgreSQL breaks a deadlock by failing one of the two transactions: 500.
AbortDeadlock(e) ==
  /\ \E f \in Executors : LockCycle(e, f) \/ LockCycle(f, e)
  /\ Release(e)
  /\ Finish(e)
  /\ UNCHANGED << stored, incarnation >>

\* The replica that runs e, or its connection, is lost: PostgreSQL rolls back.
Lose(e) ==
  /\ pc[e] # "idle"
  /\ Release(e)
  /\ Finish(e)
  /\ UNCHANGED << stored, incarnation >>

Advance(e) ==
  \/ CreateFinds(e) \/ CreateBuilds(e) \/ CreateRaises(e) \/ CreateCommits(e)
  \/ MutateFails(e) \/ MutateComputes(e) \/ MutateCommits(e)
  \/ LockOrg(e) \/ AbortDeadlock(e)

Next ==
  \/ \E e \in Executors, c \in Calls : Begin(e, c)
  \/ \E e \in Executors : Advance(e) \/ Lose(e)

(***************************************************************************)
(* Database waits are queues and the reply provider's calls time out, so   *)
(* an executor that can go on again and again eventually does.             *)
(***************************************************************************)
Fairness == \A e \in Executors : SF_vars(Advance(e))

Spec == Init /\ [][Next]_vars /\ Fairness

-----------------------------------------------------------------------------
(***************************************************************************)
(* Properties.                                                             *)
(***************************************************************************)
\* Every variable holds a value its readers expect.
TypeOK ==
  /\ stored \in [Decisions -> States \cup {Absent}]
  /\ incarnation \in [Decisions -> Nat]
  /\ pc \in [Executors -> {"idle", "read", "lock", "save", "write"}]
  /\ call \in [Executors -> Calls \cup {NoCall}]
  /\ local \in [Executors -> States \cup {Absent}]
  /\ rowLock \in [Decisions -> Executors \cup {None}]
  /\ orgLock \in [Orgs -> Executors \cup {None}]

Mutating(e) == pc[e] \in {"save", "write"} /\ ~Creating(e)

(***************************************************************************)
(* What a mutation is about to save was computed from what is stored now:  *)
(* FOR UPDATE keeps every other writer, duplicate creates included, away   *)
(* from the row until the mutation commits (mutate_state).                 *)
(***************************************************************************)
NeverStale ==
  \A e \in Executors :
    Mutating(e) =>
      /\ Exists(call[e].d)
      /\ local[e] \in Outcomes(stored[call[e].d], call[e].body)

(***************************************************************************)
(* A refill or an action result is accepted once per idempotency key, by   *)
(* whatever threads its retries run on (context_refills, action_results).  *)
(***************************************************************************)
AcceptedOnce == \A d \in Decisions : Exists(d) => UniqueKeys(stored[d])

(***************************************************************************)
(* The retry of an accepted action result finds the planned action it      *)
(* names: no refill replaces the response that planned it.  The handler    *)
(* looks for the action before it looks for the stored result.             *)
(***************************************************************************)
ResultsStayRetryable == \A d \in Decisions : Exists(d) => Retryable(stored[d])

(***************************************************************************)
(* What a decision has accepted, with the answers given, is never changed  *)
(* or dropped, short of a second create storing the decision anew.         *)
(***************************************************************************)
Keeps(old, new) == Len(old) <= Len(new) /\ \A i \in DOMAIN old : new[i] = old[i]

AcceptedIsKept ==
  [][ \A d \in Decisions :
        Exists(d) /\ incarnation'[d] = incarnation[d] =>
          Keeps(stored[d].ledger, stored'[d].ledger) ]_vars

(***************************************************************************)
(* The first answer after a wait is built from all the context that was    *)
(* asked for, in whatever order and on whatever threads the refills came.  *)
(***************************************************************************)
Redecided(ledger) == \E i \in DOMAIN ledger :
  ledger[i].op = "refill" /\ ledger[i].answer # PartialContext

FirstAnswerAwaitsAll ==
  [][ \A d \in Decisions :
        /\ Exists(d) /\ incarnation'[d] = incarnation[d]
        /\ ~Redecided(stored[d].ledger) /\ Redecided(stored'[d].ledger)
        => stored[d].response.context_requests
             \subseteq {e.id : e \in RefillEntries(stored'[d].ledger)} ]_vars

\* Every call that arrives is answered, with an error if need be.
Answered == \A e \in Executors : pc[e] # "idle" ~> pc[e] = "idle"

(***************************************************************************)
(* For clients that do not repeat a running create (SerialCreates): no two *)
(* transactions ever wait for each other, so none is failed by PostgreSQL. *)
(***************************************************************************)
NoLockCycle == \A e, f \in Executors : ~LockCycle(e, f)

(***************************************************************************)
(* For the same clients, the service implements the contract of its API.   *)
(***************************************************************************)
Contract ==
  INSTANCE DecisionContract WITH
    NoResponse <- Absent.response,
    response <- [d \in Decisions |-> stored[d].response],
    ledger <- [d \in Decisions |-> IF Exists(d) THEN stored[d].ledger ELSE <<>>]

ImplementsContract == Contract!Spec
=============================================================================
