# Verification of ecommerce-cs-agent

TLA+ models of `ecommerce_cs_agent` -- decisions, the governance and serving of
models, administration, migrations and releases --, the TLC runs that check them,
and the TLAPS proofs about them. Paths are relative to
`ecommerce_cs_agent/` unless they start with `docs/`, `migrations/` or `tests/`.

- `tlc -workers 2 -config DecisionRefills.cfg MCDecisionService` checks a run,
- `tlapm DecisionServiceProofs.tla` checks a proof module.

`PROJECT.json` lists the runs, the mutants that show that each property can
fail, the source lines of every definition, and the hazards.

## 1. The system

A multi-tenant service answers customers of online shops. External systems post
a message and get a decision: a candidate or automatic reply, a request for
context (orders, logistics, products, rules), a request to carry out an action,
or a handoff to a person. They refill context, report action results and send
back what a person replied. Administrators of the platform govern which model
providers serve replies; administrators of shops maintain products and knowledge.
Several API replicas run on one PostgreSQL database.

| Component | State | Operations | Hard behaviour | What makes it correct |
|---|---|---|---|---|
| Decision service (`services/decision.py`, `decision_execution.py`) | none between calls; a decision's request, response, refills, results and feedback in one row | create, refill, action result, feedback; traces are read | calls of one decision on several threads and replicas, retries with idempotency keys, refills in any order, second rounds | every accepted thing is kept and accepted once; the answer is built from all that was asked for, and changes only when a client is told |
| Decision repository (`services/repository.py`) | tables `app_decision_state`, `decision_record` and projections of them | `get_by_request`, `save_state`, `mutate_state` | row locks in two orders, computation inside or outside a transaction, lost connections | no lost update, no transaction left open, deadlocks only where clients overlap creates |
| Decision graph (`services/decision_graph.py`, `service_stage.py`, `grounded_reply.py`) | the state of one invocation | ten nodes, six routes | gates that combine risk, stage, missing context, evidence, model failures | nothing unsafe is released, nothing is guessed, one obligation per decision, the trace is true, it ends |
| HTTP API (`api/app.py`) | none | routes, principals, dispatch to threads; feedback on the event loop | a handler that blocks the loop | every call is answered |
| LLM governance (`services/llm_governance.py`, `llm_governance_adapters.py`) | providers, configuration versions with routes, tests, releases, audit log | create and change providers, test them, draft, route, validate, submit, publish, roll back | optimistic revisions, advisory and row locks, checks outside the transaction, retries | one running version, only evaluated and ready versions run, history is kept, keys take effect once |
| LLM node configuration (`services/llm_node_configuration.py`, `db/import_legacy_llm.py`) | models, node bindings with one revision | create, change, test models; replace bindings; import; resolve a node's model | disable against bind, tests that return late, a page read in two statements | no disabled model is bound, no test speaks of another connection, no replacement is blind |
| Model calls (`services/governed_reply_provider.py`, `llm_runtime.py`, `llm_provider.py`, `llm.py`) | `lastInvocation` of one shared object; metrics | resolve a route, primary, fallback, validation, metric; a node's call | a publish during a call, partial failure, threads that share an object | what was tried is measured in its order, every call ends |
| Provider transport (`services/llm_governance_adapters.py`) | a pool of resolver threads, sockets and timers | resolve, fetch the Secret, call through a proxy | deadlines, a timer that fires while TLS takes the socket over, a full pool | permits are kept, no socket leaks, every call ends |
| Open ERP integration (`services/open_erp_integration.py`) | connectors and launch tickets in memory | provision, patch, issue, consume | several replicas, restarts | a ticket opens one session |
| Admin sessions (`services/admin_auth.py`, `oidc.py`) | accounts, memberships, sessions | login of three kinds, link, log out | two subjects linking one account, a login that binds what it read before | a subject is one account |
| Customer administration (`services/admin.py`, `object_storage.py`) | products, import drafts, assets, candidates, prices, files | upload, confirm, write, review, price | several transactions per operation, files beside rows, a review of an old text | a confirmed draft is complete, what is recalled was reviewed |
| System administration (`services/system_admin.py`) | users, organizations, stores, tasks, audit log | create, retry a task, read a raw trace | idempotency with and without locks | one creation per key, one requeue per failure |
| Migrations and release gate (`db/migrations.py`, `release_gate.py`) | `schema_migration`; the cluster | plan, execute, record; a sequence of checks | pods that overlap and die, a cluster that moves between two checks | what is recorded was executed and in order, what passed is deployed |

The rest is stateless or I/O: embeddings, product analysis, outbound HTTP,
Kubernetes secret references, the scoring of `evals/`, the two browser
applications, packaging.

How they interact. The API calls the decision service on an executor thread; the
service runs the graph, which recalls knowledge through the repository and asks
the reply provider; the service saves through the repository. The graph's reply
provider resolves a route that the governance published, or a model bound to its
node. The governance asks the connection tester and the release gate before its
transactions; the tester reaches the provider through the transport. A review of an
asset's text makes the knowledge that replies recall; an ERP's launch opens an
administrator's session. Everything that replicas share, they share through
PostgreSQL, except connectors and launch tickets, which one replica keeps for
itself. `async def` routes hold a replica's event loop until they return, plain `def`
routes run on a thread of its pool; which of them a route is decides which calls of
one replica can overlap.

## 2. Modules

| Module | Models | Kind |
|---|---|---|
| `ServiceStage` | `service_stage.py`: which terms a message holds, its stages, the context it needs | operators |
| `ReplyGraph` | the gates of `decision_graph.py` and one whole invocation, `Reply` | operators |
| `ReplyDecisionGraph` | one invocation node by node | state machine |
| `DecisionState` | the handlers of `decision.py` on the state of one decision | operators |
| `DecisionService` | executors, event loop, transactions and locks around the handlers | state machine |
| `DecisionContract` | what the API promises a client, without threads or locks | abstract specification |
| `DecisionClaims` | what the documents say and the code does not do | properties |
| `LlmGovernance` | the write operations of `PostgresLlmGovernanceRepository` | state machine |
| `ServedConfiguration` | what governance promises to an organization's reply runtime | abstract specification |
| `LlmNodes` | `llm_node_configuration.py` and the legacy import | state machine |
| `Accounts` | `admin_auth.py`, `oidc.py`, `open_erp_integration.py` | state machine |
| `SystemAdmin` | sign-in and creations of platform operators | state machine |
| `TaskRetry` | task retries and raw traces of `system_admin.py` | state machine |
| `Catalog` | `admin.py` with its file store; what replies recall | state machine |
| `Deployment` | `db/migrations.py`, `release_gate.py`, the cluster around them | state machine |
| `DeploymentClaims` | what the documents say of migrations and the gate and the code does not do | properties |
| `ModelCalls` | governed rewrites and node-bound model calls | state machine |
| `ProviderTransport` | resolver pool, exchanges, deadline timers of `llm_governance_adapters.py` | state machine |
| `ReplyGraphProofs` (operators), `ReplyDecisionGraphProofs`, `DecisionServiceProofs` (with `DecisionClaims`), `LlmGovernanceProofs`, `LlmNodesProofs`, `DeploymentProofs` (with `DeploymentClaims`), `AdministrationProofs` (of `Accounts`, `SystemAdmin`, `TaskRetry`, `Catalog`, and of `MCAdministration`), `ServingProofs` (of `ModelCalls`, `ProviderTransport` and `MCModelServing`) | theorems | proofs |
| `MCReplyDecisionGraph`, `MCDecisionService`, `MCLlmGovernance`, `MCDeployment` | constants of the runs | instances |
| `MCAdministration` | `LlmNodes`, `Accounts`, `SystemAdmin`, `TaskRetry`, `Catalog`, `Deployment`, one at a time | instances |
| `MCModelServing` | `ModelCalls` and `ProviderTransport`, one at a time | instances |

`MCAdministration` and `MCModelServing` only bundle runs: a behaviour moves the one
component that it chose at its start and leaves the others as they began. The
components share no variable, and nothing is claimed of them together.

`ReplyDecisionGraph` and `DecisionState` both use `ReplyGraph`, and the invariant
`ComputesReply` shows that the graph, node by node, computes what the service
takes it to compute. `DecisionService` composes `DecisionState` with the
database. `DecisionContract` is instantiated in `DecisionService`, and
`ServedConfiguration` in `LlmGovernance`, with a refinement mapping.

### The graph

A message is the set of term groups it contains (`Terms`); a group stands for
the words of one constant of `service_stage.py` or `decision_graph.py`, and
`Implied` lists the groups whose words contain words of another. Contexts are,
per type, the set of statuses among their records. What recall, the classifier,
the composer and the provider return are the inputs `answer`. Texts, labels and
reason codes that nothing branches on are left out; confidence is a percentage
and keeps its thresholds (70 and 85). `node` is the node about to run, `taken`
the conditions the trace reports, `walked` a history variable: the conditions
of the edges that were really followed. An exception of knowledge recall or of
`rewrite_grounded`, which no node catches, ends the run in `raised`.

### The decision service

`stored[d]` is the committed row of decision `d`: request, response and a ledger
of what was accepted, with the answer given, in order. The code keeps refills,
results and feedback in three dictionaries; the ledger is their union, with
insertion order, which Python's dictionaries keep and the merge of refills uses.
An executor goes `idle -> read -> save -> write` for a create and
`lock -> save -> write` for the other calls:

- `CreateFinds`, `CreateBuilds`, `CreateRaises`: `get_by_request` and the graph, no lock;
- `MutateComputes`, `MutateFails`: `SELECT ... FOR UPDATE`, then the handler, in the
  transaction (the graph runs while the row is locked);
- `LockOrg`: `_upsert_tenant_store`, the first statement of every save;
- `CreateCommits`, `MutateCommits`: the remaining upserts and the commit. A create
  needs the decision's row here; a mutation has it since its first statement;
- `AbortDeadlock`: PostgreSQL fails one of two transactions that wait for each other;
- `Lose`: the replica that runs the executor, or its connection, is lost: PostgreSQL
  rolls the transaction back. A replica that crashes loses all its executors.

The projections into other tables are written in the same transaction and are
not part of the state. Replicas need no model of their own: what they share is
the database, so an executor of another replica is one more executor.

### LLM governance

`versions` is a sequence of rows, each with what hangs on it: the providers its
routes use, the latest connection test per provider, its release record.
`audit` is the audit log, in which idempotency keys are found again. A thread
goes `idle -> begun -> locked -> idle`; `test_connection` and `submit_publish`
first go through `read` (their preload and the question to the tester or the
gate), `publish` and `rollback` through `checked` (providers are ready and
shared-locked, the running versions are read). Which locks a thread holds
follows from its call and `pc`, so `HoldsKey`, `HoldsVersion`, `HoldsOrg`,
`HoldsProvider` and `SharesProvider` are definitions. Locks taken one after the
other in an order that all operations share are taken in one step; the exception
is `test_connection`, which takes the provider before the version while the
version operations take them in the other order: there the second lock is a
step of its own, and `AbortDeadlock` ends the cycle that is possible. `Fail` is
the loss of a connection or replica, or any error that rolls back.
`EvaluationPasses` is the evaluation service, outside the code. The triggers of
`migrations/012` are left out on purpose: the invariants show that these
transactions would satisfy them anyway.

### LLM nodes

`models`, `bindings` and `bindingRevision` are the three tables; `requests` is the call
each thread serves, with what it has read. Which rows a call has locked follows
from its record: a replacement holds the singleton row of
`llm_node_binding_revision` and shares each model it has checked (`SharedBy`), an
update or a stored test needs a model that nobody shares (`Lockable`). A row's
`connection` counts the changes of key, provider, URL or model id, and `tried` is the
connection its last test tried; no column holds them, they tell a current result
from a stale one. A test, a replacement, an import, the GET of the page that is
edited and a reply's resolution take several steps; the rest is one step, as its
locks make it. A PUT that both enables a model and changes its connection assigns
`status` twice and fails (`llm_node_configuration.py:325`), so it is no action.

### Accounts

`roster` is the accounts in the order of their memberships, `subjectOf` the column
`fcihome_account_sub`, `wide` the accounts with more than one store: the `LIMIT 2` of the
lookup by e-mail counts rows, one per store, so such an account hides others
(`OneMatch`). A password login and a launch are one step, since the first upserts the rows
that every other login needs and the second blocks its event loop. An OIDC login (a
thread) and a link (which asks the provider between its steps) take two.
`connectors` and `tickets` live in a replica and go with it (`Restart`); an exchange
marks its ticket before it logs in, and the login may fail on either side of
its commit.

### System administration and task retries

`creations` are the audit rows with a key, whose unique index `IndexAdmits` is the only
guard of two creations that overlap; `ops` holds a creation between its upsert
and its audit row. A retry holds the advisory lock of its key from `LockKey` on and the
task's row from `LockTask` on; `failures` counts how often a task failed and is
in no table. `RunTask` is the service that runs tasks, which is not in this code.

### Catalog

A store has one product, one upload, its asset, candidate and entry; `products` holds
the product's public id in the tables `product` and `app_product`, which can
differ. An upload puts its file before it inserts the draft and deletes it when the
insert fails. A confirmation is three transactions, `ConfirmProduct`,
`ConfirmAsset`, `ConfirmStatus`; `LoseEdit` ends it between any two. A review reads the
candidate's text, then locks it; it may bring a text of its own, and one of an unknown
id inserts the candidate. `AddAsset` is the asset that an editor makes without an
import. `Recalled` is the condition of `recall_knowledge`.

### Deployment

`recorded` is `schema_migration`, `executed` the contents of each file that ran. A
pod plans, executes and records, the latter two in transactions of their own;
several pods overlap, also with those of the hook before. Commits, Helm's
upgrades, hooks, rollouts and rollbacks are outside the repository: their actions are
those which the chart and the cases of the gate imply. `gate` is one run of
`run_dev_release_gate`: each check reports what it sees or fails, and the cluster
moves between any two. `gate.steady` is a history variable: no release and no
rollback has changed the Deployment's image since the gate looked at it.
A tag ships any number of files. `DeploymentInit` has every database the runner may
meet: rows of the first `n` files, the first `old` of them from before the checksum
column, and, when all are, perhaps without the schema they claim. The runner takes rows
without a checksum at their word where the core schema is there (`Applied`), which the
first file creates. `OnTrust(v)` names those after the first: what stands on the word
of such a row alone is excepted in the properties, and `DeploymentClaims` shows that it
must be.

### Model calls and their transport

`ModelCalls`: `running` is the version whose route serves replies. Which providers are
active when a route is resolved is chosen freely, since disabling and testing
change it at any time. The trigger on metrics lets a row in only while its
route's version runs: otherwise the insert, and with it the rewrite, raises.
`lastInvocation` belongs to the one provider object that all threads use;
`TraceNode` takes it when it is of the step's node, whoever left it there.

`ProviderTransport`: `permits` is the semaphore, `outstanding` the counter under the lock,
`jobs` the queue, `workers` the pool's daemon threads, `probes` the calls. A probe's
`socket` is the object that owns the descriptor, `guarded` the one its timer
would close; `wrap_socket` changes the first, `replace_socket` the second, and the
timer can fire in between. The steps of an exchange are those before which
the code looks at the deadline. Peers answer, fail or say nothing for ever.

## 3. Runs

| Run | States | Question |
|---|---|---|
| `ReplyDecisionGraph` | 152 000 | one invocation over every message of up to two term groups |
| `DecisionRefills` | 39 000 | one decision with two contexts to refill, clients that repeat anything, conflicts, crashes |
| `DecisionSerial` | 89 000 | two decisions of one organization; clients that do not repeat a running create |
| `LlmGovernance` | 331 000 | two administrators, two drafts, a provider that is tested and disabled, rollback |
| `Administration` | 724 000 | six components, each by itself with two calls at a time: bindings, logins and tickets, creations, retries, product content, and tags of two and three files over every kind of old rows, deployed by two runners that overlap and die and watched by the gate |
| `ModelServing` | 83 000 | a rewrite and a node's call while versions are published; two probes on one resolver thread, through a proxy |
| `ClaimNothingLost` | violation | overlapping creates drop what was accepted |
| `ClaimWaitingEnds` | violation | no timer ends a wait for context |
| `ClaimOneSnapshot` | violation | a context request is filled twice |
| `ClaimEveryAnswer` | violation | a second round is answered before its contexts are in |
| `ClaimPassedMigrated` | violation | a file whose old row claims a lost schema is never executed, and the gate passes |
| `ClaimOldVersion` | violation | after a rollback the gate goes on with the old version rolled out |

What the passing runs show.

*Graph.* `AutoReplyIsSafe`: an automatic reply has no risk word, no failed or
refusing model, no missing context, relevant knowledge and a caller that allowed
it. `NeverGuesses`: no reply on a topic whose context was not supplied, be it the
keywords of the message or the rules of its stage (orders under way, parcels, returns,
repairs, invoices, products in use) that call for it.
`OneObligation`: never an action and a context request at once. `TraceIsSound`:
the trace shows the edges that were followed and no others, but hides one (section 5). `ComputesReply`, `Terminates`.

*Service.* `NeverStale`: a mutation saves an outcome of its handler on what is
stored now. `AcceptedOnce`: no key is accepted twice. `AcceptedIsKept`: nothing
but a second create changes or drops what was accepted. `FirstAnswerAwaitsAll`:
the first answer after a wait was built from every context asked for.
`Answered`: every call ends. `NoLockCycle`, `ResultsStayRetryable` and
`ImplementsContract` hold for clients that do not repeat a create that is still
running; `DecisionRefills` shows the service without that assumption, and
`ClaimNothingLost` what is lost.

*Governance.* `ImplementsServing`: whatever is published and rolled back at once,
and wherever calls fail, an organization goes from one evaluated configuration to the
next, is served one version at a time, and after the first never none (so the
partial unique index of one running version never has to refuse). `ServedWasReady`: when a version starts, its
providers are enabled, active and tested, and for a publish tested as they are.
`ServedWasEvaluated`: what is submitted or served uses exactly the providers of
a version that passed its evaluation, through any number of rollbacks.
`OneEffectPerKey`: a key takes effect once. `HistoryIsKept`: versions go through
their life cycle one step at a time and are not changed once released; one whose
provider was changed after its validation (a rename or another draft's test is enough)
stays where it is for ever, since tests are recorded for drafts only.

*Administration.* `BoundIsEnabled`: a bound model is enabled, whatever changes,
replacements and imports overlap. `PassedIsCurrent`: a passed test is about the
connection the row has. `NoBlindReplacement`: a replacement overwrites only what its
administrator was shown. `SubjectNamesOneAccount`: no subject is bound to two
accounts. `TicketOpensOneSession`: through failures, repeats and restarts.
`OneCreationPerKey`: without a lock, by the index alone. `RequeuedOncePerFailure`: under
any two keys. `RecallIsReviewed`: the text that replies recall is the candidate's, and
accepted. `ConfirmedIsComplete`: a confirmed draft has product and asset.

*Deployment.* `RecordedMeansExecuted`: a row of `schema_migration` with a checksum was
executed, and no file was executed before one that it follows, unless that one is
taken on trust. `PassMeansDeployed`: a gate that passed, and after whose look at the
images no release or rollback came, has its image rolled out and every migration of it
executed or taken on trust. Neither exception can be dropped: `ClaimPassedMigrated`
and `ClaimOldVersion`.

*Serving.* `MeasuredAsTried`: a rewrite that returns has one metric per provider tried,
in order, with its outcome. One that raises was overtaken by a
publish, and all it had measured is the failure of its primary. `PermitsAreKept`: permits, queue and workers agree.
`NoSocketLeaks`: a call that is over has no socket and no timer.
`EveryCallEnds`, `EveryProbeEnds`: also when the peer never stops sending and the timer
fires at the worst moment.

### Bounds

- Graph: messages are made of pairs of term groups closed under implication.
  Every branch of the stage rules and gates tests at most two groups at a time
  against context, so pairs reach each; modes other than automatic are combined
  with single groups. Scores stand on both sides of each threshold.
- Service: two threads and the event loop. A lost update, a lock cycle and
  a race of retries need two executors each. Two idempotency keys give a
  retry, a conflict and a second key. `MaxFeedback = 2` bounds feedback, the
  only thing without a key; the ledger is bounded by the keys.
- Governance: two administrators, two versions and the version a rollback makes,
  one provider. Races are between two transactions. `KeysOf` gives each version
  the keys its operations may use, which bounds revisions, as a key takes effect
  once. Only `publish` is repeated after it was carried out (`Retried`); every
  call is repeated while it runs. Administrators are symmetric.
- Administration: the components share no state, so a behaviour moves one of them
  (`moving`) and their states add up. Two threads, replicas' event loops or pods
  each: the races are between two calls. Two models and two nodes; revisions up
  to 3 leave room for a change and a test that meet, two replacements
  (`BindingBound`) for one that is stale. Two subjects, one tenant, ticket and
  replica, two sessions: a second session per ticket is what must not be, and the ERP's
  tenants do not meet. Two tasks that fail twice, under two keys. Two texts: the
  reviewed and the newer one; one product id, as what the run checks of content asks
  whether there is a product, not which (the theorems have any number). Two tags, of which the second adds a file and has
  changed another, the only way to a checksum that differs. Three files: the first makes
  the core schema, the second can be taken on trust then, the third can be executed
  without it. Two pods: one that died or lags behind, and one that takes over.
  `GateMayPass` stops at a gate that cannot pass any more or is no longer steady:
  neither comes back, `PassMeansDeployed` asks nothing of it, and database and
  cluster do the same beside a gate that waits.
  Threads are alike; the run checks safety only, so their symmetry is sound.
- Serving: `Attempts = 2` gives a retry and its end, `VersionBound = 2` a publish
  under a call. One worker and two permits make a queue, a caller that gives up
  while it waits, and a third job that finds none. With `Proxied`, every lookup,
  tunnel and exchange occurs; without it there is one lookup less.

### Fairness

`DecisionService` assumes strong fairness of each executor's `Advance`: lock
queues of PostgreSQL are first come, first served, calls to models have time
limits, and deadlocks are detected, so an executor that can go on again and again
does. Nothing is assumed of clients or crashes. `CallsFairness`: a call that has begun goes
on, since requests have time limits and inserts end. `TransportFairness`: pool
threads, callers and timers run, and `getaddrinfo` returns; peers owe nothing.
`Administration` and `LlmGovernance` check safety and assume none. `ReplyDecisionGraph` assumes that
a started invocation runs on. `ClaimWaitingEnds` is violated under the same
fairness: no handler is enabled that would end the wait.

## 4. Proofs

Every safety invariant and action property of the passing runs is proved for
all values of the constants, and so are both refinements. Where a property needs
serial creates, its theorem says so. The other assumptions are the
named `ASSUME`s of the modules, which say that constants are distinct, numbers or
finite; the runs evaluate them. Each invariant below was checked by TLC on the constants
of a run before it was proved.

### The graph

`ReplyDecisionGraphProofs` holds for messages of any number of term groups, any
contexts and any recalled knowledge whose scores are percentages. Its
inductive invariant is `GraphInv == Typed /\ Walk`: at each node, what the node finds
in the state is a function of the request and of what recall, classifier, composer and
provider have answered so far. At the end that function is `Reply`, which gives
`ComputesReply`, and `AutoReplyIsSafe`, `NeverGuesses` and `OneObligation` become facts
about the operator `Reply` (`ReplyIsSound`, `DraftsKnow`, `AutoReplyKnows`), which
`ReplyGraphProofs` proves apart from both state machines, as the service needs them too.
`RepliesFit` there sums up what a reply says of its request; `AmbiguousIsNotAnswered`
is described in section 5.

### The decision service

`DecisionServiceProofs` holds for every set of decisions,
organizations, threads, keys and calls, from the assumptions in the modules only:
each decision has an organization, the event loop is not a thread, `None` is no
executor, calls are well-formed (what `api/app.py` lets through).

- Any invocation of the graph returns a response of the right shape with at most
  one obligation (`RepliesAreResponses`). The proof goes along the route and needs
  nothing about the inputs.
- Any handler appends at most one entry and keeps the ledger's keys unique and every
  accepted result's action planned (`HandlersAppend`, `HandlersKeepCoherence`).
- `Spec => []Inv` with
  `Inv == TypeOK /\ Phases /\ Locking /\ NeverStale /\ Admitted /\ Coherence`.
  `NeverStale` is not inductive: it needs `Locking` (the row lock of a decision is
  held by the one mutation that works on it, so no other save can come in
  between) and `Phases` (each executor is where its call can take it, and what a
  create is about to save is a fresh state). `Admitted` (a mutation that computes
  was not refused) lets the theorems about handlers apply at the commit, which is
  what `Coherence` needs. `TypeOK`, `NeverStale`, `AcceptedOnce` and
  `ResultsStayRetryable` follow, and `AcceptedIsKept` from what a commit does to
  the ledger.
- `FirstAnswerAwaitsAll` needs no history beyond the ledger: a refill decides only
  when nothing remains of what the stored response asked for, so the commit that decides
  first has every asked-for id among the refills of its ledger
  (`FirstDecidingRefill`).
- `Stands` ties the three parts of a stored decision together: the response is one that
  the graph can return for the stored request, the request has the records of every
  refill accepted up to the last answer, and the last entry that decided holds this very
  answer. Every handler keeps it (`HandlersKeepAnswers`: a refill's merge runs over the
  whole ledger), a create establishes it (`CreatesStand`), and a commit stores nothing
  else (`StoredAnswersStand`). With the graph's lemmas this says what a stored reply
  promises, through all interleavings (`StoredRepliesFit`): at most one obligation, an
  answer only with the context of its topics, no automatic answer that was not allowed;
  and `SuppliedContextIsNotAskedAgain`, that a client who sent records is not asked for
  them again, with the exception in section 5.
- With `SerialCreates`, two further invariants (at most one create of a decision
  runs; one that has built finds nothing stored) give `NoLockCycle`, the
  refinement `Spec => ImplementsContract`, and `SerialClientsLoseNothing`: the sentence
  of the documents that `ClaimNothingLost` refutes is true for such clients, so
  overlapping creates are all that is wrong with it.

### LLM governance

`LlmGovernanceProofs` proves every property of the run `LlmGovernance` for any number
of administrators, organizations, providers, versions, keys and rollbacks, from
the assumptions on the constants alone. The inductive invariant is

    Inv == /\ TypeOK /\ Phases /\ Exclusion /\ Held
           /\ OneRunning /\ OneEffectPerKey
           /\ RestoredIsUntested /\ EvaluatedIsNoDraft /\ ServedWasEvaluated

- `Exclusion`: no two transactions hold one key, version or organization, and none
  writes a provider that another shares. It is the guard of each step that takes a
  lock, stated of the state.
- `Held`: what a transaction found under its locks is still so: the key is new, the
  version has the status that was checked, its providers are ready, and the
  running versions it is about to supersede are those that run. `OneRunning` is not
  inductive without it, since `publish` supersedes what an earlier step read.
- `RestoredIsUntested` and `EvaluatedIsNoDraft`: what a rollback makes is never tested,
  so no other rollback restores from it, and the routes of an evaluated version no
  longer change. Thus `ServedWasEvaluated` holds for any number of rollbacks, where
  the run bounds them.
- `VersionsStepHolds` is the lemma the rest goes through: each step changes a version
  by one step of its life cycle, taken by the only thread that holds it. `Bystander`
  then keeps `Held` for all other threads.
- `TestsInv`: no two transactions hold a provider's row, a test under way found the
  provider as it is, and no recorded test is of a revision the provider is yet to
  have. Provider revisions only grow (`ProvidersGrow`), so a version that is outdated
  stays so: `HistoryIsKept`, and `OutdatedForEver` as a temporal statement.
- `GovernanceImplementsServing`: the initial state maps to nothing served; a passed
  evaluation is `Approve`, `publish` and `rollback` are `Serve` (`RunsInstead`), every
  other step changes nothing (`StillRunning`, `ApprovedStays`). That a rollback serves
  something approved is `ServedWasEvaluated` after the step; that no organization is
  ever left without a version is in `RunsInstead`, since `Held` makes the versions that
  are retired exactly those that run.

### The components around them

`AdministrationTypeCorrect` and `ServingTypeCorrect` carry the components' types over to
the instances of the runs, in which one component moves (`MovingOneOfSix`,
`MovingOneOfTwo`); everything else is proved of each component by itself.

Each proof has an invariant that says what a call still knows of rows it read
earlier, and why.

- `LlmNodes`: `CallOK` (under its locks a replacement's page is what is bound, and each
  model it has checked is still bindable; a test whose revision still is the row's was
  made with the row's connection), `OneReplacement`, and `Imported` (the import's row
  and its bindings appear together, so an import that binds, binds its own row).
  `BoundIsEnabled` is not inductive without any of the three. Also proved, and in no
  run: `NodesAreBoundTogether` and `RepliesUseTestedModels`, that a reply calls a
  connection which passed its test.
- `Accounts`: `Spent` and `OnePerTicket` (a session's ticket is no longer live, and
  names the session's tenant). `SubjectNamesOneAccount` is inductive by itself: the unique
  index alone carries it.
- `SystemAdmin`: creations that make users carry a role; the index does the rest.
- `TaskRetry`: `KeysAreOwn` and `LocksAreOwn` (a retry under way has a key that is in no
  audit row and no other retry, and a locked task is still a retryable
  failure). Also `TracesAreAudited`.
- `Catalog`: `StepsAreKept` (a confirmation past a step finds what the step made, as no
  operation takes it back). Also `ProductTablesAgree` and `ReadinessAgrees`.
- `Deployment`: `RunnersKnow` (what is not in a runner's plan was executed or is taken
  on trust), `ImagesAreMigrated` (the same of what the Deployment's image ships),
  `GateKnows` (what each stage of a steady gate has established). For any tags with
  any numbers of files, any old rows, any pods. That a runner executes the least of the
  files left to it, and so never one before another, is `NextIsLeast`; that there is a
  least one follows from the well-foundedness of the numbers. `HonestRowsSuffice`: if
  every row that may be taken on trust at the start tells the truth, files are executed
  in order and a gate that passed means that all of its tag's were (`FilesInOrder`,
  `PassedMeansMigrated`), so rows that claim a lost schema are all that is wrong with
  the sentence that `ClaimPassedMigrated` refutes.
- `ProviderTransport`: `JobsAreCounted` (lookups counted and jobs in the pool agree) and
  `CallsAreClean` (a call without a connection has neither socket nor timer). Each step
  is accounted for by the cardinalities of the sets of threads it moves. Also
  `PermitsFindRoom`: `put_nowait` never meets a full queue.
- `ModelCalls`: what each stage has measured so far (`SoFar`), and that a call's version
  is or was running (`Recent`).

### Only model-checked

The liveness properties (`Answered`, `Terminates`, `EveryCallEnds`, `EveryProbeEnds`):
fairness and ENABLED are out of the prover's reach. The violations, for which
the counterexample is the evidence.

## 5. Where code and documents disagree

Each violation run quotes a document in its property's comment:
retries of creates (`docs/system-architecture.md:167`), the five-second budget
(`docs/http-api-design.md:403`), partial context (`:242`), repeated refills
(`docs/implementation-plan.md:196`), `schema_migration` as the record of what was
applied (`docs/database-migrations.md:50`) and the old version's health
(`docs/ci-cd.md:156`).

`ClaimPassedMigrated` in steps: the rows 001 and 002 have no checksum and their schema is
lost. The first runner finds no core schema, plans every file, executes 001 and dies. The
next finds the core schema that 001 made, takes row 002 at its word, and goes on to 003. The
hook succeeds, the gate counts a row for each file, and 002 was never executed.
`ClaimOldVersion`: the upgrade is rolled back after the gate saw the new image, and the
old version's rollout, schema and health are what it sees next.

Two more sentences fail without a run of their own:

- `docs/openapi.yaml:6112` defines an edge's `taken` flag by whether the run went through
  the edge. `_trace_graph` matches conditions that nodes report, and none reports
  `candidate_ready`, so a run through `generate_candidate` hides that edge
  (`decision_graph.py:689`). `TraceIsSound` says that this is the only one.
- `docs/http-api-design.md:444` wants a failed action to degrade the decision. The result's
  own record says handoff, but the decision stays in `action_request`
  (`decision.py:224`): `ResultAccepted` leaves the response alone, which is what
  `DecisionContract` promises of it.

Observations that are no violation of a sentence in the repository:

- A buyer who does not know whether the parcel was signed for
  (`service_stage.py:120`) is asked for logistics whatever logistics are there
  (`service_stage.py:249`), so such a message is never answered and each refill of it asks
  for the same again (`AmbiguousIsNotAnswered`). An after-sale word beside an order
  without a status asks for logistics again too. `SuppliedContextIsNotAskedAgain`
  leaves out exactly these two.
- A configuration version that was validated cannot be tested again and cannot go back
  to a draft, so any later change of a provider it uses, a new name included, makes it
  worthless (`OutdatedForEver`); only a new draft helps.

## 6. Not modelled

- *Components.* Product analysis and embeddings, outbound HTTP and Kubernetes
  secret references: stateless validation and I/O. The browser applications: their
  calls are the inputs of the models. Packaging, scripts, documents, and the scoring
  of evaluations.
- *In those modelled.* The in-memory repositories, which development and tests
  use, each one lock around the same rules; read-only listings; the relational
  projections of a decision; texts, their composition and the rules that reject a
  rewrite; the ranking of recalled knowledge; token usage, password hashes, token
  signatures, cookies and network checks; invitations, `update_roles` and
  store settings, whose rows no modelled operation reads; version numbers (their
  collision is a `Fail`).
- *Hazards without a property.* `PROJECT.json` lists two with the reason. Some
  more are read off the code and of little weight: a rollback numbers its version
  without the lock that drafts take (`llm_governance.py:1274`, the unique index fails
  one of them); a running version whose provider is disabled serves no route
  (`llm_governance.py:944`; `ModelCalls` has it, the deterministic draft is the
  answer); a trace may take the invocation of another thread's call of the same
  node (`llm.py:149`; `TraceNode` has it); a snapshot loses the type of its context
  request after the last refill (`repository.py:722`); `app_product` keeps the first
  public id while `product` takes the latest (`admin.py:442`; `Upserted` has it), so the
  asset of a product that was given a second id is linked to none.

## 7. Plan

What would add most, in this order:

1. The projections of a decision (trace steps, snapshots) as a refinement of `stored`.
2. The in-memory repositories as a second implementation of `DecisionContract` and of
   the invariants of `LlmGovernance` and `LlmNodes`.
3. A small run of `LlmGovernance` for liveness under deadlocks and lost connections.
4. `ModelCalls` composed with the release state of `LlmGovernance` and with
   `ProviderTransport`, in place of the free choices at their borders.
5. What the proofs of one component assume of another, as theorems of a composition:
   that a node's call uses a model `LlmNodes` keeps enabled, and that a rewrite uses the
   route `ServedConfiguration` serves.
6. The ranking of recalled knowledge against a reference definition.
