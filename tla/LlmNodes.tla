------------------------------ MODULE LlmNodes ------------------------------
(***************************************************************************)
(* Which model serves which node of the reply graph                        *)
(* (services/llm_node_configuration.py on PostgreSQL, with the one-time    *)
(* import of db/import_legacy_llm.py).  System administrators create,      *)
(* change and test models and bind the two nodes that use one; the         *)
(* executor threads resolve a node's model when a reply needs it.          *)
(*                                                                         *)
(* A call is a record in requests: its operation and what it has read.     *)
(* The rows it has locked follow from that.  An operation whose locks make *)
(* it atomic is one step; a connection test, a replacement, an import, a   *)
(* GET of the bindings and a resolution take several.                      *)
(***************************************************************************)
EXTENDS Integers

CONSTANTS
  Models,         \* ids of model configurations
  ImportedModel,  \* the fixed id of the imported one
  Callers,        \* the threads that serve administrators and replies
  Unbound,
  RevisionBound,  \* how far a run lets a model's revision grow
  BindingBound    \* and the revision of the bindings

ASSUME ModelsAssumption ==
  /\ ImportedModel \in Models /\ Unbound \notin Models
  /\ RevisionBound \in Nat /\ BindingBound \in Nat

VARIABLES
  models,           \* llm_model_config
  bindings,         \* langgraph_node_llm_binding
  bindingRevision,  \* llm_node_binding_revision
  requests          \* the call that each thread serves

nodesVars == << models, bindings, bindingRevision, requests >>

\* The nodes of the graph that use a model: each is required.
LlmNodes == {"classify_service_stage", "generate_candidate"}

\* What a row's last connection test said; the connection it is configured
\* with, counted up by every change of key, provider, URL or model id; and the
\* connection that its last test tried (no column: it is what tells a current
\* result from a stale one).
Absent ==
  [ enabled |-> FALSE, status |-> "absent", lastTest |-> "none", revision |-> 0,
    connection |-> 0, tried |-> 0 ]

NewModel == [Absent EXCEPT !.enabled = TRUE, !.status = "untested", !.revision = 1]

Known(m) == models[m].status /= "absent"

Bindable(m) == models[m].enabled /\ models[m].lastTest = "passed"

Idle == [op |-> "idle"]

NodesInit ==
  /\ models = [m \in Models |-> Absent]
  /\ bindings = [n \in LlmNodes |-> Unbound]
  /\ bindingRevision = 0
  /\ requests = [c \in Callers |-> Idle]

------------------------------------------------------------------------------
\* A replacement holds the singleton row of llm_node_binding_revision from its
\* start to its end, and FOR KEY SHARE on each model it has checked, which
\* excludes the FOR UPDATE of an update and of a test.
HoldsRevision(c) == requests[c].op = "replace"

\* Variants: neither the bindings' revision nor the models are locked.
RevisionUnlocked == TRUE
Unlocked(m) == TRUE

RevisionFree == \A c \in Callers : ~HoldsRevision(c)

SharedBy(c) ==
  IF requests[c].op = "replace"
    THEN {requests[c].wanted[n] : n \in DOMAIN requests[c].wanted \ requests[c].unchecked}
    ELSE {}

Lockable(m) == \A c \in Callers : m \notin SharedBy(c)

Start(c, call) == requests' = [requests EXCEPT ![c] = call]

Finish(c) == Start(c, Idle)

CreateLlm(c) ==
  /\ requests[c] = Idle
  /\ \E m \in Models \ {ImportedModel} :
       ~Known(m) /\ models' = [models EXCEPT ![m] = NewModel]
  /\ UNCHANGED << bindings, bindingRevision, requests >>

\* A change of the connection forgets the last test; together with `enabled` it
\* would assign the column status twice, an error.
Changes == {"connection", "enable", "disable", "rename"}

Changed(row, change) ==
  CASE change = "connection" ->
         [row EXCEPT !.revision = @ + 1, !.connection = @ + 1,
                     !.lastTest = "none", !.status = "untested"]
    [] change = "enable" -> [row EXCEPT !.revision = @ + 1, !.enabled = TRUE]
    [] change = "disable" ->
         [row EXCEPT !.revision = @ + 1, !.enabled = FALSE, !.status = "disabled"]
    [] OTHER -> [row EXCEPT !.revision = @ + 1]

\* expected_revision is the row's (a stale one is refused), and a bound model is
\* not disabled.
UpdateLlm(c) ==
  /\ requests[c] = Idle
  /\ \E m \in Models, change \in Changes :
       /\ Known(m) /\ Lockable(m)
       /\ models[m].revision < RevisionBound
       /\ change = "disable" => \A n \in LlmNodes : bindings[n] /= m
       /\ models' = [models EXCEPT ![m] = Changed(@, change)]
  /\ UNCHANGED << bindings, bindingRevision, requests >>

\* test_connection reads the row and asks the provider outside any transaction;
\* the result is stored if the row's revision has not moved.
TestBegin(c) ==
  /\ requests[c] = Idle
  /\ \E m \in Models :
       /\ Known(m)
       /\ Start(c, [op |-> "test", model |-> m, revision |-> models[m].revision,
                   connection |-> models[m].connection])
  /\ UNCHANGED << models, bindings, bindingRevision >>

\* What a probe comes to: anything but a 2xx answer is a failure.
Verdicts == {"passed", "failed"}

\* Variant: whatever the test says is stored.
CurrentAnyway(test) == TRUE

StillCurrent(test) == models[test.model].revision = test.revision

Tested(row, connection, result) ==
  [row EXCEPT !.lastTest = result, !.tried = connection, !.revision = @ + 1,
              !.status = IF ~row.enabled THEN "disabled"
                         ELSE IF result = "passed" THEN "active" ELSE "unhealthy"]

TestResult(c) ==
  /\ requests[c].op = "test"
  /\ LET m == requests[c].model IN
       \/ ~StillCurrent(requests[c]) /\ UNCHANGED models
       \/ /\ StillCurrent(requests[c])
          /\ Lockable(m)
          /\ models[m].revision < RevisionBound
          /\ \E result \in Verdicts :
               models' = [models EXCEPT ![m] = Tested(@, requests[c].connection, result)]
  /\ Finish(c)
  /\ UNCHANGED << bindings, bindingRevision >>

------------------------------------------------------------------------------
\* The GET that an administrator edits: two SELECTs, the revision first.
ViewRevision(c) ==
  /\ requests[c] = Idle
  /\ Start(c, [op |-> "view", revision |-> bindingRevision])
  /\ UNCHANGED << models, bindings, bindingRevision >>

ViewBindings(c) ==
  /\ requests[c].op = "view"
  /\ Start(c, [op |-> "viewed", revision |-> requests[c].revision, shown |-> bindings])
  /\ UNCHANGED << models, bindings, bindingRevision >>

\* The PUT they send: the revision they were shown must still be the singleton's.
ReplaceBegin(c) ==
  /\ requests[c].op = "viewed"
  /\ RevisionFree
  /\ bindingRevision < BindingBound
  /\ IF requests[c].revision = bindingRevision
       THEN \E S \in SUBSET LlmNodes : \E wanted \in [S -> Models] :
              Start(c, [op |-> "replace", wanted |-> wanted, unchecked |-> S,
                        shown |-> requests[c].shown])
       ELSE Finish(c)
  /\ UNCHANGED << models, bindings, bindingRevision >>

\* Each item in turn: its row is read and locked, an unusable model ends the call.
ReplaceCheck(c) ==
  /\ requests[c].op = "replace"
  /\ \E n \in requests[c].unchecked :
       IF Bindable(requests[c].wanted[n])
         THEN Start(c, [requests[c] EXCEPT !.unchecked = @ \ {n}])
         ELSE Finish(c)
  /\ UNCHANGED << models, bindings, bindingRevision >>

ReplaceCommit(c) ==
  /\ requests[c].op = "replace"
  /\ requests[c].unchecked = {}
  /\ IF DOMAIN requests[c].wanted = LlmNodes
       THEN bindings' = requests[c].wanted /\ bindingRevision' = bindingRevision + 1
       ELSE UNCHANGED << bindings, bindingRevision >>
  /\ Finish(c)
  /\ UNCHANGED models

\* The import adds its model unless it is there, and counts the bindings before
\* it takes any lock.  Its row is not seen before it commits; a second import
\* that wants to insert it waits for the first, and fails.
ImportBegin(c) ==
  /\ requests[c] = Idle
  /\ \A d \in Callers : requests[d].op /= "import"
  /\ Start(c, [op |-> "import", binds |-> \A n \in LlmNodes : bindings[n] = Unbound])
  /\ UNCHANGED << models, bindings, bindingRevision >>

ImportCommit(c) ==
  /\ requests[c].op = "import"
  /\ models' = IF Known(ImportedModel) THEN models
               ELSE [models EXCEPT ![ImportedModel] = NewModel]
  /\ IF requests[c].binds
       THEN /\ RevisionFree
            /\ bindingRevision < BindingBound
            /\ bindings' = [n \in LlmNodes |->
                 IF bindings[n] = Unbound THEN ImportedModel ELSE bindings[n]]
            /\ bindingRevision' = bindingRevision + 1
       ELSE UNCHANGED << bindings, bindingRevision >>
  /\ Finish(c)

\* A reply's thread reads the binding, then the model, which must be usable.
ResolveBinding(c) ==
  /\ requests[c] = Idle
  /\ \E n \in LlmNodes :
       /\ bindings[n] /= Unbound
       /\ Start(c, [op |-> "resolve", node |-> n, model |-> bindings[n]])
  /\ UNCHANGED << models, bindings, bindingRevision >>

ResolveModel(c) ==
  /\ requests[c].op = "resolve"
  /\ IF Bindable(requests[c].model)
       THEN Start(c, [op |-> "serving", model |-> requests[c].model,
                      connection |-> models[requests[c].model].connection,
                      tried |-> models[requests[c].model].tried])
       ELSE Finish(c)
  /\ UNCHANGED << models, bindings, bindingRevision >>

\* The model has answered the reply, or the administrator has left the page.
Answered(c) ==
  /\ requests[c].op \in {"serving", "viewed"}
  /\ Finish(c)
  /\ UNCHANGED << models, bindings, bindingRevision >>

NodesNext ==
  \E c \in Callers :
    \/ CreateLlm(c) \/ UpdateLlm(c) \/ TestBegin(c) \/ TestResult(c)
    \/ ViewRevision(c) \/ ViewBindings(c)
    \/ ReplaceBegin(c) \/ ReplaceCheck(c) \/ ReplaceCommit(c)
    \/ ImportBegin(c) \/ ImportCommit(c)
    \/ ResolveBinding(c) \/ ResolveModel(c) \/ Answered(c)

NodesSpec == NodesInit /\ [][NodesNext]_nodesVars

------------------------------------------------------------------------------
\* Types of the tables and of what a call holds.
ModelRow ==
  [ enabled : BOOLEAN, status : {"absent", "untested", "active", "unhealthy", "disabled"},
    lastTest : {"none", "passed", "failed"}, revision : Nat, connection : Nat, tried : Nat ]

CallsOf ==
  {Idle}
    \cup [op : {"test"}, model : Models, revision : Nat, connection : Nat]
    \cup [op : {"view"}, revision : Nat]
    \cup [op : {"viewed"}, revision : Nat, shown : [LlmNodes -> Models \cup {Unbound}]]
    \cup (UNION {[op : {"replace"}, wanted : [S -> Models], unchecked : SUBSET S,
                 shown : [LlmNodes -> Models \cup {Unbound}]] : S \in SUBSET LlmNodes})
    \cup [op : {"import"}, binds : BOOLEAN]
    \cup [op : {"resolve"}, node : LlmNodes, model : Models]
    \cup [op : {"serving"}, model : Models, connection : Nat, tried : Nat]

\* Types: the rows, the bindings and every call's record.
NodesTypeOK ==
  /\ models \in [Models -> ModelRow]
  /\ bindings \in [LlmNodes -> Models \cup {Unbound}]
  /\ bindingRevision \in Nat
  /\ requests \in [Callers -> CallsOf]

\* A model that serves a node is enabled: neither the row lock of an update nor
\* the shared lock of a replacement is enough by itself, whatever they overlap.
BoundIsEnabled ==
  \A n \in LlmNodes : bindings[n] /= Unbound => models[bindings[n]].enabled

\* A passed test is about the key and the connection the row has now: a test
\* that was under way while they changed is refused.
PassedIsCurrent ==
  \A m \in Models :
    models[m].lastTest = "passed" => models[m].tried = models[m].connection

\* The nodes are bound together: none is ever served while another is not, even
\* by an import that counted the bindings before a replacement.
BoundTogether ==
  \/ \A n \in LlmNodes : bindings[n] = Unbound
  \/ \A n \in LlmNodes : bindings[n] /= Unbound

\* A replacement overwrites only the bindings its administrator was shown,
\* although GET reads the revision and the bindings in two statements.
NoBlindReplacement ==
  [][\A c \in Callers :
       requests[c].op = "replace" /\ bindings' /= bindings /\ requests'[c] = Idle
         => bindings = requests[c].shown]_nodesVars

\* What a reply calls a model with was tested as it is, even when the model is
\* changed or disabled between the two SELECTs or while the model answers.
ServesTested ==
  \A c \in Callers :
    requests[c].op = "serving" => requests[c].tried = requests[c].connection
=============================================================================
