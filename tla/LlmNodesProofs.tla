--------------------------- MODULE LlmNodesProofs ---------------------------
(***************************************************************************)
(* Theorems about LlmNodes, for every set of models and threads.           *)
(*                                                                         *)
(* The argument: at most one replacement runs (OneReplacement), and while  *)
(* it does the bindings are those its administrator saw and the models it  *)
(* has checked stay bindable, because their rows are locked (CallOK).  The *)
(* import's model is bound from the moment its row is there (Imported), so *)
(* an import binds only a row it has just made.  A test that may still be  *)
(* stored was made with the row's connection.                              *)
(***************************************************************************)
EXTENDS LlmNodes, TLAPS

USE ModelsAssumption

OneReplacement ==
  \A c, d \in Callers : HoldsRevision(c) /\ HoldsRevision(d) => c = d

AllBound == \A n \in LlmNodes : bindings[n] # Unbound

\* What a call knows, under its locks or by the revision it has read.
CallOK(call) ==
  /\ call.op = "replace" =>
       /\ call.shown = bindings
       /\ \A n \in DOMAIN call.wanted \ call.unchecked : Bindable(call.wanted[n])
  /\ call.op \in {"view", "viewed"} => call.revision <= bindingRevision
  /\ call.op = "viewed" /\ call.revision = bindingRevision => call.shown = bindings
  /\ call.op = "test" =>
       LET row == models[call.model] IN
       /\ Known(call.model) /\ call.revision <= row.revision
       /\ call.revision = row.revision => call.connection = row.connection
  /\ call.op = "import" /\ ~call.binds => AllBound
  /\ call.op = "serving" => call.tried = call.connection

Imported == Known(ImportedModel) => AllBound

AbsentIsNew == \A m \in Models : ~Known(m) => models[m] = Absent

NodesInv ==
  /\ NodesTypeOK /\ OneReplacement /\ Imported /\ AbsentIsNew
  /\ \A c \in Callers : CallOK(requests[c])
  /\ BoundIsEnabled /\ PassedIsCurrent /\ BoundTogether

-----------------------------------------------------------------------------
(***************************************************************************)
(* Rows and calls                                                          *)
(***************************************************************************)
LEMMA Rows ==
  /\ Absent \in ModelRow /\ NewModel \in ModelRow
  /\ NewModel.enabled /\ NewModel.status = "untested" /\ NewModel.lastTest = "none"
BY DEF Absent, NewModel, ModelRow

\* No change disables a row but `disable`; one of the connection forgets its test.
LEMMA ChangedRow ==
  ASSUME NEW row \in ModelRow, row.status # "absent", NEW change \in Changes
  PROVE  LET new == Changed(row, change) IN
         /\ new \in ModelRow /\ new.status # "absent"
         /\ new.revision = row.revision + 1
         /\ change # "disable" /\ row.enabled => new.enabled
         /\ new.lastTest = "passed" =>
              row.lastTest = "passed" /\ new.connection = row.connection /\ new.tried = row.tried
<1>0. /\ row.enabled \in BOOLEAN /\ row.status \in {"untested", "active", "unhealthy", "disabled"}
      /\ row.lastTest \in {"none", "passed", "failed"}
      /\ row.revision \in Nat /\ row.connection \in Nat /\ row.tried \in Nat
  BY DEF ModelRow
<1>1. CASE change = "connection"
  <2>1. Changed(row, change) = [row EXCEPT !.revision = row.revision + 1,
          !.connection = row.connection + 1, !.lastTest = "none", !.status = "untested"]
    BY <1>1 DEF Changed
  <2>2. Changed(row, change) =
          [enabled |-> row.enabled, status |-> "untested", lastTest |-> "none",
           revision |-> row.revision + 1, connection |-> row.connection + 1, tried |-> row.tried]
    BY <2>1 DEF ModelRow
  <2>3. QED
    BY <1>0, <2>2, <1>1 DEF ModelRow
<1>2. CASE change = "enable"
  <2>1. Changed(row, change) = [row EXCEPT !.revision = row.revision + 1, !.enabled = TRUE]
    BY <1>2 DEF Changed
  <2>2. Changed(row, change) =
          [enabled |-> TRUE, status |-> row.status, lastTest |-> row.lastTest,
           revision |-> row.revision + 1, connection |-> row.connection, tried |-> row.tried]
    BY <2>1 DEF ModelRow
  <2>3. QED
    BY <1>0, <2>2, <1>2 DEF ModelRow
<1>3. CASE change = "disable"
  <2>1. Changed(row, change) = [row EXCEPT !.revision = row.revision + 1, !.enabled = FALSE,
                                          !.status = "disabled"]
    BY <1>3 DEF Changed
  <2>2. Changed(row, change) =
          [enabled |-> FALSE, status |-> "disabled", lastTest |-> row.lastTest,
           revision |-> row.revision + 1, connection |-> row.connection, tried |-> row.tried]
    BY <2>1 DEF ModelRow
  <2>3. QED
    BY <1>0, <2>2, <1>3 DEF ModelRow
<1>4. CASE change = "rename"
  <2>1. Changed(row, change) = [row EXCEPT !.revision = row.revision + 1]
    BY <1>4 DEF Changed
  <2>2. Changed(row, change) =
          [enabled |-> row.enabled, status |-> row.status, lastTest |-> row.lastTest,
           revision |-> row.revision + 1, connection |-> row.connection, tried |-> row.tried]
    BY <2>1 DEF ModelRow
  <2>3. QED
    BY <1>0, <2>2, <1>4 DEF ModelRow
<1>5. QED
  BY <1>1, <1>2, <1>3, <1>4 DEF Changes

LEMMA TestedRow ==
  ASSUME NEW row \in ModelRow, row.status # "absent", NEW k \in Nat, NEW result \in Verdicts
  PROVE  LET new == Tested(row, k, result) IN
         /\ new \in ModelRow /\ new.status # "absent"
         /\ new.revision = row.revision + 1
         /\ new.enabled = row.enabled
         /\ new.connection = row.connection /\ new.tried = k
<1>0. /\ row.enabled \in BOOLEAN /\ row.status \in {"untested", "active", "unhealthy", "disabled"}
      /\ row.lastTest \in {"none", "passed", "failed"}
      /\ row.revision \in Nat /\ row.connection \in Nat /\ row.tried \in Nat
  BY DEF ModelRow
<1>1. PICK s \in {"disabled", "active", "unhealthy"} :
        Tested(row, k, result) =
          [row EXCEPT !.lastTest = result, !.tried = k, !.revision = row.revision + 1, !.status = s]
  BY DEF Tested
<1>2. Tested(row, k, result) =
        [enabled |-> row.enabled, status |-> s, lastTest |-> result,
         revision |-> row.revision + 1, connection |-> row.connection, tried |-> k]
  BY <1>1 DEF ModelRow
<1>3. QED
  BY <1>0, <1>2 DEF ModelRow, Verdicts

\* What a call of each operation carries.
LEMMA Calls ==
  ASSUME NEW call \in CallsOf
  PROVE  /\ call.op \in {"idle", "test", "view", "viewed", "replace", "import", "resolve", "serving"}
         /\ call.op = "idle" => call = Idle
         /\ call.op = "test" =>
              call.model \in Models /\ call.revision \in Nat /\ call.connection \in Nat
         /\ call.op \in {"view", "viewed"} => call.revision \in Nat
         /\ call.op \in {"viewed", "replace"} =>
              call.shown \in [LlmNodes -> Models \cup {Unbound}]
         /\ call.op = "replace" =>
              /\ DOMAIN call.wanted \subseteq LlmNodes
              /\ call.wanted \in [DOMAIN call.wanted -> Models]
              /\ call.unchecked \subseteq DOMAIN call.wanted
         /\ call.op = "import" => call.binds \in BOOLEAN
         /\ call.op = "resolve" => call.node \in LlmNodes /\ call.model \in Models
         /\ call.op = "serving" =>
              call.model \in Models /\ call.connection \in Nat /\ call.tried \in Nat
<1>1. CASE call = Idle
  BY <1>1 DEF Idle
<1>2. CASE call \in [op : {"test"}, model : Models, revision : Nat, connection : Nat]
  BY <1>2
<1>3. CASE call \in [op : {"view"}, revision : Nat]
  BY <1>3
<1>4. CASE call \in [op : {"viewed"}, revision : Nat, shown : [LlmNodes -> Models \cup {Unbound}]]
  BY <1>4
<1>5. CASE call \in (UNION {[op : {"replace"}, wanted : [S -> Models], unchecked : SUBSET S,
                 shown : [LlmNodes -> Models \cup {Unbound}]] : S \in SUBSET LlmNodes})
  <2>1. PICK S \in SUBSET LlmNodes :
          call \in [op : {"replace"}, wanted : [S -> Models], unchecked : SUBSET S,
                    shown : [LlmNodes -> Models \cup {Unbound}]]
    BY <1>5
  <2>2. call.op = "replace" /\ call.wanted \in [S -> Models] /\ call.unchecked \subseteq S
        /\ call.shown \in [LlmNodes -> Models \cup {Unbound}]
    BY <2>1
  <2>3. DOMAIN call.wanted = S
    BY <2>2
  <2>4. QED
    BY <2>2, <2>3
<1>6. CASE call \in [op : {"import"}, binds : BOOLEAN]
  BY <1>6
<1>7. CASE call \in [op : {"resolve"}, node : LlmNodes, model : Models]
  BY <1>7
<1>8. CASE call \in [op : {"serving"}, model : Models, connection : Nat, tried : Nat]
  BY <1>8
<1>9. QED
  BY <1>1, <1>2, <1>3, <1>4, <1>5, <1>6, <1>7, <1>8 DEF CallsOf

-----------------------------------------------------------------------------
(***************************************************************************)
(* The invariant is inductive                                              *)
(***************************************************************************)
LEMMA NodesInitInv == NodesInit => NodesInv
<1> SUFFICES ASSUME NodesInit PROVE NodesInv
  OBVIOUS
<1>1. NodesTypeOK
  BY Rows DEF NodesInit, NodesTypeOK, CallsOf
<1>2. \A c \in Callers : requests[c].op = "idle"
  BY DEF NodesInit, Idle
<1>3. \A m \in Models : models[m].lastTest = "none" /\ ~Known(m) /\ models[m] = Absent
  BY DEF NodesInit, Absent, Known
<1>4. \A n \in LlmNodes : bindings[n] = Unbound
  BY DEF NodesInit
<1>5. QED
  BY <1>1, <1>2, <1>3, <1>4 DEF NodesInv, OneReplacement, HoldsRevision, Imported, AbsentIsNew,
     CallOK, BoundIsEnabled, PassedIsCurrent, BoundTogether

\* A step of one call that leaves the tables as they are.
LEMMA QuietStep ==
  ASSUME NodesInv, UNCHANGED << models, bindings, bindingRevision >>,
         NEW c \in Callers, NEW call \in CallsOf, CallOK(call), Start(c, call),
         call.op = "replace" => RevisionFree \/ HoldsRevision(c)
  PROVE  NodesInv'
<1>1. requests' \in [Callers -> CallsOf] /\ requests'[c] = call
      /\ \A d \in Callers : d # c => requests'[d] = requests[d]
  BY DEF NodesInv, NodesTypeOK, Start
<1>2. NodesTypeOK'
  BY <1>1 DEF NodesInv, NodesTypeOK
<1>3. OneReplacement'
  BY <1>1 DEF NodesInv, OneReplacement, HoldsRevision, RevisionFree
<1>4. \A d \in Callers : CallOK(requests'[d])
  BY <1>1 DEF NodesInv
<1>5. \A x : CallOK(x)' = CallOK(x)
  BY DEF CallOK, Known, Bindable, AllBound
<1>6. QED
  BY <1>2, <1>3, <1>4, <1>5 DEF NodesInv, Imported, AbsentIsNew, Known, AllBound,
     BoundIsEnabled, PassedIsCurrent, BoundTogether

LEMMA IdleCall == Idle \in CallsOf /\ Idle.op = "idle" /\ CallOK(Idle)
BY DEF Idle, CallsOf, CallOK

LEMMA QuietActions ==
  ASSUME NodesInv, NEW c \in Callers,
         \/ TestBegin(c) \/ ViewRevision(c) \/ ViewBindings(c) \/ ReplaceBegin(c)
         \/ ReplaceCheck(c) \/ ImportBegin(c) \/ ResolveBinding(c) \/ ResolveModel(c)
         \/ Answered(c)
  PROVE  NodesInv'
<1>0. /\ requests[c] \in CallsOf /\ CallOK(requests[c])
      /\ models \in [Models -> ModelRow] /\ bindings \in [LlmNodes -> Models \cup {Unbound}]
      /\ bindingRevision \in Nat
  BY DEF NodesInv, NodesTypeOK
<1>1. ASSUME Start(c, Idle), UNCHANGED << models, bindings, bindingRevision >>
      PROVE  NodesInv'
  BY <1>1, IdleCall, QuietStep
<1>2. CASE TestBegin(c)
  <2>1. PICK m \in Models :
          Known(m) /\ Start(c, [op |-> "test", model |-> m, revision |-> models[m].revision,
                               connection |-> models[m].connection])
    BY <1>2 DEF TestBegin
  <2> DEFINE x == [op |-> "test", model |-> m, revision |-> models[m].revision,
                   connection |-> models[m].connection]
  <2>2. x \in CallsOf
    BY <1>0 DEF CallsOf, ModelRow
  <2>3. CallOK(x)
    BY <1>0, <2>1 DEF CallOK, ModelRow
  <2>4. QED
    BY <1>2, <2>1, <2>2, <2>3, QuietStep DEF TestBegin
<1>3. CASE ViewRevision(c)
  <2> DEFINE x == [op |-> "view", revision |-> bindingRevision]
  <2>1. x \in CallsOf
    BY <1>0 DEF CallsOf
  <2>2. CallOK(x)
    BY <1>0 DEF CallOK
  <2>3. QED
    BY <1>3, <2>1, <2>2, QuietStep DEF ViewRevision
<1>4. CASE ViewBindings(c)
  <2> DEFINE x == [op |-> "viewed", revision |-> requests[c].revision, shown |-> bindings]
  <2>1. requests[c].op = "view" /\ requests[c].revision \in Nat
        /\ requests[c].revision <= bindingRevision
    BY <1>0, <1>4, Calls DEF ViewBindings, CallOK
  <2>2. x \in CallsOf
    BY <1>0, <2>1 DEF CallsOf
  <2>3. CallOK(x)
    BY <1>0, <2>1 DEF CallOK
  <2>4. QED
    BY <1>4, <2>2, <2>3, QuietStep DEF ViewBindings
<1>5. CASE ReplaceBegin(c)
  <2>1. CASE requests[c].revision = bindingRevision
    <3>1. PICK S \in SUBSET LlmNodes : \E wanted \in [S -> Models] :
            Start(c, [op |-> "replace", wanted |-> wanted, unchecked |-> S,
                      shown |-> requests[c].shown])
      BY <1>5, <2>1 DEF ReplaceBegin
    <3>2. PICK wanted \in [S -> Models] :
            Start(c, [op |-> "replace", wanted |-> wanted, unchecked |-> S,
                      shown |-> requests[c].shown])
      BY <3>1
    <3> DEFINE x == [op |-> "replace", wanted |-> wanted, unchecked |-> S,
                     shown |-> requests[c].shown]
    <3>3. requests[c].op = "viewed" /\ requests[c].shown = bindings
      BY <1>0, <1>5, <2>1 DEF ReplaceBegin, CallOK
    <3>4. x \in CallsOf
      BY <1>0, <3>3 DEF CallsOf
    <3>5. CallOK(x)
      BY <3>3 DEF CallOK
    <3>6. QED
      BY <1>5, <3>2, <3>4, <3>5, QuietStep DEF ReplaceBegin
  <2>2. CASE requests[c].revision # bindingRevision
    BY <1>1, <1>5, <2>2 DEF ReplaceBegin, Finish
  <2>3. QED
    BY <2>1, <2>2
<1>6. CASE ReplaceCheck(c)
  <2>1. PICK n \in requests[c].unchecked :
          IF Bindable(requests[c].wanted[n])
            THEN Start(c, [requests[c] EXCEPT !.unchecked = @ \ {n}])
            ELSE Finish(c)
    BY <1>6 DEF ReplaceCheck
  <2>2. CASE ~Bindable(requests[c].wanted[n])
    BY <1>1, <1>6, <2>1, <2>2 DEF ReplaceCheck, Finish
  <2>3. CASE Bindable(requests[c].wanted[n])
    <3> DEFINE x == [requests[c] EXCEPT !.unchecked = @ \ {n}]
    <3>1. requests[c].op = "replace" /\ HoldsRevision(c)
      BY <1>6 DEF ReplaceCheck, HoldsRevision
    <3>2. PICK S \in SUBSET LlmNodes :
            requests[c] \in [op : {"replace"}, wanted : [S -> Models], unchecked : SUBSET S,
                            shown : [LlmNodes -> Models \cup {Unbound}]]
      BY <1>0, <3>1 DEF CallsOf, Idle
    <3>3. x \in [op : {"replace"}, wanted : [S -> Models], unchecked : SUBSET S,
                 shown : [LlmNodes -> Models \cup {Unbound}]]
      BY <3>2
    <3>4. x \in CallsOf
      BY <3>3 DEF CallsOf
    <3>5. /\ x.op = "replace" /\ x.shown = requests[c].shown /\ x.wanted = requests[c].wanted
          /\ x.unchecked = requests[c].unchecked \ {n}
      BY <3>1, <3>2
    <3>6. CallOK(x)
      BY <1>0, <2>3, <3>1, <3>5 DEF CallOK
    <3>7. Start(c, x)
      BY <2>1, <2>3
    <3>8. QED
      BY <1>6, <3>1, <3>4, <3>6, <3>7, QuietStep DEF ReplaceCheck
  <2>4. QED
    BY <2>2, <2>3
<1>7. CASE ImportBegin(c)
  <2> DEFINE x == [op |-> "import", binds |-> \A n \in LlmNodes : bindings[n] = Unbound]
  <2>1. x \in CallsOf
    BY DEF CallsOf
  <2>2. ~x.binds => AllBound
    BY DEF NodesInv, BoundTogether, AllBound
  <2>3. CallOK(x)
    BY <2>2 DEF CallOK
  <2>4. QED
    BY <1>7, <2>1, <2>3, QuietStep DEF ImportBegin
<1>8. CASE ResolveBinding(c)
  <2>1. PICK n \in LlmNodes :
          bindings[n] # Unbound /\ Start(c, [op |-> "resolve", node |-> n, model |-> bindings[n]])
    BY <1>8 DEF ResolveBinding
  <2> DEFINE x == [op |-> "resolve", node |-> n, model |-> bindings[n]]
  <2>2. x \in CallsOf
    BY <1>0, <2>1 DEF CallsOf
  <2>3. CallOK(x)
    BY DEF CallOK
  <2>4. QED
    BY <1>8, <2>1, <2>2, <2>3, QuietStep DEF ResolveBinding
<1>9. CASE ResolveModel(c)
  <2>1. CASE ~Bindable(requests[c].model)
    BY <1>1, <1>9, <2>1 DEF ResolveModel, Finish
  <2>2. CASE Bindable(requests[c].model)
    <3> DEFINE m == requests[c].model
               x == [op |-> "serving", model |-> m, connection |-> models[m].connection,
                     tried |-> models[m].tried]
    <3>1. m \in Models /\ models[m] \in ModelRow
      BY <1>0, <1>9, Calls DEF ResolveModel
    <3>2. models[m].tried = models[m].connection
      BY <2>2, <3>1 DEF NodesInv, PassedIsCurrent, Bindable
    <3>3. x \in CallsOf
      BY <3>1 DEF CallsOf, ModelRow
    <3>4. CallOK(x)
      BY <3>2 DEF CallOK
    <3>5. Start(c, x)
      BY <1>9, <2>2 DEF ResolveModel
    <3>6. QED
      BY <1>9, <3>3, <3>4, <3>5, QuietStep DEF ResolveModel
  <2>3. QED
    BY <2>1, <2>2
<1>10. CASE Answered(c)
  BY <1>1, <1>10 DEF Answered, Finish
<1>11. QED
  BY <1>2, <1>3, <1>4, <1>5, <1>6, <1>7, <1>8, <1>9, <1>10

\* A step that writes one row, which no replacement has locked.
LEMMA RowStep ==
  ASSUME NodesInv, UNCHANGED << bindings, bindingRevision >>,
         NEW m \in Models, NEW new \in ModelRow,
         models' = [models EXCEPT ![m] = new], new.status # "absent",
         new.revision > models[m].revision, Lockable(m),
         models[m].enabled => new.enabled \/ \A n \in LlmNodes : bindings[n] # m,
         m = ImportedModel => Known(m),
         new.lastTest = "passed" => new.tried = new.connection,
         requests' \in [Callers -> CallsOf],
         \A c \in Callers : requests'[c] = requests[c] \/ requests'[c] = Idle
  PROVE  NodesInv'
<1>1. /\ models' \in [Models -> ModelRow] /\ models'[m] = new
      /\ \A k \in Models \ {m} : models'[k] = models[k]
  BY DEF NodesInv, NodesTypeOK
<1>2. NodesTypeOK'
  BY <1>1 DEF NodesInv, NodesTypeOK
<1>3. \A c \in Callers : requests'[c].op # "idle" => requests'[c] = requests[c]
  BY DEF Idle
<1>4. OneReplacement'
  BY <1>3 DEF NodesInv, OneReplacement, HoldsRevision
<1>5. Imported' /\ AbsentIsNew' /\ BoundTogether'
  BY <1>1 DEF NodesInv, Imported, AbsentIsNew, BoundTogether, AllBound, Known
<1>6. BoundIsEnabled'
  BY <1>1 DEF NodesInv, NodesTypeOK, BoundIsEnabled
<1>7. PassedIsCurrent'
  BY <1>1 DEF NodesInv, PassedIsCurrent
<1>8. ASSUME NEW c \in Callers
      PROVE  CallOK(requests[c])'
  <2>1. CASE requests'[c] = Idle
    BY <2>1 DEF CallOK, Idle
  <2>2. CASE requests'[c] = requests[c]
    <3>1. requests[c] \in CallsOf /\ CallOK(requests[c])
      BY DEF NodesInv, NodesTypeOK
    <3>2. CASE requests[c].op = "replace"
      <4>1. \A n \in DOMAIN requests[c].wanted \ requests[c].unchecked :
              requests[c].wanted[n] \in Models \ {m}
        BY <3>1, <3>2, Calls DEF Lockable, SharedBy
      <4>2. \A n \in DOMAIN requests[c].wanted \ requests[c].unchecked :
              Bindable(requests[c].wanted[n])'
        BY <1>1, <2>2, <3>1, <3>2, <4>1 DEF CallOK, Bindable
      <4>3. QED
        BY <2>2, <3>1, <3>2, <4>2 DEF CallOK
    <3>3. CASE requests[c].op = "test"
      <4>1. requests[c].model \in Models /\ requests[c].revision \in Nat
        BY <3>1, <3>3, Calls
      <4>2. /\ Known(requests[c].model) /\ requests[c].revision <= models[requests[c].model].revision
            /\ requests[c].revision = models[requests[c].model].revision =>
                 requests[c].connection = models[requests[c].model].connection
        BY <3>1, <3>3 DEF CallOK
      <4>3. models[m].revision \in Nat /\ new.revision \in Nat
        BY DEF NodesInv, NodesTypeOK, ModelRow
      <4>4. QED
        BY <1>1, <2>2, <3>3, <4>1, <4>2, <4>3 DEF CallOK, Known
    <3>4. CASE requests[c].op \notin {"replace", "test"}
      BY <2>2, <3>1, <3>4 DEF CallOK, AllBound
    <3>5. QED
      BY <3>2, <3>3, <3>4
  <2>3. QED
    BY <2>1, <2>2
<1>9. QED
  BY <1>2, <1>4, <1>5, <1>6, <1>7, <1>8 DEF NodesInv

LEMMA RowActions ==
  ASSUME NodesInv, NEW c \in Callers, CreateLlm(c) \/ UpdateLlm(c) \/ TestResult(c)
  PROVE  NodesInv'
<1>0. requests[c] \in CallsOf /\ CallOK(requests[c]) /\ requests \in [Callers -> CallsOf]
      /\ models \in [Models -> ModelRow]
  BY DEF NodesInv, NodesTypeOK
<1>1. CASE CreateLlm(c)
  <2>1. PICK m \in Models \ {ImportedModel} :
          ~Known(m) /\ models' = [models EXCEPT ![m] = NewModel]
    BY <1>1 DEF CreateLlm
  <2>2. models[m] = Absent
    BY <2>1 DEF NodesInv, AbsentIsNew
  <2>3. NewModel.revision = 1 /\ Absent.revision = 0 /\ ~Absent.enabled
        /\ Absent.lastTest = "none"
    BY DEF NewModel, Absent
  <2>4. Lockable(m)
    <3>1. SUFFICES ASSUME NEW d \in Callers, m \in SharedBy(d) PROVE FALSE
      BY DEF Lockable
    <3>2. requests[d].op = "replace"
      BY <3>1 DEF SharedBy
    <3>3. PICK n \in DOMAIN requests[d].wanted \ requests[d].unchecked : m = requests[d].wanted[n]
      BY <3>1, <3>2 DEF SharedBy
    <3>4. Bindable(m)
      BY <3>2, <3>3 DEF NodesInv, CallOK
    <3>5. QED
      BY <2>2, <2>3, <3>4 DEF Bindable
  <2>5. UNCHANGED << bindings, bindingRevision, requests >>
    BY <1>1 DEF CreateLlm
  <2>6. NewModel.revision > models[m].revision /\ ~models[m].enabled
        /\ NewModel \in ModelRow /\ NewModel.status # "absent" /\ NewModel.lastTest # "passed"
    BY <2>2, <2>3, Rows
  <2>7. QED
    BY <1>0, <2>1, <2>4, <2>5, <2>6, RowStep
<1>2. CASE UpdateLlm(c)
  <2>1. PICK m \in Models, change \in Changes :
          /\ Known(m) /\ Lockable(m)
          /\ change = "disable" => \A n \in LlmNodes : bindings[n] # m
          /\ models' = [models EXCEPT ![m] = Changed(models[m], change)]
    BY <1>2 DEF UpdateLlm
  <2> DEFINE new == Changed(models[m], change)
  <2>2. /\ new \in ModelRow /\ new.status # "absent"
        /\ new.revision = models[m].revision + 1
        /\ change # "disable" /\ models[m].enabled => new.enabled
        /\ new.lastTest = "passed" =>
             models[m].lastTest = "passed" /\ new.connection = models[m].connection
               /\ new.tried = models[m].tried
    BY <1>0, <2>1, ChangedRow DEF Known
  <2>3. models[m].revision \in Nat
    BY <1>0 DEF ModelRow
  <2>4. new.revision > models[m].revision
    BY <2>2, <2>3
  <2>5. models[m].enabled => new.enabled \/ \A n \in LlmNodes : bindings[n] # m
    BY <2>1, <2>2
  <2>6. new.lastTest = "passed" => new.tried = new.connection
    BY <2>2 DEF NodesInv, PassedIsCurrent
  <2> HIDE DEF new
  <2>7. models' = [models EXCEPT ![m] = new]
    BY <2>1 DEF new
  <2>8. QED
    BY <1>0, <1>2, <2>1, <2>2, <2>4, <2>5, <2>6, <2>7, RowStep DEF UpdateLlm
<1>3. CASE TestResult(c)
  <2> DEFINE m == requests[c].model
  <2>1. m \in Models /\ requests[c].connection \in Nat /\ requests[c].op = "test"
        /\ requests[c].revision \in Nat
    BY <1>0, <1>3, Calls DEF TestResult
  <2>2. Known(m)
        /\ (requests[c].revision = models[m].revision =>
             requests[c].connection = models[m].connection)
    BY <1>0, <2>1 DEF CallOK
  <2>3. /\ requests' \in [Callers -> CallsOf]
        /\ \A d \in Callers : requests'[d] = requests[d] \/ requests'[d] = Idle
    BY <1>0, <1>3, IdleCall DEF TestResult, Finish, Start
  <2>4. CASE UNCHANGED models
    BY <1>3, <2>4, IdleCall, QuietStep DEF TestResult, Finish
  <2>5. CASE ~UNCHANGED models
    <3>1. PICK result \in Verdicts :
            /\ StillCurrent(requests[c]) /\ Lockable(m)
            /\ models' = [models EXCEPT ![m] = Tested(models[m], requests[c].connection, result)]
      BY <1>3, <2>5 DEF TestResult
    <3> DEFINE new == Tested(models[m], requests[c].connection, result)
    <3>2. /\ new \in ModelRow /\ new.status # "absent"
          /\ new.revision = models[m].revision + 1
          /\ new.enabled = models[m].enabled
          /\ new.connection = models[m].connection /\ new.tried = requests[c].connection
      BY <1>0, <2>1, <2>2, TestedRow DEF Known
    <3>3. models[m].revision \in Nat
      BY <1>0, <2>1 DEF ModelRow
    <3>4. new.revision > models[m].revision
      BY <3>2, <3>3
    <3>5. new.tried = new.connection
      BY <2>2, <3>1, <3>2 DEF StillCurrent
    <3> HIDE DEF new
    <3>6. models' = [models EXCEPT ![m] = new]
      BY <3>1 DEF new
    <3>7. UNCHANGED << bindings, bindingRevision >>
      BY <1>3 DEF TestResult
    <3>8. QED
      BY <2>1, <2>2, <2>3, <3>1, <3>2, <3>4, <3>5, <3>6, <3>7, RowStep
  <2>6. QED
    BY <2>4, <2>5
<1>4. QED
  BY <1>1, <1>2, <1>3

LEMMA ReplaceCommitStep ==
  ASSUME NodesInv, NEW c \in Callers, ReplaceCommit(c)
  PROVE  NodesInv'
<1>1. /\ requests[c].op = "replace" /\ requests[c].unchecked = {}
      /\ Start(c, Idle) /\ UNCHANGED models
  BY DEF ReplaceCommit, Finish
<1>2. requests[c] \in CallsOf /\ CallOK(requests[c])
      /\ bindingRevision \in Nat /\ requests \in [Callers -> CallsOf]
  BY DEF NodesInv, NodesTypeOK
<1>3. CASE DOMAIN requests[c].wanted # LlmNodes
  BY <1>1, <1>3, IdleCall, QuietStep DEF ReplaceCommit
<1>4. CASE DOMAIN requests[c].wanted = LlmNodes
  <2>1. bindings' = requests[c].wanted /\ bindingRevision' = bindingRevision + 1
    BY <1>4 DEF ReplaceCommit
  <2>2. bindings' \in [LlmNodes -> Models] /\ \A n \in LlmNodes : Bindable(bindings'[n])
    BY <1>1, <1>2, <1>4, <2>1, Calls DEF CallOK
  <2>3. /\ requests' \in [Callers -> CallsOf] /\ requests'[c].op = "idle"
        /\ \A d \in Callers \ {c} : requests'[d] = requests[d] /\ requests[d].op # "replace"
    BY <1>1, <1>2, IdleCall DEF NodesInv, OneReplacement, HoldsRevision, Start
  <2>4. NodesTypeOK'
    BY <1>1, <1>2, <2>1, <2>2, <2>3 DEF NodesInv, NodesTypeOK
  <2>5. OneReplacement'
    BY <2>3 DEF OneReplacement, HoldsRevision
  <2>6. AllBound' /\ BoundIsEnabled'
    BY <1>1, <2>2 DEF AllBound, BoundIsEnabled, Bindable
  <2>7. ASSUME NEW d \in Callers PROVE CallOK(requests[d])'
    <3>1. CASE d = c
      BY <2>3, <3>1 DEF CallOK
    <3>2. CASE d # c
      <4>1. requests[d] \in CallsOf /\ CallOK(requests[d])
        BY DEF NodesInv, NodesTypeOK
      <4>2. requests[d].op \in {"view", "viewed"} => requests[d].revision \in Nat
        BY <4>1, Calls
      <4>3. QED
        BY <1>1, <1>2, <2>1, <2>3, <2>6, <3>2, <4>1, <4>2 DEF CallOK, Known
    <3>3. QED
      BY <3>1, <3>2
  <2>8. QED
    BY <1>1, <2>4, <2>5, <2>6, <2>7 DEF NodesInv, Imported, AbsentIsNew, Known, AllBound,
       PassedIsCurrent, BoundTogether
<1>5. QED
  BY <1>3, <1>4

LEMMA ImportCommitStep ==
  ASSUME NodesInv, NEW c \in Callers, ImportCommit(c)
  PROVE  NodesInv'
<1>1. requests[c].op = "import" /\ Start(c, Idle)
  BY DEF ImportCommit, Finish
<1>2. /\ requests[c] \in CallsOf /\ CallOK(requests[c]) /\ requests[c].binds \in BOOLEAN
      /\ bindingRevision \in Nat /\ requests \in [Callers -> CallsOf]
      /\ models \in [Models -> ModelRow] /\ bindings \in [LlmNodes -> Models \cup {Unbound}]
  BY <1>1, Calls DEF NodesInv, NodesTypeOK
<1>3. /\ requests' \in [Callers -> CallsOf] /\ requests'[c].op = "idle"
      /\ \A d \in Callers \ {c} : requests'[d] = requests[d]
  BY <1>1, <1>2, IdleCall DEF Start
<1>4. /\ models' \in [Models -> ModelRow]
      /\ \A m \in Models : Known(m) => models'[m] = models[m]
      /\ \A m \in Models \ {ImportedModel} : models'[m] = models[m]
      /\ Known(ImportedModel)' /\ (~Known(ImportedModel) => models'[ImportedModel] = NewModel)
  BY <1>2, Rows DEF ImportCommit, Known
<1>5. \A d \in Callers : requests'[d].op = "replace" =>
        requests[d].op = "replace" /\ requests'[d] = requests[d]
  BY <1>3
<1>6. OneReplacement'
  BY <1>5 DEF NodesInv, OneReplacement, HoldsRevision
<1>7. AbsentIsNew'
  BY <1>4 DEF NodesInv, AbsentIsNew, Known
<1>8. PassedIsCurrent'
  BY <1>4, Rows DEF NodesInv, PassedIsCurrent
<1>9. \A m \in Models : Bindable(m) => models'[m] = models[m] /\ Bindable(m)'
  <2>1. \A m \in Models : Bindable(m) => Known(m)
    BY DEF NodesInv, AbsentIsNew, Bindable, Absent
  <2>2. QED
    BY <1>4, <2>1 DEF Bindable
<1>10. \A n \in LlmNodes : bindings[n] # Unbound => models'[bindings[n]].enabled
  <2>1. SUFFICES ASSUME NEW n \in LlmNodes, bindings[n] # Unbound
                 PROVE  models'[bindings[n]].enabled
    OBVIOUS
  <2>2. bindings[n] \in Models /\ models[bindings[n]].enabled
    BY <1>2, <2>1 DEF NodesInv, BoundIsEnabled
  <2>3. Known(bindings[n])
    BY <2>2 DEF NodesInv, AbsentIsNew, Absent
  <2>4. QED
    BY <1>4, <2>2, <2>3
<1>11. CASE UNCHANGED << bindings, bindingRevision >> /\ AllBound
  <2>1. NodesTypeOK' /\ BoundIsEnabled' /\ Imported' /\ BoundTogether'
    BY <1>2, <1>3, <1>4, <1>10, <1>11 DEF NodesInv, NodesTypeOK, BoundIsEnabled, Imported,
       AllBound, BoundTogether
  <2>2. ASSUME NEW d \in Callers PROVE CallOK(requests[d])'
    <3>1. CASE d = c
      BY <1>3, <3>1 DEF CallOK
    <3>2. CASE d # c
      <4>1. requests[d] \in CallsOf /\ CallOK(requests[d]) /\ requests'[d] = requests[d]
        BY <1>3, <3>2 DEF NodesInv, NodesTypeOK
      <4>2. requests[d].op = "replace" =>
              \A n \in DOMAIN requests[d].wanted : requests[d].wanted[n] \in Models
        BY <4>1, Calls
      <4>3. requests[d].op = "test" => requests[d].model \in Models
        BY <4>1, Calls
      <4>4. requests[d].op = "test" =>
              models'[requests[d].model] = models[requests[d].model] /\ Known(requests[d].model)
        BY <1>4, <4>1, <4>3 DEF CallOK
      <4>5. QED
        BY <1>9, <1>11, <4>1, <4>2, <4>4 DEF CallOK, AllBound, Known
    <3>3. QED
      BY <3>1, <3>2
  <2>3. QED
    BY <1>6, <1>7, <1>8, <2>1, <2>2 DEF NodesInv
<1>12. CASE ~requests[c].binds
  BY <1>1, <1>2, <1>11, <1>12 DEF ImportCommit, CallOK
<1>13. CASE requests[c].binds
  <2>1. /\ bindings' = [n \in LlmNodes |-> IF bindings[n] = Unbound THEN ImportedModel ELSE bindings[n]]
        /\ bindingRevision' = bindingRevision + 1
        /\ \A d \in Callers : requests[d].op # "replace"
    BY <1>13 DEF ImportCommit, RevisionFree, HoldsRevision
  <2>2. bindings' \in [LlmNodes -> Models] /\ AllBound'
    BY <1>2, <2>1 DEF AllBound
  <2>3. ASSUME NEW n \in LlmNodes PROVE models'[bindings'[n]].enabled
    <3>1. CASE bindings[n] # Unbound
      BY <1>10, <2>1, <3>1
    <3>2. CASE bindings[n] = Unbound
      <4>1. ~Known(ImportedModel)
        BY <3>2 DEF NodesInv, Imported, AllBound
      <4>2. QED
        BY <1>4, <2>1, <3>2, <4>1, Rows
    <3>3. QED
      BY <3>1, <3>2
  <2>4. NodesTypeOK' /\ BoundIsEnabled' /\ Imported' /\ BoundTogether'
    BY <1>2, <1>3, <1>4, <2>1, <2>2, <2>3 DEF NodesTypeOK, BoundIsEnabled, Imported,
       AllBound, BoundTogether
  <2>5. ASSUME NEW d \in Callers PROVE CallOK(requests[d])'
    <3>1. CASE d = c
      BY <1>3, <3>1 DEF CallOK
    <3>2. CASE d # c
      <4>1. requests[d] \in CallsOf /\ CallOK(requests[d]) /\ requests'[d] = requests[d]
            /\ requests[d].op # "replace"
        BY <1>3, <2>1, <3>2 DEF NodesInv, NodesTypeOK
      <4>2. requests[d].op \in {"view", "viewed"} => requests[d].revision \in Nat
        BY <4>1, Calls
      <4>3. requests[d].op = "test" =>
              models'[requests[d].model] = models[requests[d].model] /\ Known(requests[d].model)
        BY <1>4, <4>1, Calls DEF CallOK
      <4>4. QED
        BY <1>2, <2>1, <2>2, <4>1, <4>2, <4>3 DEF CallOK, Known
    <3>3. QED
      BY <3>1, <3>2
  <2>6. QED
    BY <1>6, <1>7, <1>8, <2>4, <2>5 DEF NodesInv
<1>14. QED
  BY <1>2, <1>12, <1>13

LEMMA NodesStepInv == NodesInv /\ [NodesNext]_nodesVars => NodesInv'
<1> SUFFICES ASSUME NodesInv, [NodesNext]_nodesVars PROVE NodesInv'
  OBVIOUS
<1>1. CASE NodesNext
  BY <1>1, QuietActions, RowActions, ReplaceCommitStep, ImportCommitStep DEF NodesNext
<1>2. CASE UNCHANGED nodesVars
  BY <1>2 DEF nodesVars, NodesInv, NodesTypeOK, OneReplacement, HoldsRevision, Imported, AllBound,
     AbsentIsNew, Known, CallOK, Bindable, BoundIsEnabled, PassedIsCurrent, BoundTogether
<1>3. QED
  BY <1>1, <1>2

LEMMA NodesInvHolds == NodesSpec => []NodesInv
BY NodesInitInv, NodesStepInv, PTL DEF NodesSpec

-----------------------------------------------------------------------------
\* The tables and the calls stay in their types.
THEOREM NodesTypeCorrect == NodesSpec => []NodesTypeOK
BY NodesInvHolds, PTL DEF NodesInv

\* No disabled model is bound to a node, whatever updates, replacements and
\* imports overlap.
THEOREM BoundModelsAreEnabled == NodesSpec => []BoundIsEnabled
BY NodesInvHolds, PTL DEF NodesInv

\* A passed test is about the connection that the row has now.
THEOREM PassedTestsAreCurrent == NodesSpec => []PassedIsCurrent
BY NodesInvHolds, PTL DEF NodesInv

\* No node is served by a model while another has none.
THEOREM NodesAreBoundTogether == NodesSpec => []BoundTogether
BY NodesInvHolds, PTL DEF NodesInv

\* What a reply calls a model with has passed a test as it is.
THEOREM RepliesUseTestedModels == NodesSpec => []ServesTested
<1>1. NodesInv => ServesTested
  BY DEF NodesInv, CallOK, ServesTested
<1>2. QED
  BY <1>1, NodesInvHolds, PTL

\* A replacement changes only bindings that its administrator was shown.
THEOREM ReplacementsAreInformed == NodesSpec => NoBlindReplacement
<1>1. NodesInv => \A c \in Callers :
               requests[c].op = "replace" /\ bindings' # bindings /\ requests'[c] = Idle
                 => bindings = requests[c].shown
  BY DEF NodesInv, CallOK
<1>2. QED
  BY <1>1, NodesInvHolds, PTL DEF NoBlindReplacement
=============================================================================
