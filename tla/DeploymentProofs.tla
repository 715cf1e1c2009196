-------------------------- MODULE DeploymentProofs --------------------------
(***************************************************************************)
(* Theorems about Deployment, for any tags, whatever and how much they     *)
(* ship, and any number of runners: schema_migration records what was      *)
(* executed, and a gate that passes tells the truth about its tag.         *)
(***************************************************************************)
EXTENDS DeploymentClaims, WellFoundedInduction, TLAPS

USE ShippedAssumption

-----------------------------------------------------------------------------
(***************************************************************************)
(* What a tag ships was executed, some content of each of its files, or is *)
(* taken on trust.                                                         *)
(***************************************************************************)
Accounted(v) == executed[v] # {} \/ OnTrust(v)

Executed(t) == \A v \in DOMAIN Shipped[t] : Accounted(v)

LEMMA ShippedFiles ==
  ASSUME NEW t \in Tags
  PROVE  /\ DOMAIN Shipped[t] \subseteq Files
         /\ 1 \in DOMAIN Shipped[t]
         /\ \A v \in DOMAIN Shipped[t] :
              /\ Shipped[t][v] \in Contents
              /\ Shipped[t][v] # NoRow /\ Shipped[t][v] # NoChecksum
              /\ \A w \in 1 .. v : w \in DOMAIN Shipped[t]
<1> DEFINE n == Len(Shipped[t])
<1>1. Shipped[t] \in Seq(Contents) /\ n \in 1 .. FileCount /\ FileCount \in Nat
  BY DEF Files
<1>2. DOMAIN Shipped[t] = 1 .. n
  BY <1>1
<1>3. \A v \in DOMAIN Shipped[t] : Shipped[t][v] \in Contents
  BY <1>1, <1>2
<1> HIDE DEF n
<1>4. \A v \in 1 .. n : \A w \in 1 .. v : w \in 1 .. n
  BY <1>1
<1>5. 1 .. n \subseteq 1 .. FileCount /\ 1 \in 1 .. n
  BY <1>1
<1>6. QED
  BY <1>2, <1>3, <1>4, <1>5 DEF Files

\* The prefix of files that one database has, and the order of files.
LEMMA FilesAreOrdered ==
  /\ Files \subseteq Nat
  /\ \A v \in Files : 1 <= v /\ \A w \in 1 .. v : w \in Files /\ w <= v
BY DEF Files

(***************************************************************************)
(* A runner has executed the files of its tag that it has not before it;   *)
(* the one that it records next, too.  The pods that a hook waits for run  *)
(* its target.                                                             *)
(***************************************************************************)
RunnersKnow ==
  \A r \in JobPods :
    /\ pods[r].at \in {"execute", "record", "done"} =>
         \A v \in DOMAIN Shipped[pods[r].tag] \ pods[r].pending : Accounted(v)
    /\ pods[r].at = "record" => Shipped[pods[r].tag][NextFile(r)] \in executed[NextFile(r)]
    /\ pods[r].current => pods[r].tag = cluster.target

\* An image that a hook let through has its migrations.
ImagesAreMigrated ==
  \A t \in {cluster.template, cluster.running} : t = FirstTag \/ Executed(t)

GateKnows ==
  /\ gate.tag # FirstTag
  /\ gate.at = "secrets" => ~gate.steady
  /\ gate.steady => cluster.template = gate.tag
  /\ gate.steady /\ gate.ok /\ gate.at \in {"schema", "health", "eval", "reported"} =>
       cluster.running = cluster.template

DeploymentInv ==
  /\ DeploymentTypeOK
  /\ RecordedMeansExecuted
  /\ RunnersKnow
  /\ ImagesAreMigrated
  /\ GateKnows

LEMMA StagesOfGate ==
  /\ DOMAIN Following = {"secrets", "reset", "reconcile", "flux", "images", "rollouts", "schema"}
  /\ Following["secrets"] = {"reset", "flux"} /\ Following["reset"] = {"reconcile"}
  /\ Following["reconcile"] = {"flux"} /\ Following["flux"] = {"images"}
  /\ Following["images"] = {"rollouts"} /\ Following["rollouts"] = {"schema"}
  /\ Following["schema"] = {"health"}
BY DEF Following

LEMMA NoPodRow == NoPod \in PodRow /\ NoPod.at = "none" /\ ~NoPod.current
BY DEF NoPod, PodRow

LEMMA DeploymentInitInv == DeploymentInit => DeploymentInv
<1> SUFFICES ASSUME DeploymentInit PROVE DeploymentInv
  OBVIOUS
<1>0. /\ FirstTag \in Tags /\ Len(Shipped[FirstTag]) \in Nat
      /\ DOMAIN Shipped[FirstTag] = 1 .. Len(Shipped[FirstTag])
      /\ \A v \in DOMAIN Shipped[FirstTag] : Shipped[FirstTag][v] \in Contents
  BY ShippedFiles
<1>1. PICK n \in 0 .. Len(Shipped[FirstTag]) : \E old \in 0 .. n, lost \in BOOLEAN :
        /\ lost => old = n
        /\ recorded = [v \in Files |->
              IF v <= old THEN NoChecksum
              ELSE IF v <= n THEN Shipped[FirstTag][v] ELSE NoRow]
        /\ executed = [v \in Files |->
              IF v <= n /\ ~lost THEN {Shipped[FirstTag][v]} ELSE {}]
  BY DEF DeploymentInit
<1>a. PICK old \in 0 .. n, lost \in BOOLEAN :
        /\ lost => old = n
        /\ recorded = [v \in Files |->
              IF v <= old THEN NoChecksum
              ELSE IF v <= n THEN Shipped[FirstTag][v] ELSE NoRow]
        /\ executed = [v \in Files |->
              IF v <= n /\ ~lost THEN {Shipped[FirstTag][v]} ELSE {}]
  BY <1>1
<1>b. n \in Nat /\ old \in Nat /\ old <= n
  BY <1>0
<1>c. \A v \in Files : v <= n => Shipped[FirstTag][v] \in Contents
  BY <1>0, <1>b, FilesAreOrdered
<1>2. PICK t \in Tags \ {FirstTag} :
        gate = [at |-> "secrets", tag |-> t, ok |-> TRUE, steady |-> FALSE]
  BY DEF DeploymentInit
<1>3. pods = [r \in JobPods |-> NoPod]
  BY DEF DeploymentInit
<1>4. DeploymentTypeOK
  <2>1. recorded \in [Files -> Contents \cup {NoRow, NoChecksum}]
    BY <1>a, <1>c
  <2>2. executed \in [Files -> SUBSET Contents]
    BY <1>a, <1>c
  <2>3. pods \in [JobPods -> PodRow]
    BY <1>3, NoPodRow
  <2>4. cluster \in ClusterRow
    BY <1>0 DEF DeploymentInit, ClusterRow
  <2>5. gate \in GateRow
    BY <1>2, StagesOfGate DEF GateRow
  <2>6. QED
    BY <2>1, <2>2, <2>3, <2>4, <2>5 DEF DeploymentTypeOK
<1>5. RecordedMeansExecuted
  <2>1. NoRow \notin Contents /\ NoChecksum \notin Contents
    OBVIOUS
  <2>2. \A v \in Files : recorded[v] \in Contents => recorded[v] \in executed[v]
    BY <1>a, <1>b, <2>1, FilesAreOrdered
  <2>3. ASSUME NEW v \in Files, executed[v] # {}, NEW w \in 1 .. v
        PROVE  executed[w] # {}
    <3>1. w \in Files /\ w <= v /\ w \in Nat /\ v \in Nat
      BY FilesAreOrdered
    <3>2. v <= n /\ ~lost
      BY <1>a, <2>3
    <3>3. w <= n
      BY <1>b, <3>1, <3>2
    <3>4. QED
      BY <1>a, <3>1, <3>2, <3>3
  <2>4. QED
    BY <2>2, <2>3 DEF RecordedMeansExecuted
<1>6. RunnersKnow
  BY <1>3 DEF RunnersKnow, NoPod
<1>7. ImagesAreMigrated
  BY DEF DeploymentInit, ImagesAreMigrated
<1>8. GateKnows
  BY <1>2 DEF GateKnows
<1>9. QED
  BY <1>4, <1>5, <1>6, <1>7, <1>8 DEF DeploymentInv

LEMMA NextIsLeast ==
  ASSUME NEW r \in JobPods, pods[r].pending # {}, pods[r].pending \subseteq Files
  PROVE  NextFile(r) \in pods[r].pending /\ \A w \in pods[r].pending : NextFile(r) <= w
<1>1. PICK v \in pods[r].pending : \A w \in pods[r].pending : <<w, v>> \notin OpToRel(<, Nat)
  BY NatLessThanWellFounded, WFMin, FilesAreOrdered
<1>2. \A w \in pods[r].pending : v <= w
  <2>1. OpToRel(<, Nat) = {ss \in Nat \X Nat : ss[1] < ss[2]}
    BY DEF OpToRel
  <2>2. SUFFICES ASSUME NEW w \in pods[r].pending, ~(v <= w) PROVE FALSE
    OBVIOUS
  <2>x. v \in Nat /\ w \in Nat
    BY FilesAreOrdered
  <2>3. v \in Nat /\ w \in Nat /\ w < v
    BY <2>2, <2>x
  <2>4. <<w, v>> \in {ss \in Nat \X Nat : ss[1] < ss[2]}
    BY <2>3
  <2>5. QED
    BY <1>1, <2>1, <2>4
<1>3. QED
  BY <1>2 DEF NextFile

\* A row that counts as applied has its content, or is taken on trust.
LEMMA AppliedIsKnown ==
  ASSUME DeploymentInv, NEW v \in Applied
  PROVE  Accounted(v)
<1>1. /\ v \in Files /\ recorded[v] \in Contents \cup {NoChecksum}
      /\ recorded[v] = NoChecksum => executed[1] # {}
  BY DEF Applied, DeploymentInv, DeploymentTypeOK
<1>2. recorded[v] \in Contents => executed[v] # {}
  BY <1>1 DEF DeploymentInv, RecordedMeansExecuted
<1>3. v = 1 \/ v > 1
  BY <1>1, FilesAreOrdered
<1>4. QED
  BY <1>1, <1>2, <1>3 DEF Accounted, OnTrust

\* What was known stays known while no row loses its checksum or its content,
\* and a row gets a checksum only when its content was executed.
LEMMA KnownStays ==
  ASSUME NEW v, Accounted(v), executed[v] \subseteq executed'[v],
         recorded'[v] = recorded[v] \/ executed'[v] # {}
  PROVE  Accounted(v)'
BY DEF Accounted, OnTrust

(***************************************************************************)
(* Steps of the runners.                                                   *)
(***************************************************************************)
LEMMA WithRow ==
  ASSUME NEW pod \in PodRow, NEW stage \in {"execute", "done"}, NEW files \in SUBSET Files,
         files \subseteq DOMAIN Shipped[pod.tag], files # {} <=> stage = "execute"
  PROVE  /\ With(pod, stage, files) \in PodRow
         /\ With(pod, stage, files).at = stage
         /\ With(pod, stage, files).pending = files
         /\ With(pod, stage, files).tag = pod.tag
         /\ With(pod, stage, files).current = pod.current
<1>1. With(pod, stage, files) = [pod EXCEPT !.at = stage, !.pending = files]
  BY DEF With
<1>2. With(pod, stage, files) =
        [at |-> stage, tag |-> pod.tag, pending |-> files, current |-> pod.current]
  BY <1>1 DEF PodRow
<1>3. QED
  BY <1>2 DEF PodRow

\* A step of a runner that leaves the database and the cluster.
LEMMA PodStep ==
  ASSUME DeploymentInv, NEW r \in JobPods, NEW pod \in PodRow,
         pods' = [pods EXCEPT ![r] = pod],
         UNCHANGED <<recorded, executed, cluster, gate>>,
         pod.at # "record",
         pod.at \in {"execute", "done"} =>
           \A v \in DOMAIN Shipped[pod.tag] \ pod.pending : Accounted(v),
         pod.current => pod.tag = cluster.target
  PROVE  DeploymentInv'
<1>1. \A q \in JobPods : pods'[q] = IF q = r THEN pod ELSE pods[q]
  BY DEF DeploymentInv, DeploymentTypeOK
<1>2. DeploymentTypeOK'
  BY DEF DeploymentInv, DeploymentTypeOK
<1>3. \A q \in JobPods \ {r} : NextFile(q)' = NextFile(q)
  BY <1>1 DEF NextFile
<1>4. RunnersKnow'
  <2> SUFFICES ASSUME NEW q \in JobPods
               PROVE  RunnersKnow!(q)'
    BY DEF RunnersKnow
  <2>1. CASE q = r
    BY <1>1, <2>1 DEF Accounted, OnTrust
  <2>2. CASE q # r
    BY <1>1, <1>3, <2>2 DEF DeploymentInv, RunnersKnow, Accounted, OnTrust
  <2>3. QED
    BY <2>1, <2>2
<1>5. QED
  BY <1>2, <1>4 DEF DeploymentInv, RecordedMeansExecuted, ImagesAreMigrated,
                    Executed, Accounted, OnTrust, GateKnows

LEMMA StartPodStep ==
  ASSUME DeploymentInv, NEW r \in JobPods, StartPod(r)
  PROVE  DeploymentInv'
<1> DEFINE pod == [at |-> "read", tag |-> cluster.target, pending |-> {}, current |-> TRUE]
<1>1. /\ pods' = [pods EXCEPT ![r] = pod]
      /\ UNCHANGED <<recorded, executed, cluster, gate>>
  BY DEF StartPod
<1>2. pod \in PodRow /\ pod.at = "read" /\ pod.tag = cluster.target
  BY DEF PodRow, DeploymentInv, DeploymentTypeOK, ClusterRow
<1> HIDE DEF pod
<1>3. QED
  BY <1>1, <1>2, PodStep

LEMMA PlanStep ==
  ASSUME DeploymentInv, NEW r \in JobPods, Plan(r)
  PROVE  DeploymentInv'
<1> DEFINE t == pods[r].tag
           todo == DOMAIN Shipped[t] \ Applied
           pod == With(pods[r], IF todo = {} THEN "done" ELSE "execute", todo)
<1>1. pods[r] \in PodRow /\ t \in Tags
  BY DEF DeploymentInv, DeploymentTypeOK, PodRow
<1>2. todo \in SUBSET Files /\ todo \subseteq DOMAIN Shipped[t]
  BY <1>1, ShippedFiles
<1>3. \A v \in DOMAIN Shipped[t] \ todo : Accounted(v)
  BY AppliedIsKnown
<1>4. pods[r].current => t = cluster.target
  BY DEF DeploymentInv, RunnersKnow
<1>5. /\ pod \in PodRow /\ pod.pending = todo /\ pod.tag = t /\ pod.current = pods[r].current
      /\ pod.at = IF todo = {} THEN "done" ELSE "execute"
  <2> DEFINE stage == IF todo = {} THEN "done" ELSE "execute"
  <2>1. stage \in {"execute", "done"} /\ (todo # {} <=> stage = "execute")
    OBVIOUS
  <2>2. pod = With(pods[r], stage, todo)
    OBVIOUS
  <2> HIDE DEF stage, pod, todo
  <2>3. /\ pod \in PodRow /\ pod.pending = todo /\ pod.tag = pods[r].tag
        /\ pod.current = pods[r].current /\ pod.at = stage
    BY <1>1, <1>2, <2>1, <2>2, WithRow
  <2>4. QED
    BY <2>3 DEF stage
<1>6. UNCHANGED <<recorded, executed, cluster, gate>>
  BY DEF Plan
<1>7. pods' = [pods EXCEPT ![r] = NoPod] \/ pods' = [pods EXCEPT ![r] = pod]
  BY DEF Plan
<1> HIDE DEF todo, pod, t
<1>8. CASE pods' = [pods EXCEPT ![r] = NoPod]
  BY <1>6, <1>8, NoPodRow, PodStep
<1>9. CASE pods' = [pods EXCEPT ![r] = pod]
  BY <1>2, <1>3, <1>4, <1>5, <1>6, <1>9, PodStep
<1>10. QED
  BY <1>7, <1>8, <1>9

\* More was executed, less is recorded: what was known stays known.
LEMMA ExecuteStep ==
  ASSUME DeploymentInv, NEW r \in JobPods, ExecuteMigration(r)
  PROVE  DeploymentInv'
<1> DEFINE t == pods[r].tag
           n == NextFile(r)
           pod == [pods[r] EXCEPT !.at = "record"]
<1>1. /\ pods[r].at = "execute" /\ UNCHANGED <<recorded, cluster, gate>>
      /\ executed' = [executed EXCEPT ![n] = @ \cup {Shipped[t][n]}]
      /\ pods' = [pods EXCEPT ![r] = pod]
  BY DEF ExecuteMigration
<1>2. /\ pods[r] \in PodRow /\ t \in Tags /\ pods[r].pending \subseteq DOMAIN Shipped[t]
      /\ pods[r].pending # {} /\ DOMAIN Shipped[t] \subseteq Files
  BY <1>1, ShippedFiles DEF DeploymentInv, DeploymentTypeOK, PodRow
<1>3. n \in pods[r].pending /\ \A w \in pods[r].pending : n <= w
  BY <1>2, NextIsLeast
<1>4. n \in DOMAIN Shipped[t] /\ n \in Files /\ Shipped[t][n] \in Contents
  BY <1>2, <1>3, ShippedFiles
<1>5. /\ pod \in PodRow /\ pod.at = "record" /\ pod.pending = pods[r].pending
      /\ pod.tag = t /\ pod.current = pods[r].current
  BY <1>2 DEF PodRow
<1> HIDE DEF pod
<1>6. \A q \in JobPods : pods'[q] = IF q = r THEN pod ELSE pods[q]
  BY <1>1 DEF DeploymentInv, DeploymentTypeOK
<1>7. \A v \in Files : executed[v] \subseteq executed'[v]
  BY <1>1, <1>4 DEF DeploymentInv, DeploymentTypeOK
<1>8. Shipped[t][n] \in executed'[n] /\ \A v \in Files \ {n} : executed'[v] = executed[v]
  BY <1>1, <1>4 DEF DeploymentInv, DeploymentTypeOK
<1>9. DeploymentTypeOK'
  BY <1>1, <1>4, <1>5 DEF DeploymentInv, DeploymentTypeOK
<1>10. \A q \in JobPods : NextFile(q)' = NextFile(q)
  BY <1>5, <1>6 DEF NextFile
<1>11. \A v \in Files : Accounted(v) => Accounted(v)'
  BY <1>1, <1>7, KnownStays
<1>12. RunnersKnow'
  <2> SUFFICES ASSUME NEW q \in JobPods
               PROVE  RunnersKnow!(q)'
    BY DEF RunnersKnow
  <2>1. /\ pods[q] \in PodRow /\ pods[q].tag \in Tags
        /\ DOMAIN Shipped[pods[q].tag] \subseteq Files
    BY ShippedFiles DEF DeploymentInv, DeploymentTypeOK, PodRow
  <2>2. CASE q = r
    BY <1>1, <1>2, <1>5, <1>6, <1>8, <1>10, <1>11, <2>2 DEF DeploymentInv, RunnersKnow
  <2>3. CASE q # r
    <3>1. pods'[q] = pods[q] /\ NextFile(q)' = NextFile(q)
      BY <1>6, <1>10, <2>3
    <3>2. pods[q].at = "record" => NextFile(q) \in Files
      BY <2>1, NextIsLeast DEF PodRow
    <3>3. QED
      BY <1>1, <1>7, <1>11, <2>1, <3>1, <3>2 DEF DeploymentInv, RunnersKnow
  <2>4. QED
    BY <2>2, <2>3
<1>13. RecordedMeansExecuted'
  <2>1. \A w \in 1 .. n : Accounted(w)'
    <3> SUFFICES ASSUME NEW w \in 1 .. n, w # n PROVE Accounted(w)'
      BY <1>8 DEF Accounted
    <3>1. w \in DOMAIN Shipped[t] /\ w < n /\ n \in Nat /\ w \in Nat
      BY <1>2, <1>4, ShippedFiles, FilesAreOrdered
    <3>2. w \notin pods[r].pending
      BY <1>3, <3>1
    <3>3. Accounted(w)
      BY <1>1, <3>1, <3>2 DEF DeploymentInv, RunnersKnow
    <3>4. QED
      BY <1>2, <1>11, <3>1, <3>3
  <2>2. \A v \in Files : executed[v] # {} => \A w \in 1 .. v : Accounted(w)
    BY DEF DeploymentInv, RecordedMeansExecuted, Accounted
  <2>3. \A v \in Files : executed'[v] # {} => \A w \in 1 .. v : Accounted(w)'
    BY <1>8, <1>11, <2>1, <2>2, FilesAreOrdered
  <2>4. \A v \in Files : recorded'[v] \in Contents => recorded'[v] \in executed'[v]
    BY <1>1, <1>7 DEF DeploymentInv, RecordedMeansExecuted
  <2>5. QED
    BY <2>3, <2>4 DEF RecordedMeansExecuted, Accounted
<1>14. ImagesAreMigrated'
  <2>1. \A u \in Tags : Executed(u) => Executed(u)'
    BY <1>11, ShippedFiles DEF Executed
  <2>2. cluster.template \in Tags /\ cluster.running \in Tags
    BY DEF DeploymentInv, DeploymentTypeOK, ClusterRow
  <2>3. QED
    BY <1>1, <2>1, <2>2 DEF DeploymentInv, ImagesAreMigrated
<1>15. QED
  BY <1>1, <1>9, <1>12, <1>13, <1>14 DEF DeploymentInv, GateKnows

LEMMA RecordStep ==
  ASSUME DeploymentInv, NEW r \in JobPods, RecordMigration(r)
  PROVE  DeploymentInv'
<1> DEFINE t == pods[r].tag
           n == NextFile(r)
           left == pods[r].pending \ {n}
           pod == With(pods[r], IF pods[r].pending = {n} THEN "done" ELSE "execute", left)
<1>1. /\ pods[r].at = "record" /\ UNCHANGED <<executed, cluster, gate>>
      /\ recorded' = [recorded EXCEPT ![n] = IF @ \in Contents THEN @ ELSE Shipped[t][n]]
      /\ pods' = [pods EXCEPT ![r] = pod]
  BY DEF RecordMigration
<1>2. /\ pods[r] \in PodRow /\ t \in Tags /\ pods[r].pending \subseteq DOMAIN Shipped[t]
      /\ pods[r].pending # {} /\ DOMAIN Shipped[t] \subseteq Files
      /\ Shipped[t][n] \in executed[n]
  BY <1>1, ShippedFiles DEF DeploymentInv, DeploymentTypeOK, PodRow, RunnersKnow
<1>3. n \in pods[r].pending
  BY <1>2, NextIsLeast
<1>4. n \in Files /\ Shipped[t][n] \in Contents
  BY <1>2, <1>3, ShippedFiles
<1>5. /\ pod \in PodRow /\ pod.pending = left /\ pod.tag = t /\ pod.current = pods[r].current
      /\ pod.at = IF left = {} THEN "done" ELSE "execute"
  <2>1. /\ left \in SUBSET Files /\ left \subseteq DOMAIN Shipped[t]
        /\ pods[r].pending = {n} <=> left = {}
    BY <1>2, <1>3
  <2> DEFINE stage == IF pods[r].pending = {n} THEN "done" ELSE "execute"
  <2>2. stage \in {"execute", "done"} /\ (left # {} <=> stage = "execute")
    BY <2>1
  <2>3. pod = With(pods[r], stage, left)
    OBVIOUS
  <2> HIDE DEF stage, pod, left
  <2>4. /\ pod \in PodRow /\ pod.pending = left /\ pod.tag = pods[r].tag
        /\ pod.current = pods[r].current /\ pod.at = stage
    BY <1>2, <2>1, <2>2, <2>3, WithRow
  <2>5. QED
    BY <2>1, <2>4 DEF stage
<1>6. \A v \in DOMAIN Shipped[t] \ left : Accounted(v)
  BY <1>1, <1>2 DEF DeploymentInv, RunnersKnow, Accounted
<1>7. pods[r].current => t = cluster.target
  BY DEF DeploymentInv, RunnersKnow
<1> HIDE DEF pod, left
<1>8. \A q \in JobPods : pods'[q] = IF q = r THEN pod ELSE pods[q]
  BY <1>1 DEF DeploymentInv, DeploymentTypeOK
<1>9. DeploymentTypeOK'
  BY <1>1, <1>4, <1>5 DEF DeploymentInv, DeploymentTypeOK
<1>10. \A q \in JobPods \ {r} : NextFile(q)' = NextFile(q)
  BY <1>8 DEF NextFile
<1>11. \A v \in Files : recorded'[v] =
          IF v = n /\ recorded[v] \notin Contents THEN Shipped[t][n] ELSE recorded[v]
  BY <1>1, <1>4 DEF DeploymentInv, DeploymentTypeOK
<1>12. \A v \in Files : Accounted(v) => Accounted(v)'
  BY <1>1, <1>2, <1>11, KnownStays
<1>13. RunnersKnow'
  <2> SUFFICES ASSUME NEW q \in JobPods
               PROVE  RunnersKnow!(q)'
    BY DEF RunnersKnow
  <2>1. pods[q].tag \in Tags /\ DOMAIN Shipped[pods[q].tag] \subseteq Files
    BY ShippedFiles DEF DeploymentInv, DeploymentTypeOK, PodRow
  <2>2. CASE q = r
    BY <1>1, <1>5, <1>6, <1>7, <1>8, <1>12, <2>1, <2>2
  <2>3. CASE q # r
    BY <1>1, <1>8, <1>10, <1>12, <2>1, <2>3 DEF DeploymentInv, RunnersKnow
  <2>4. QED
    BY <2>2, <2>3
<1>14. RecordedMeansExecuted'
  <2>1. \A v \in Files : recorded'[v] \in Contents => recorded'[v] \in executed'[v]
    BY <1>1, <1>2, <1>11 DEF DeploymentInv, RecordedMeansExecuted
  <2>2. \A v \in Files : executed[v] # {} => \A w \in 1 .. v : Accounted(w)
    BY DEF DeploymentInv, RecordedMeansExecuted, Accounted
  <2>3. \A v \in Files : executed'[v] # {} => \A w \in 1 .. v : Accounted(w)'
    BY <1>1, <1>12, <2>2, FilesAreOrdered
  <2>4. QED
    BY <2>1, <2>3 DEF RecordedMeansExecuted, Accounted
<1>15. ImagesAreMigrated'
  <2>1. \A u \in Tags : Executed(u) => Executed(u)'
    BY <1>12, ShippedFiles DEF Executed
  <2>2. cluster.template \in Tags /\ cluster.running \in Tags
    BY DEF DeploymentInv, DeploymentTypeOK, ClusterRow
  <2>3. QED
    BY <1>1, <2>1, <2>2 DEF DeploymentInv, ImagesAreMigrated
<1>16. QED
  BY <1>1, <1>9, <1>13, <1>14, <1>15 DEF DeploymentInv, GateKnows

(***************************************************************************)
(* Steps of the cluster and of the gate.                                   *)
(***************************************************************************)
\* A pod that is lost has nothing to know; the others know what they knew.
LEMMA PodsStay ==
  ASSUME RunnersKnow, UNCHANGED <<recorded, executed>>, pods' \in [JobPods -> PodRow],
         \A q \in JobPods :
           \/ pods'[q] = NoPod
           \/ /\ pods'[q].at = pods[q].at /\ pods'[q].pending = pods[q].pending
              /\ pods'[q].tag = pods[q].tag
              /\ pods'[q].current => pods[q].current /\ cluster'.target = cluster.target
  PROVE  RunnersKnow'
<1> SUFFICES ASSUME NEW q \in JobPods PROVE RunnersKnow!(q)'
  BY DEF RunnersKnow
<1>1. CASE pods'[q] = NoPod
  BY <1>1 DEF NoPod
<1>2. CASE /\ pods'[q].at = pods[q].at /\ pods'[q].pending = pods[q].pending
           /\ pods'[q].tag = pods[q].tag
           /\ pods'[q].current => pods[q].current /\ cluster'.target = cluster.target
  <2>1. NextFile(q)' = NextFile(q)
    BY <1>2 DEF NextFile
  <2>2. QED
    BY <1>2, <2>1 DEF RunnersKnow, Accounted, OnTrust
<1>3. QED
  BY <1>1, <1>2

LEMMA CommitStep ==
  ASSUME DeploymentInv, NEW t \in Tags, Commit(t)
  PROVE  DeploymentInv'
<1>1. /\ cluster' \in ClusterRow /\ cluster'.target = cluster.target
      /\ cluster'.template = cluster.template /\ cluster'.running = cluster.running
  BY DEF Commit, DeploymentInv, DeploymentTypeOK, ClusterRow
<1>2. UNCHANGED <<recorded, executed, pods, gate>>
  BY DEF Commit
<1>3. RunnersKnow'
  BY <1>1, <1>2, PodsStay DEF DeploymentInv, DeploymentTypeOK
<1>4. QED
  BY <1>1, <1>2, <1>3 DEF DeploymentInv, DeploymentTypeOK, RecordedMeansExecuted,
                          ImagesAreMigrated, Executed, Accounted, OnTrust, GateKnows

LEMMA UpgradeStep ==
  ASSUME DeploymentInv, Upgrade
  PROVE  DeploymentInv'
<1>1. cluster \in ClusterRow /\ UNCHANGED <<recorded, executed, gate>>
  BY DEF Upgrade, DeploymentInv, DeploymentTypeOK
<1>2. cluster' = [cluster EXCEPT !.step = "hook", !.target = cluster.desired,
                                 !.release = "progressing", !.reset = FALSE]
  BY DEF Upgrade
<1>3. cluster' = [desired |-> cluster.desired, target |-> cluster.desired, step |-> "hook",
                  release |-> "progressing", reset |-> FALSE,
                  template |-> cluster.template, running |-> cluster.running]
  BY <1>1, <1>2 DEF ClusterRow
<1>4. /\ cluster' \in ClusterRow
      /\ cluster'.template = cluster.template /\ cluster'.running = cluster.running
  BY <1>1, <1>3 DEF ClusterRow
<1>5. \A q \in JobPods :
        /\ pods'[q] \in PodRow
        /\ \/ pods'[q] = NoPod
           \/ /\ pods'[q].at = pods[q].at /\ pods'[q].pending = pods[q].pending
              /\ pods'[q].tag = pods[q].tag /\ ~pods'[q].current
  <2> SUFFICES ASSUME NEW q \in JobPods
               PROVE  /\ pods'[q] \in PodRow
                      /\ \/ pods'[q] = NoPod
                         \/ /\ pods'[q].at = pods[q].at /\ pods'[q].pending = pods[q].pending
                            /\ pods'[q].tag = pods[q].tag /\ ~pods'[q].current
    OBVIOUS
  <2> DEFINE pod == [pods[q] EXCEPT !.current = FALSE]
  <2>1. pods[q] \in PodRow
    BY DEF DeploymentInv, DeploymentTypeOK
  <2>2. /\ pod \in PodRow /\ pod.at = pods[q].at /\ pod.pending = pods[q].pending
        /\ pod.tag = pods[q].tag /\ ~pod.current
    BY <2>1 DEF PodRow
  <2>3. pods'[q] = NoPod \/ pods'[q] = pod
    BY DEF Upgrade
  <2> HIDE DEF pod
  <2>4. QED
    BY <2>2, <2>3, NoPodRow
<1>6. pods' = [q \in JobPods |-> pods'[q]]
  BY DEF Upgrade
<1>7. pods' \in [JobPods -> PodRow]
  BY <1>5, <1>6
<1>8. RunnersKnow'
  BY <1>1, <1>5, <1>7, PodsStay DEF DeploymentInv
<1>9. QED
  BY <1>1, <1>4, <1>7, <1>8 DEF DeploymentInv, DeploymentTypeOK, RecordedMeansExecuted,
                                ImagesAreMigrated, Executed, Accounted, OnTrust, GateKnows

\* The gate only takes back that the image stays.
LEMMA HookSucceededStep ==
  ASSUME DeploymentInv, HookSucceeded
  PROVE  DeploymentInv'
<1>1. /\ cluster \in ClusterRow /\ gate \in GateRow /\ UNCHANGED <<recorded, executed>>
      /\ cluster' = [cluster EXCEPT !.step = "rolling", !.template = cluster.target]
      /\ gate' = [gate EXCEPT !.steady = gate.steady /\ cluster.target = cluster.template]
  BY DEF HookSucceeded, DeploymentInv, DeploymentTypeOK
<1>2. PICK r \in JobPods : /\ pods[r].at = "done" /\ pods[r].current
                           /\ pods' = [pods EXCEPT ![r] = NoPod]
  BY DEF HookSucceeded
<1>3. cluster' = [desired |-> cluster.desired, target |-> cluster.target, step |-> "rolling",
                  release |-> cluster.release, reset |-> cluster.reset,
                  template |-> cluster.target, running |-> cluster.running]
  BY <1>1 DEF ClusterRow
<1>4. /\ cluster' \in ClusterRow /\ cluster'.template = cluster.target
      /\ cluster'.running = cluster.running /\ cluster'.target = cluster.target
  BY <1>1, <1>3 DEF ClusterRow
<1>5. /\ gate' \in GateRow /\ gate'.at = gate.at /\ gate'.ok = gate.ok /\ gate'.tag = gate.tag
      /\ gate'.steady => gate.steady /\ cluster.target = cluster.template
  BY <1>1 DEF GateRow
<1>6. pods' \in [JobPods -> PodRow]
  BY <1>2, NoPodRow DEF DeploymentInv, DeploymentTypeOK
<1>7. RunnersKnow'
  <2>1. \A q \in JobPods : pods'[q] = NoPod \/ pods'[q] = pods[q]
    BY <1>2 DEF DeploymentInv, DeploymentTypeOK
  <2>2. QED
    BY <1>1, <1>4, <1>6, <2>1, PodsStay DEF DeploymentInv
<1>8. Executed(cluster.target)
  <2>1. pods[r].pending = {}
    BY <1>2 DEF DeploymentInv, DeploymentTypeOK, PodRow
  <2>2. /\ pods[r].tag = cluster.target
        /\ \A v \in DOMAIN Shipped[pods[r].tag] \ pods[r].pending : Accounted(v)
    BY <1>2 DEF DeploymentInv, RunnersKnow
  <2>3. QED
    BY <2>1, <2>2 DEF Executed
<1>9. ImagesAreMigrated'
  BY <1>1, <1>4, <1>8 DEF DeploymentInv, ImagesAreMigrated, Executed, Accounted, OnTrust
<1>10. GateKnows'
  BY <1>4, <1>5 DEF DeploymentInv, GateKnows
<1>11. QED
  BY <1>1, <1>4, <1>5, <1>6, <1>7, <1>9, <1>10 DEF DeploymentInv, DeploymentTypeOK,
     RecordedMeansExecuted, OnTrust

LEMMA HookFailedStep ==
  ASSUME DeploymentInv, HookFailed
  PROVE  DeploymentInv'
<1>1. /\ cluster' \in ClusterRow /\ cluster'.target = cluster.target
      /\ cluster'.template = cluster.template /\ cluster'.running = cluster.running
  BY DEF HookFailed, DeploymentInv, DeploymentTypeOK, ClusterRow
<1>2. UNCHANGED <<recorded, executed, pods, gate>>
  BY DEF HookFailed
<1>3. RunnersKnow'
  BY <1>1, <1>2, PodsStay DEF DeploymentInv, DeploymentTypeOK
<1>4. QED
  BY <1>1, <1>2, <1>3 DEF DeploymentInv, DeploymentTypeOK, RecordedMeansExecuted,
                          ImagesAreMigrated, Executed, Accounted, OnTrust, GateKnows

LEMMA RolledOutStep ==
  ASSUME DeploymentInv, RolledOut
  PROVE  DeploymentInv'
<1>1. UNCHANGED <<recorded, executed, pods, gate>> /\ cluster \in ClusterRow
  BY DEF RolledOut, DeploymentInv, DeploymentTypeOK
<1>2. PICK release \in {"ready", "progressing", "failed"},
           step \in {"settled", "hook", "rolling"} :
        cluster' = [cluster EXCEPT !.running = cluster.template, !.release = release,
                                   !.step = step]
  BY <1>1 DEF RolledOut, ClusterRow
<1>3. cluster' = [desired |-> cluster.desired, target |-> cluster.target, step |-> step,
                  release |-> release, reset |-> cluster.reset,
                  template |-> cluster.template, running |-> cluster.template]
  BY <1>1, <1>2 DEF ClusterRow
<1>4. /\ cluster' \in ClusterRow /\ cluster'.target = cluster.target
      /\ cluster'.template = cluster.template /\ cluster'.running = cluster.template
  BY <1>1, <1>3 DEF ClusterRow
<1>5. RunnersKnow'
  BY <1>1, <1>4, PodsStay DEF DeploymentInv, DeploymentTypeOK
<1>6. ImagesAreMigrated' /\ GateKnows'
  BY <1>1, <1>4 DEF DeploymentInv, ImagesAreMigrated, Executed, Accounted, OnTrust, GateKnows
<1>7. QED
  BY <1>1, <1>4, <1>5, <1>6 DEF DeploymentInv, DeploymentTypeOK, RecordedMeansExecuted, OnTrust

LEMMA RolloutFailedStep ==
  ASSUME DeploymentInv, NEW back \in BOOLEAN, RolloutFailed(back)
  PROVE  DeploymentInv'
<1> DEFINE image == IF back THEN cluster.running ELSE cluster.template
<1>1. /\ UNCHANGED <<recorded, executed, pods>> /\ cluster \in ClusterRow /\ gate \in GateRow
      /\ cluster' = [cluster EXCEPT !.step = "settled", !.release = "failed",
                                    !.template = image]
      /\ gate' = [gate EXCEPT !.steady =
                    gate.steady /\ ~(back /\ cluster.running # cluster.template)]
  BY DEF RolloutFailed, DeploymentInv, DeploymentTypeOK
<1>2. image \in Tags /\ image \in {cluster.template, cluster.running}
  BY <1>1 DEF ClusterRow
<1>3. cluster' = [desired |-> cluster.desired, target |-> cluster.target, step |-> "settled",
                  release |-> "failed", reset |-> cluster.reset,
                  template |-> image, running |-> cluster.running]
  BY <1>1, <1>2 DEF ClusterRow
<1>4. /\ cluster' \in ClusterRow /\ cluster'.target = cluster.target
      /\ cluster'.template = image /\ cluster'.running = cluster.running
  BY <1>1, <1>2, <1>3 DEF ClusterRow
<1>5. /\ gate' \in GateRow /\ gate'.at = gate.at /\ gate'.ok = gate.ok /\ gate'.tag = gate.tag
      /\ gate'.steady => gate.steady /\ image = cluster.template
  BY <1>1 DEF GateRow
<1>6. RunnersKnow'
  BY <1>1, <1>4, PodsStay DEF DeploymentInv, DeploymentTypeOK
<1>7. ImagesAreMigrated' /\ GateKnows'
  BY <1>1, <1>2, <1>4, <1>5 DEF DeploymentInv, ImagesAreMigrated, Executed, Accounted, OnTrust, GateKnows
<1>8. QED
  BY <1>1, <1>4, <1>5, <1>6, <1>7 DEF DeploymentInv, DeploymentTypeOK, RecordedMeansExecuted, OnTrust

\* A step of the gate: it moves on, and may ask for a reset.
LEMMA GateStep ==
  ASSUME DeploymentInv, GateKnows', gate' \in GateRow, cluster' \in ClusterRow,
         cluster'.target = cluster.target, cluster'.template = cluster.template,
         cluster'.running = cluster.running, UNCHANGED <<recorded, executed, pods>>
  PROVE  DeploymentInv'
<1>1. RunnersKnow'
  BY PodsStay DEF DeploymentInv, DeploymentTypeOK
<1>2. QED
  BY <1>1 DEF DeploymentInv, DeploymentTypeOK, RecordedMeansExecuted,
              ImagesAreMigrated, Executed, Accounted, OnTrust

LEMMA CheckStep ==
  ASSUME DeploymentInv, NEW stage \in DOMAIN Following, Check(stage)
  PROVE  DeploymentInv'
<1>1. PICK passed \in {Passes(stage), FALSE}, next \in Following[stage] :
        /\ gate' = [gate EXCEPT
              !.ok = gate.ok /\ passed,
              !.at = IF (gate.ok /\ passed) \/ stage = "reconcile" THEN next ELSE "reported",
              !.steady = gate.steady \/ (stage = "images" /\ passed)]
        /\ cluster' = [cluster EXCEPT
              !.reset = cluster.reset \/ (stage = "reset" /\ passed /\ NeedsReset)]
  BY DEF Check
<1>2. /\ gate.at = stage /\ gate \in GateRow /\ cluster \in ClusterRow
      /\ UNCHANGED <<recorded, executed, pods>>
  BY DEF Check, DeploymentInv, DeploymentTypeOK
<1>3. passed \in BOOLEAN
  BY DEF Passes, FluxReady, ImagesMatch, RolloutComplete, SchemaComplete
<1>4. next \in DOMAIN Following \cup {"health"}
  BY StagesOfGate
<1> DEFINE at == IF (gate.ok /\ passed) \/ stage = "reconcile" THEN next ELSE "reported"
<1>5. at \in DOMAIN Following \cup {"health", "eval", "reported"}
  BY <1>4
<1>6. /\ gate'.tag = gate.tag /\ gate'.at = at
      /\ gate'.ok = (gate.ok /\ passed)
      /\ gate'.steady = (gate.steady \/ (stage = "images" /\ passed))
      /\ gate' \in GateRow
  <2>1. gate' = [at |-> at, tag |-> gate.tag, ok |-> gate.ok /\ passed,
                 steady |-> gate.steady \/ (stage = "images" /\ passed)]
    BY <1>1, <1>2 DEF GateRow
  <2> HIDE DEF at
  <2>2. QED
    BY <1>2, <1>3, <1>5, <2>1 DEF GateRow
<1>7. /\ cluster' \in ClusterRow /\ cluster'.target = cluster.target
      /\ cluster'.template = cluster.template /\ cluster'.running = cluster.running
  BY <1>1, <1>2, <1>3 DEF ClusterRow, NeedsReset
<1>8. passed => Passes(stage)
  OBVIOUS
<1>9. stage = "images" /\ passed => cluster.template = gate.tag
  BY <1>8 DEF Passes, ImagesMatch
<1>10. gate'.ok => at = next
  BY <1>6
<1>11. ASSUME gate'.steady, gate'.ok, at \in {"schema", "health", "eval", "reported"}
       PROVE  cluster.running = cluster.template
  <2>1. gate.ok /\ passed /\ next \in {"schema", "health", "eval", "reported"}
    BY <1>6, <1>10, <1>11
  <2>2. CASE stage = "rollouts"
    BY <1>8, <2>1, <2>2 DEF Passes, RolloutComplete
  <2>3. CASE stage = "schema"
    BY <1>2, <1>6, <1>11, <2>1, <2>3 DEF DeploymentInv, GateKnows
  <2>4. CASE stage \notin {"rollouts", "schema"}
    BY <2>1, <2>4, StagesOfGate
  <2>5. QED
    BY <2>2, <2>3, <2>4
<1>12. at # "secrets"
  BY StagesOfGate
<1>13. GateKnows'
  BY <1>6, <1>7, <1>9, <1>11, <1>12 DEF DeploymentInv, GateKnows
<1>14. QED
  BY <1>2, <1>6, <1>7, <1>13, GateStep

LEMMA LastStagesStep ==
  ASSUME DeploymentInv, SkipKubectl \/ Health \/ LiveEval
  PROVE  DeploymentInv'
<1>1. gate \in GateRow /\ UNCHANGED <<recorded, executed, pods, cluster>>
  BY DEF SkipKubectl, Health, LiveEval, DeploymentInv, DeploymentTypeOK
<1>2. CASE SkipKubectl
  <2>1. /\ gate'.tag = gate.tag /\ gate'.steady = gate.steady /\ gate' \in GateRow
        /\ gate.at = "secrets" /\ gate'.at = "health" /\ gate'.ok = gate.ok
    BY <1>1, <1>2 DEF SkipKubectl, GateRow
  <2>2. GateKnows'
    BY <1>1, <2>1 DEF DeploymentInv, GateKnows
  <2>3. QED
    BY <1>1, <2>1, <2>2, GateStep DEF DeploymentInv, DeploymentTypeOK
<1>3. CASE Health \/ LiveEval
  <2>1. PICK ok \in BOOLEAN, next \in {"eval", "reported"} :
          gate' = [gate EXCEPT !.ok = gate.ok /\ ok, !.at = next]
    BY <1>3 DEF Health, LiveEval
  <2>2. gate.at \in {"health", "eval"}
    BY <1>3 DEF Health, LiveEval
  <2>3. gate' = [at |-> next, tag |-> gate.tag, ok |-> gate.ok /\ ok, steady |-> gate.steady]
    BY <1>1, <2>1 DEF GateRow
  <2>4. gate' \in GateRow
    BY <1>1, <2>3 DEF GateRow
  <2>5. GateKnows'
    BY <1>1, <2>2, <2>3 DEF DeploymentInv, GateKnows
  <2>6. QED
    BY <1>1, <2>4, <2>5, GateStep DEF DeploymentInv, DeploymentTypeOK
<1>4. QED
  BY <1>2, <1>3

LEMMA LosePodStep ==
  ASSUME DeploymentInv, NEW r \in JobPods, LosePod(r)
  PROVE  DeploymentInv'
BY NoPodRow, PodStep DEF LosePod

LEMMA DeploymentStepInv ==
  DeploymentInv /\ [DeploymentNext]_deploymentVars => DeploymentInv'
<1> SUFFICES ASSUME DeploymentInv, [DeploymentNext]_deploymentVars PROVE DeploymentInv'
  OBVIOUS
<1>1. CASE UNCHANGED deploymentVars
  BY <1>1, GateStep DEF deploymentVars, DeploymentInv, DeploymentTypeOK, GateKnows
<1>2. ASSUME NEW r \in JobPods,
             StartPod(r) \/ Plan(r) \/ ExecuteMigration(r) \/ RecordMigration(r) \/ LosePod(r)
      PROVE  DeploymentInv'
  BY <1>2, StartPodStep, PlanStep, ExecuteStep, RecordStep, LosePodStep
<1>3. QED
  BY <1>1, <1>2, CommitStep, UpgradeStep, HookSucceededStep, HookFailedStep, RolledOutStep,
     RolloutFailedStep, CheckStep, LastStagesStep DEF DeploymentNext

LEMMA DeploymentInvHolds == DeploymentSpec => []DeploymentInv
BY DeploymentInitInv, DeploymentStepInv, PTL DEF DeploymentSpec

-----------------------------------------------------------------------------
\* The rows of schema_migration, the runners, the cluster and the gate stay in
\* their types.
THEOREM DeploymentTypeCorrect == DeploymentSpec => []DeploymentTypeOK
BY DeploymentInvHolds, PTL DEF DeploymentInv

\* A row with a checksum was executed before, and no file before one that it
\* follows and that is not taken on trust: with any number of files and tags,
\* runners that overlap and die between two transactions, and old rows
\* without their schema.
THEOREM MigrationsAreRecordedAfterwards == DeploymentSpec => []RecordedMeansExecuted
BY DeploymentInvHolds, PTL DEF DeploymentInv

\* A gate whose image stayed where it saw it passes only a tag that runs and
\* whose migrations were executed, those taken on trust apart.
THEOREM PassedGateIsDeployed == DeploymentSpec => []PassMeansDeployed
<1>1. DeploymentInv => PassMeansDeployed
  BY DEF DeploymentInv, GateKnows, ImagesAreMigrated, Executed, Accounted, PassMeansDeployed
<1>2. QED
  BY <1>1, DeploymentInvHolds, PTL

(***************************************************************************)
(* What a database must be for trust to be safe: the rows that runners     *)
(* take at their word, those after the first without a checksum, were      *)
(* executed.  No step makes such a row or undoes an execution.             *)
(***************************************************************************)
HonestRows == \A v \in Files : OnTrust(v) => executed[v] # {}

LEMMA HonestStep ==
  ASSUME DeploymentInv, HonestRows, [DeploymentNext]_deploymentVars
  PROVE  HonestRows'
<1>1. \A v \in Files : executed[v] \subseteq executed'[v]
  <2>1. CASE \E r \in JobPods : ExecuteMigration(r)
    BY <2>1 DEF ExecuteMigration, DeploymentInv, DeploymentTypeOK
  <2>2. CASE ~\E r \in JobPods : ExecuteMigration(r)
    <3>1. executed' = executed
      BY <2>2 DEF DeploymentNext, deploymentVars, StartPod, Plan, RecordMigration, LosePod,
         Commit, Upgrade, HookSucceeded, HookFailed, RolledOut, RolloutFailed, SkipKubectl,
         Health, LiveEval, Check
    <3>2. QED
      BY <3>1
  <2>3. QED
    BY <2>1, <2>2
<1>2. \A v \in Files : recorded'[v] = NoChecksum => recorded[v] = NoChecksum
  <2>1. ASSUME NEW r \in JobPods, RecordMigration(r)
        PROVE  \A v \in Files : recorded'[v] = NoChecksum => recorded[v] = NoChecksum
    <3>1. /\ pods[r] \in PodRow /\ pods[r].at = "record" /\ pods[r].tag \in Tags
      BY <2>1 DEF RecordMigration, DeploymentInv, DeploymentTypeOK, PodRow
    <3>2. NextFile(r) \in DOMAIN Shipped[pods[r].tag]
      BY <3>1, NextIsLeast DEF PodRow
    <3>3. Shipped[pods[r].tag][NextFile(r)] # NoChecksum
      BY <3>1, <3>2, ShippedFiles
    <3>4. QED
      BY <2>1, <3>3 DEF RecordMigration, DeploymentInv, DeploymentTypeOK
  <2>2. CASE ~\E r \in JobPods : RecordMigration(r)
    <3>1. recorded' = recorded
      BY <2>2 DEF DeploymentNext, deploymentVars, StartPod, Plan, ExecuteMigration, LosePod,
         Commit, Upgrade, HookSucceeded, HookFailed, RolledOut, RolloutFailed, SkipKubectl,
         Health, LiveEval, Check
    <3>2. QED
      BY <3>1
  <2>3. QED
    BY <2>1, <2>2
<1>3. QED
  BY <1>1, <1>2 DEF HonestRows, OnTrust

FilesInOrder == \A v \in Files : executed[v] # {} => \A w \in 1 .. v : executed[w] # {}

\* Over an honest database nothing is excepted: files are executed in order,
\* and a passed gate's migrations were all executed.  Old rows without their
\* schema are the one way to lose it, which DeploymentClaims shows.
THEOREM HonestRowsSuffice ==
  DeploymentSpec /\ HonestRows => [](FilesInOrder /\ PassedMeansMigrated)
<1>1. DeploymentSpec /\ HonestRows => [](DeploymentInv /\ HonestRows)
  BY DeploymentInitInv, DeploymentStepInv, HonestStep, PTL DEF DeploymentSpec
<1>2. DeploymentInv /\ HonestRows => FilesInOrder
  BY FilesAreOrdered DEF DeploymentInv, RecordedMeansExecuted, HonestRows, FilesInOrder
<1>3. DeploymentInv /\ HonestRows => PassedMeansMigrated
  <2> SUFFICES ASSUME DeploymentInv, HonestRows PROVE PassedMeansMigrated
    OBVIOUS
  <2>1. DOMAIN Shipped[gate.tag] \subseteq Files
    BY ShippedFiles DEF DeploymentInv, DeploymentTypeOK, GateRow
  <2>2. PassMeansDeployed
    BY DEF DeploymentInv, GateKnows, ImagesAreMigrated, Executed, Accounted, PassMeansDeployed
  <2>3. QED
    BY <2>1, <2>2 DEF PassMeansDeployed, HonestRows, PassedMeansMigrated
<1>4. QED
  BY <1>1, <1>2, <1>3, PTL
=============================================================================
