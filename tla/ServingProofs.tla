---------------------------- MODULE ServingProofs ----------------------------
(***************************************************************************)
(* Theorems about ProviderTransport and ModelCalls, for any number of      *)
(* callers, pool threads, permits, attempts and versions.  They share no   *)
(* state, so each has an invariant of its own.                             *)
(***************************************************************************)
EXTENDS MCModelServing, FiniteSetTheorems, SequenceTheorems, TLAPS

USE PoolAssumption, CallsAssumption

-----------------------------------------------------------------------------
(***************************************************************************)
(* ProviderTransport.  Permits and jobs are counted where they are; a call *)
(* that is not in an exchange has no socket and no timer.                  *)
(***************************************************************************)
Stages ==
  {"idle", "counting", "queueing", "resolving", "connecting", "tunnelling", "wrapping",
   "replacing", "starting", "exchanging", "reading", "answered", "proxying", "failed",
   "succeeded"}

ProbeRow ==
  [ pc : Stages, result : {"empty", "addresses", "error"},
    leg : {"lookup", "secret", "local", "tunnel", "provider"}, late : BOOLEAN,
    socket : {"none", "raw", "tls", "closed"}, timer : {"off", "armed", "firing", "fired"},
    guarded : {"none", "raw", "tls"} ]

WorkerRow ==
  [pc : {"resting", "resolving", "uncounting", "releasing"}, job : Probes \cup {Nobody}]

RowsOK ==
  /\ probes \in [Probes -> ProbeRow]
  /\ workers \in [Workers -> WorkerRow]
  /\ jobs \in Seq(Probes \cup {Nobody})
  /\ permits \in Nat

\* Where permits and counted jobs may be besides the queue.
Waiting == {t \in Probes : probes[t].pc \in {"counting", "queueing"}}
Queueing == {t \in Probes : probes[t].pc = "queueing"}
BusyOnes == {w \in Workers : Busy(w)}
Counted == {w \in Workers : workers[w].pc \in {"resolving", "uncounting"}}

JobsAreCounted ==
  outstanding = Len(jobs) + Cardinality(Counted) + Cardinality(Queueing)

\* Stages without a connection.
Apart == {"idle", "counting", "queueing", "resolving", "connecting", "proxying", "failed",
          "succeeded"}

Clean(probe) == probe.pc \in Apart => probe.socket = "none" /\ probe.timer = "off"

CallsAreClean == \A t \in Probes : Clean(probes[t])

TransportInv == RowsOK /\ PermitsAreKept /\ JobsAreCounted /\ CallsAreClean

LEMMA Finite ==
  ASSUME NEW S, S \subseteq Probes \/ S \subseteq Workers
  PROVE  IsFiniteSet(S) /\ Cardinality(S) \in Nat
BY FS_Subset, FS_CardinalityType

LEMMA SetsOfCallers ==
  /\ Waiting \subseteq Probes /\ Queueing \subseteq Probes
  /\ BusyOnes \subseteq Workers /\ Counted \subseteq Workers
BY DEF Waiting, Queueing, BusyOnes, Counted

LEMMA CountsAreNat ==
  /\ Cardinality(Waiting) \in Nat /\ Cardinality(Queueing) \in Nat
  /\ Cardinality(BusyOnes) \in Nat /\ Cardinality(Counted) \in Nat
BY SetsOfCallers, Finite

\* The sets of PermitsAreKept by name.
LEMMA Permits ==
  PermitsAreKept <=>
    permits + Len(jobs) + Cardinality(BusyOnes) + Cardinality(Waiting) = MaxOutstanding
BY DEF PermitsAreKept, BusyOnes, Waiting

LEMMA TransportInitInv == TransportInit => TransportInv
<1> SUFFICES ASSUME TransportInit PROVE TransportInv
  OBVIOUS
<1>1. RowsOK
  BY DEF TransportInit, RowsOK, Silent, Resting, ProbeRow, Stages, WorkerRow
<1>2. Waiting = {} /\ Queueing = {} /\ BusyOnes = {} /\ Counted = {}
  BY DEF TransportInit, Waiting, Queueing, BusyOnes, Counted, Busy, Silent, Resting
<1>3. Cardinality({}) = 0 /\ Len(jobs) = 0
  BY FS_EmptySet DEF TransportInit
<1>4. PermitsAreKept /\ JobsAreCounted
  BY <1>2, <1>3, Permits DEF TransportInit, JobsAreCounted
<1>5. CallsAreClean
  BY DEF TransportInit, CallsAreClean, Clean, Silent
<1>6. QED
  BY <1>1, <1>4, <1>5 DEF TransportInv

\* What a step of one call does to the sets of waiting calls.
LEMMA OneCall ==
  ASSUME RowsOK, NEW t \in Probes, NEW row \in ProbeRow, Set(t, row)
  PROVE  /\ probes' \in [Probes -> ProbeRow]
         /\ \A u \in Probes : probes'[u] = IF u = t THEN row ELSE probes[u]
BY DEF RowsOK, Set

LEMMA OneWaits ==
  ASSUME RowsOK, NEW t \in Probes, NEW row \in ProbeRow, Set(t, row)
  PROVE  /\ row.pc = "counting" => Waiting' = Waiting \cup {t} /\ Queueing' = Queueing \ {t}
         /\ row.pc = "queueing" =>
              Waiting' = Waiting \cup {t} /\ Queueing' = Queueing \cup {t}
         /\ row.pc \notin {"counting", "queueing"} =>
              Waiting' = Waiting \ {t} /\ Queueing' = Queueing \ {t}
<1>1. \A u \in Probes : probes'[u] = IF u = t THEN row ELSE probes[u]
  BY OneCall
<1>2. QED
  BY <1>1 DEF Waiting, Queueing

\* Adding and removing one element.
LEMMA AddOne ==
  ASSUME NEW S, NEW x, S \subseteq Probes \/ S \subseteq Workers
  PROVE  /\ x \in S => Cardinality(S \cup {x}) = Cardinality(S)
         /\ x \notin S => Cardinality(S \cup {x}) = Cardinality(S) + 1
         /\ x \notin S => Cardinality(S \ {x}) = Cardinality(S)
         /\ x \in S => Cardinality(S \ {x}) = Cardinality(S) - 1
<1>1. IsFiniteSet(S)
  BY Finite
<1>2. x \in S => S \cup {x} = S
  OBVIOUS
<1>3. x \notin S => S \ {x} = S
  OBVIOUS
<1>4. QED
  BY <1>1, <1>2, <1>3, FS_AddElement, FS_RemoveElement

\* A step of one call outside the pool.
LEMMA CallStep ==
  ASSUME TransportInv, NEW t \in Probes, NEW row \in ProbeRow, Set(t, row), UNCHANGED Pool,
         \/ row.pc = probes[t].pc
         \/ /\ probes[t].pc \notin {"counting", "queueing"}
            /\ row.pc \notin {"counting", "queueing"},
         Clean(row)
  PROVE  TransportInv'
<1>1. RowsOK' /\ CallsAreClean'
  BY OneCall DEF TransportInv, RowsOK, CallsAreClean, Pool
<1>2. Waiting' = Waiting /\ Queueing' = Queueing
  BY OneCall DEF TransportInv, Waiting, Queueing
<1>3. BusyOnes' = BusyOnes /\ Counted' = Counted
  BY DEF BusyOnes, Counted, Busy, Pool
<1>4. PermitsAreKept'
  <2>1. UNCHANGED <<permits, jobs>>
    BY DEF Pool
  <2>2. PermitsAreKept
    BY DEF TransportInv
  <2>3. permits' + Len(jobs') + Cardinality(BusyOnes') + Cardinality(Waiting') = MaxOutstanding
    BY <1>2, <1>3, <2>1, <2>2, Permits
  <2>4. QED
    BY <2>3 DEF PermitsAreKept, BusyOnes, Waiting
<1>5. JobsAreCounted'
  BY <1>2, <1>3 DEF TransportInv, JobsAreCounted, Pool
<1>6. QED
  BY <1>1, <1>4, <1>5 DEF TransportInv

(***************************************************************************)
(* Steps of callers in the pool.                                           *)
(***************************************************************************)
\* Rows of a call that differ in where it is, and in its result.
LEMMA At ==
  ASSUME NEW probe \in ProbeRow, NEW pc \in Stages
  PROVE  /\ [probe EXCEPT !.pc = pc] \in ProbeRow
         /\ [probe EXCEPT !.pc = pc].pc = pc
         /\ [probe EXCEPT !.pc = pc].socket = probe.socket
         /\ [probe EXCEPT !.pc = pc].timer = probe.timer
BY DEF ProbeRow

\* Between two stages without a connection.
LEMMA Apartly ==
  ASSUME NEW probe \in ProbeRow, Clean(probe), probe.pc \in Apart, NEW pc \in Apart
  PROVE  /\ [probe EXCEPT !.pc = pc] \in ProbeRow
         /\ [probe EXCEPT !.pc = pc].pc = pc
         /\ Clean([probe EXCEPT !.pc = pc])
<1>1. pc \in Stages
  BY DEF Apart, Stages
<1>2. QED
  BY <1>1, At DEF Clean

LEMMA ProbeIsRow ==
  ASSUME TransportInv, NEW t \in Probes
  PROVE  probes[t] \in ProbeRow /\ Clean(probes[t])
BY DEF TransportInv, RowsOK, CallsAreClean

LEMMA AcquireStep ==
  ASSUME TransportInv, NEW t \in Probes, Acquire(t)
  PROVE  TransportInv'
<1>0. /\ probes[t] \in ProbeRow /\ Clean(probes[t]) /\ probes[t].pc \in {"idle", "proxying"}
      /\ UNCHANGED << outstanding, jobs, workers >>
  BY ProbeIsRow DEF Acquire
<1>1. CASE permits > 0
  <2> DEFINE row == [probes[t] EXCEPT !.pc = "counting"]
  <2>1. row \in ProbeRow /\ row.pc = "counting" /\ Clean(row)
    BY <1>0, Apartly DEF Apart
  <2>2. Set(t, row) /\ permits' = permits - 1
    BY <1>1 DEF Acquire
  <2> HIDE DEF row
  <2>3. t \notin Waiting /\ Queueing \ {t} = Queueing
    BY <1>0 DEF Waiting, Queueing
  <2>4. /\ \A u \in Probes : probes'[u] = IF u = t THEN row ELSE probes[u]
        /\ Waiting' = Waiting \cup {t} /\ Queueing' = Queueing
        /\ probes' \in [Probes -> ProbeRow]
    BY <2>1, <2>2, <2>3, OneCall, OneWaits DEF TransportInv
  <2>5. BusyOnes' = BusyOnes /\ Counted' = Counted
    BY <1>0 DEF BusyOnes, Counted, Busy
  <2>6. RowsOK' /\ CallsAreClean'
    BY <1>0, <1>1, <2>1, <2>2, <2>4 DEF TransportInv, RowsOK, CallsAreClean
  <2>7. Cardinality(Waiting') = Cardinality(Waiting) + 1
    BY <2>3, <2>4, AddOne, SetsOfCallers
  <2>8. PermitsAreKept'
    <3>1. permits + Len(jobs) + Cardinality(BusyOnes) + Cardinality(Waiting) = MaxOutstanding
      BY Permits DEF TransportInv
    <3>2. permits' + Len(jobs') + Cardinality(BusyOnes') + Cardinality(Waiting')
            = MaxOutstanding
      BY <1>0, <2>2, <2>5, <2>7, <3>1, CountsAreNat DEF TransportInv, RowsOK
    <3>3. QED
      BY <3>2 DEF PermitsAreKept, BusyOnes, Waiting
  <2>9. JobsAreCounted'
    BY <1>0, <2>4, <2>5 DEF TransportInv, JobsAreCounted
  <2>10. QED
    BY <2>6, <2>8, <2>9 DEF TransportInv
<1>2. CASE ~(permits > 0)
  <2> DEFINE row == [probes[t] EXCEPT !.pc = "failed"]
  <2>1. row \in ProbeRow /\ row.pc = "failed" /\ Clean(row)
    BY <1>0, Apartly DEF Apart
  <2>2. Set(t, row) /\ UNCHANGED Pool
    BY <1>0, <1>2 DEF Acquire, Pool
  <2> HIDE DEF row
  <2>3. QED
    BY <1>0, <2>1, <2>2, CallStep
<1>3. QED
  BY <1>1, <1>2

LEMMA CountStep ==
  ASSUME TransportInv, NEW t \in Probes, Count(t)
  PROVE  TransportInv'
<1> DEFINE row == [probes[t] EXCEPT !.pc = "queueing"]
<1>0. /\ probes[t] \in ProbeRow /\ Clean(probes[t]) /\ probes[t].pc = "counting"
      /\ UNCHANGED << permits, jobs, workers >>
      /\ Set(t, row) /\ outstanding' = outstanding + 1
  BY ProbeIsRow DEF Count
<1>1. row \in ProbeRow /\ row.pc = "queueing" /\ Clean(row)
  BY <1>0, Apartly DEF Apart
<1> HIDE DEF row
<1>2. Waiting \cup {t} = Waiting /\ t \notin Queueing
  BY <1>0 DEF Waiting, Queueing
<1>3. /\ \A u \in Probes : probes'[u] = IF u = t THEN row ELSE probes[u]
      /\ Waiting' = Waiting /\ Queueing' = Queueing \cup {t}
      /\ probes' \in [Probes -> ProbeRow]
  BY <1>0, <1>1, <1>2, OneCall, OneWaits DEF TransportInv
<1>4. BusyOnes' = BusyOnes /\ Counted' = Counted
  BY <1>0 DEF BusyOnes, Counted, Busy
<1>5. RowsOK' /\ CallsAreClean'
  BY <1>0, <1>1, <1>3 DEF TransportInv, RowsOK, CallsAreClean
<1>6. Cardinality(Queueing') = Cardinality(Queueing) + 1
  BY <1>2, <1>3, AddOne, SetsOfCallers
<1>7. PermitsAreKept'
  <2>1. permits' + Len(jobs') + Cardinality(BusyOnes') + Cardinality(Waiting')
          = MaxOutstanding
    BY <1>0, <1>3, <1>4, Permits DEF TransportInv
  <2>2. QED
    BY <2>1 DEF PermitsAreKept, BusyOnes, Waiting
<1>8. JobsAreCounted'
  <2>1. Len(jobs) \in Nat
    BY DEF TransportInv, RowsOK
  <2>2. QED
    BY <1>0, <1>4, <1>6, <2>1, CountsAreNat DEF TransportInv, JobsAreCounted
<1>9. QED
  BY <1>5, <1>7, <1>8 DEF TransportInv

\* A call with a permit finds room in the queue.
LEMMA RoomForPermit ==
  ASSUME TransportInv
  PROVE  QueueHasRoom
<1> SUFFICES ASSUME NEW t \in Probes, probes[t].pc = "queueing"
             PROVE  Len(jobs) < MaxOutstanding
  BY DEF QueueHasRoom
<1>1. t \in Waiting
  BY DEF Waiting
<1>2. IsFiniteSet(Waiting)
  BY Finite DEF Waiting
<1>3. Cardinality(Waiting) # 0
  BY <1>1, <1>2, FS_EmptySet
<1>4. permits + Len(jobs) + Cardinality(BusyOnes) + Cardinality(Waiting) = MaxOutstanding
  BY Permits DEF TransportInv
<1>5. permits \in Nat /\ Len(jobs) \in Nat
  BY DEF TransportInv, RowsOK
<1>6. QED
  BY <1>3, <1>4, <1>5, CountsAreNat

LEMMA EnqueueStep ==
  ASSUME TransportInv, NEW t \in Probes, Enqueue(t)
  PROVE  TransportInv'
<1> DEFINE row == [probes[t] EXCEPT !.pc = "resolving"]
<1>0. /\ probes[t] \in ProbeRow /\ Clean(probes[t]) /\ probes[t].pc = "queueing"
      /\ UNCHANGED workers
  BY ProbeIsRow DEF Enqueue
<1>1. /\ Set(t, row) /\ jobs' = Append(jobs, t) /\ UNCHANGED << outstanding, permits >>
  BY <1>0, RoomForPermit DEF Enqueue, QueueHasRoom
<1>2. row \in ProbeRow /\ row.pc = "resolving" /\ Clean(row)
  BY <1>0, Apartly DEF Apart
<1> HIDE DEF row
<1>3. t \in Waiting /\ t \in Queueing
  BY <1>0 DEF Waiting, Queueing
<1>4. /\ \A u \in Probes : probes'[u] = IF u = t THEN row ELSE probes[u]
      /\ Waiting' = Waiting \ {t} /\ Queueing' = Queueing \ {t}
      /\ probes' \in [Probes -> ProbeRow]
  BY <1>1, <1>2, OneCall, OneWaits DEF TransportInv
<1>5. BusyOnes' = BusyOnes /\ Counted' = Counted
  BY <1>0 DEF BusyOnes, Counted, Busy
<1>6. jobs' \in Seq(Probes \cup {Nobody}) /\ Len(jobs') = Len(jobs) + 1 /\ Len(jobs) \in Nat
  BY <1>1 DEF TransportInv, RowsOK
<1>7. RowsOK' /\ CallsAreClean'
  BY <1>0, <1>1, <1>2, <1>4, <1>6 DEF TransportInv, RowsOK, CallsAreClean
<1>8. /\ Cardinality(Waiting') = Cardinality(Waiting) - 1
      /\ Cardinality(Queueing') = Cardinality(Queueing) - 1
  BY <1>3, <1>4, AddOne, SetsOfCallers
<1>9. PermitsAreKept'
  <2>1. permits + Len(jobs) + Cardinality(BusyOnes) + Cardinality(Waiting) = MaxOutstanding
    BY Permits DEF TransportInv
  <2>2. permits' + Len(jobs') + Cardinality(BusyOnes') + Cardinality(Waiting')
          = MaxOutstanding
    BY <1>1, <1>5, <1>6, <1>8, <2>1, CountsAreNat DEF TransportInv, RowsOK
  <2>3. QED
    BY <2>2 DEF PermitsAreKept, BusyOnes, Waiting
<1>10. JobsAreCounted'
  BY <1>1, <1>5, <1>6, <1>8, CountsAreNat DEF TransportInv, JobsAreCounted
<1>11. QED
  BY <1>7, <1>9, <1>10 DEF TransportInv

\* The job stays where it is, without an owner.
LEMMA GiveUpStep ==
  ASSUME TransportInv, NEW t \in Probes, GiveUp(t)
  PROVE  TransportInv'
<1> DEFINE row == [probes[t] EXCEPT !.pc = "failed"]
<1>0. /\ probes[t] \in ProbeRow /\ Clean(probes[t]) /\ probes[t].pc = "resolving"
      /\ Set(t, row) /\ Disowned(t) /\ UNCHANGED << permits, outstanding >>
  BY ProbeIsRow DEF GiveUp
<1>1. row \in ProbeRow /\ row.pc = "failed" /\ Clean(row)
  BY <1>0, Apartly DEF Apart
<1> HIDE DEF row
<1>2. Waiting \ {t} = Waiting /\ Queueing \ {t} = Queueing
  BY <1>0 DEF Waiting, Queueing
<1>3. /\ \A u \in Probes : probes'[u] = IF u = t THEN row ELSE probes[u]
      /\ Waiting' = Waiting /\ Queueing' = Queueing
      /\ probes' \in [Probes -> ProbeRow]
  BY <1>0, <1>1, <1>2, OneCall, OneWaits DEF TransportInv
<1>4. \A w \in Workers : workers'[w] \in WorkerRow /\ workers'[w].pc = workers[w].pc
  BY <1>0 DEF Disowned, TransportInv, RowsOK, WorkerRow
<1>5. BusyOnes' = BusyOnes /\ Counted' = Counted
  BY <1>4 DEF BusyOnes, Counted, Busy
<1>6. workers' \in [Workers -> WorkerRow]
  BY <1>0, <1>4 DEF Disowned
<1>7. jobs' \in Seq(Probes \cup {Nobody}) /\ Len(jobs') = Len(jobs)
  <2>1. jobs' = [i \in 1 .. Len(jobs) |-> IF jobs[i] = t THEN Nobody ELSE jobs[i]]
    BY <1>0 DEF Disowned, TransportInv, RowsOK
  <2>2. QED
    BY <2>1 DEF TransportInv, RowsOK
<1>8. RowsOK' /\ CallsAreClean'
  BY <1>0, <1>1, <1>3, <1>6, <1>7 DEF TransportInv, RowsOK, CallsAreClean
<1>9. PermitsAreKept'
  <2>1. permits' + Len(jobs') + Cardinality(BusyOnes') + Cardinality(Waiting')
          = MaxOutstanding
    BY <1>0, <1>3, <1>5, <1>7, Permits DEF TransportInv
  <2>2. QED
    BY <2>1 DEF PermitsAreKept, BusyOnes, Waiting
<1>10. JobsAreCounted'
  BY <1>0, <1>3, <1>5, <1>7 DEF TransportInv, JobsAreCounted
<1>11. QED
  BY <1>8, <1>9, <1>10 DEF TransportInv

(***************************************************************************)
(* Steps of the pool's threads.                                            *)
(***************************************************************************)
LEMMA OneWorker ==
  ASSUME RowsOK, NEW w \in Workers, NEW row \in WorkerRow,
         workers' = [workers EXCEPT ![w] = row]
  PROVE  /\ workers' \in [Workers -> WorkerRow]
         /\ row.pc # "resting" => BusyOnes' = BusyOnes \cup {w}
         /\ row.pc = "resting" => BusyOnes' = BusyOnes \ {w}
         /\ row.pc \in {"resolving", "uncounting"} => Counted' = Counted \cup {w}
         /\ row.pc \notin {"resolving", "uncounting"} => Counted' = Counted \ {w}
<1>1. \A v \in Workers : workers'[v] = IF v = w THEN row ELSE workers[v]
  BY DEF RowsOK
<1>2. QED
  BY <1>1 DEF RowsOK, BusyOnes, Counted, Busy

LEMMA TakeStep ==
  ASSUME TransportInv, NEW w \in Workers, Take(w)
  PROVE  TransportInv'
<1> DEFINE row == [pc |-> "resolving", job |-> Head(jobs)]
<1>0. /\ workers[w].pc = "resting" /\ jobs # <<>> /\ jobs' = Tail(jobs)
      /\ workers' = [workers EXCEPT ![w] = row]
      /\ UNCHANGED << permits, outstanding, probes >>
  BY DEF Take
<1>1. /\ row \in WorkerRow /\ row.pc = "resolving"
      /\ jobs' \in Seq(Probes \cup {Nobody}) /\ Len(jobs') = Len(jobs) - 1 /\ Len(jobs) \in Nat
  BY <1>0 DEF WorkerRow, TransportInv, RowsOK
<1> HIDE DEF row
<1>2. w \notin BusyOnes /\ w \notin Counted
  BY <1>0 DEF BusyOnes, Counted, Busy
<1>3. /\ workers' \in [Workers -> WorkerRow]
      /\ BusyOnes' = BusyOnes \cup {w} /\ Counted' = Counted \cup {w}
  BY <1>0, <1>1, OneWorker DEF TransportInv
<1>4. Waiting' = Waiting /\ Queueing' = Queueing
  BY <1>0 DEF Waiting, Queueing
<1>5. /\ Cardinality(BusyOnes') = Cardinality(BusyOnes) + 1
      /\ Cardinality(Counted') = Cardinality(Counted) + 1
  BY <1>2, <1>3, AddOne, SetsOfCallers
<1>6. RowsOK' /\ CallsAreClean'
  BY <1>0, <1>1, <1>3 DEF TransportInv, RowsOK, CallsAreClean
<1>7. PermitsAreKept'
  <2>1. permits + Len(jobs) + Cardinality(BusyOnes) + Cardinality(Waiting) = MaxOutstanding
    BY Permits DEF TransportInv
  <2>2. permits' + Len(jobs') + Cardinality(BusyOnes') + Cardinality(Waiting')
          = MaxOutstanding
    BY <1>0, <1>1, <1>4, <1>5, <2>1, CountsAreNat DEF TransportInv, RowsOK
  <2>3. QED
    BY <2>2 DEF PermitsAreKept, BusyOnes, Waiting
<1>8. JobsAreCounted'
  BY <1>0, <1>1, <1>4, <1>5, CountsAreNat DEF TransportInv, JobsAreCounted
<1>9. QED
  BY <1>6, <1>7, <1>8 DEF TransportInv

LEMMA AnswerStep ==
  ASSUME TransportInv, NEW w \in Workers, Answer(w)
  PROVE  TransportInv'
<1> DEFINE row == [pc |-> "uncounting", job |-> Nobody]
<1>0. /\ workers[w].pc = "resolving" /\ workers' = [workers EXCEPT ![w] = row]
      /\ UNCHANGED << permits, outstanding, jobs >>
  BY DEF Answer
<1>1. row \in WorkerRow /\ row.pc = "uncounting"
  BY DEF WorkerRow
<1> HIDE DEF row
<1>2. PICK outcome \in {"addresses", "error"} :
        probes' = [t \in Probes |-> IF workers[w].job = t
                     THEN [probes[t] EXCEPT !.result = outcome] ELSE probes[t]]
  BY DEF Answer
<1>3. BusyOnes \cup {w} = BusyOnes /\ Counted \cup {w} = Counted
  BY <1>0 DEF BusyOnes, Counted, Busy
<1>4. /\ workers' \in [Workers -> WorkerRow] /\ BusyOnes' = BusyOnes /\ Counted' = Counted
  BY <1>0, <1>1, <1>3, OneWorker DEF TransportInv
<1>5. ASSUME NEW t \in Probes
      PROVE  /\ probes'[t] \in ProbeRow
             /\ probes'[t].pc = probes[t].pc /\ probes'[t].socket = probes[t].socket
             /\ probes'[t].timer = probes[t].timer
  <2> DEFINE answered == [probes[t] EXCEPT !.result = outcome]
  <2>1. probes[t] \in ProbeRow
    BY ProbeIsRow
  <2>2. /\ answered \in ProbeRow /\ answered.pc = probes[t].pc
        /\ answered.socket = probes[t].socket /\ answered.timer = probes[t].timer
    BY <2>1 DEF ProbeRow
  <2>3. probes'[t] = answered \/ probes'[t] = probes[t]
    BY <1>2
  <2> HIDE DEF answered
  <2>4. QED
    BY <2>1, <2>2, <2>3
<1>6. Waiting' = Waiting /\ Queueing' = Queueing
  BY <1>5 DEF Waiting, Queueing
<1>7. probes' \in [Probes -> ProbeRow]
  BY <1>2, <1>5
<1>8. RowsOK' /\ CallsAreClean'
  BY <1>0, <1>4, <1>5, <1>7 DEF TransportInv, RowsOK, CallsAreClean, Clean
<1>9. PermitsAreKept'
  <2>1. permits' + Len(jobs') + Cardinality(BusyOnes') + Cardinality(Waiting')
          = MaxOutstanding
    BY <1>0, <1>4, <1>6, Permits DEF TransportInv
  <2>2. QED
    BY <2>1 DEF PermitsAreKept, BusyOnes, Waiting
<1>10. JobsAreCounted'
  BY <1>0, <1>4, <1>6 DEF TransportInv, JobsAreCounted
<1>11. QED
  BY <1>8, <1>9, <1>10 DEF TransportInv

LEMMA UncountStep ==
  ASSUME TransportInv, NEW w \in Workers, Uncount(w)
  PROVE  TransportInv'
<1> DEFINE row == [workers[w] EXCEPT !.pc = "releasing"]
<1>0. /\ workers[w].pc = "uncounting" /\ workers' = [workers EXCEPT ![w] = row]
      /\ outstanding' = outstanding - 1 /\ UNCHANGED << permits, jobs, probes >>
  BY DEF Uncount
<1>1. row \in WorkerRow /\ row.pc = "releasing"
  BY DEF TransportInv, RowsOK, WorkerRow
<1> HIDE DEF row
<1>2. BusyOnes \cup {w} = BusyOnes /\ w \in Counted
  BY <1>0 DEF BusyOnes, Counted, Busy
<1>3. /\ workers' \in [Workers -> WorkerRow] /\ BusyOnes' = BusyOnes
      /\ Counted' = Counted \ {w}
  BY <1>0, <1>1, <1>2, OneWorker DEF TransportInv
<1>4. Waiting' = Waiting /\ Queueing' = Queueing
  BY <1>0 DEF Waiting, Queueing
<1>5. Cardinality(Counted') = Cardinality(Counted) - 1
  BY <1>2, <1>3, AddOne, SetsOfCallers
<1>6. RowsOK' /\ CallsAreClean'
  BY <1>0, <1>3 DEF TransportInv, RowsOK, CallsAreClean
<1>7. PermitsAreKept'
  <2>1. permits' + Len(jobs') + Cardinality(BusyOnes') + Cardinality(Waiting')
          = MaxOutstanding
    BY <1>0, <1>3, <1>4, Permits DEF TransportInv
  <2>2. QED
    BY <2>1 DEF PermitsAreKept, BusyOnes, Waiting
<1>8. JobsAreCounted'
  <2>1. Len(jobs) \in Nat
    BY DEF TransportInv, RowsOK
  <2>2. QED
    BY <1>0, <1>4, <1>5, <2>1, CountsAreNat DEF TransportInv, JobsAreCounted
<1>9. QED
  BY <1>6, <1>7, <1>8 DEF TransportInv

LEMMA ReleaseStep ==
  ASSUME TransportInv, NEW w \in Workers, Release(w)
  PROVE  TransportInv'
<1>0. /\ workers[w].pc = "releasing" /\ workers' = [workers EXCEPT ![w] = Resting]
      /\ permits' = permits + 1 /\ UNCHANGED << outstanding, jobs, probes >>
  BY DEF Release
<1>1. Resting \in WorkerRow /\ Resting.pc = "resting"
  BY DEF Resting, WorkerRow
<1>2. w \in BusyOnes /\ Counted \ {w} = Counted
  BY <1>0 DEF BusyOnes, Counted, Busy
<1>3. /\ workers' \in [Workers -> WorkerRow] /\ BusyOnes' = BusyOnes \ {w}
      /\ Counted' = Counted
  BY <1>0, <1>1, <1>2, OneWorker DEF TransportInv
<1>4. Waiting' = Waiting /\ Queueing' = Queueing
  BY <1>0 DEF Waiting, Queueing
<1>5. Cardinality(BusyOnes') = Cardinality(BusyOnes) - 1
  BY <1>2, <1>3, AddOne, SetsOfCallers
<1>6. RowsOK' /\ CallsAreClean'
  BY <1>0, <1>3 DEF TransportInv, RowsOK, CallsAreClean
<1>7. PermitsAreKept'
  <2>1. permits + Len(jobs) + Cardinality(BusyOnes) + Cardinality(Waiting) = MaxOutstanding
    BY Permits DEF TransportInv
  <2>2. Len(jobs) \in Nat
    BY DEF TransportInv, RowsOK
  <2>3. permits' + Len(jobs') + Cardinality(BusyOnes') + Cardinality(Waiting')
          = MaxOutstanding
    BY <1>0, <1>4, <1>5, <2>1, <2>2, CountsAreNat DEF TransportInv, RowsOK
  <2>4. QED
    BY <2>3 DEF PermitsAreKept, BusyOnes, Waiting
<1>8. JobsAreCounted'
  BY <1>0, <1>3, <1>4 DEF TransportInv, JobsAreCounted
<1>9. QED
  BY <1>6, <1>7, <1>8 DEF TransportInv

(***************************************************************************)
(* Steps of an exchange.                                                   *)
(***************************************************************************)
Connected == Stages \ (Apart \cup {"counting", "queueing"})

LEMMA ConnectedIsClean ==
  ASSUME NEW probe, probe.pc \in Connected
  PROVE  Clean(probe)
BY DEF Connected, Clean

LEMMA CloseRow ==
  ASSUME NEW probe \in ProbeRow, NEW pc \in Stages
  PROVE  /\ Close(probe, pc) \in ProbeRow
         /\ Close(probe, pc).pc = pc
         /\ Close(probe, pc).socket = "none" /\ Close(probe, pc).timer = "off"
         /\ Clean(Close(probe, pc))
<1>1. Close(probe, pc) =
        [probe EXCEPT !.pc = pc, !.socket = "none", !.timer = "off", !.guarded = "none"]
  BY DEF Close
<1>2. Close(probe, pc) =
        [pc |-> pc, result |-> probe.result, leg |-> probe.leg, late |-> probe.late,
         socket |-> "none", timer |-> "off", guarded |-> "none"]
  BY <1>1 DEF ProbeRow
<1>3. QED
  BY <1>2 DEF ProbeRow, Clean

LEMMA FailStep ==
  ASSUME TransportInv, NEW t \in Probes, probes[t].pc \notin {"counting", "queueing"},
         Set(t, Close(probes[t], "failed")), UNCHANGED Pool
  PROVE  TransportInv'
<1>1. "failed" \in Stages
  BY DEF Stages
<1>2. Close(probes[t], "failed") \in ProbeRow /\ Close(probes[t], "failed").pc = "failed"
      /\ Clean(Close(probes[t], "failed"))
  BY <1>1, ProbeIsRow, CloseRow
<1>3. QED
  BY <1>2, CallStep

LEMMA TryStep ==
  ASSUME TransportInv, NEW t \in Probes, NEW from \in Stages \ {"counting", "queueing"},
         NEW next \in ProbeRow, next.pc \in Connected, Try(t, from, next)
  PROVE  TransportInv'
<1>1. CASE Set(t, next)
  BY <1>1, ConnectedIsClean, CallStep DEF Try, Connected
<1>2. CASE Set(t, Close(probes[t], "failed"))
  BY <1>2, FailStep DEF Try
<1>3. QED
  BY <1>1, <1>2 DEF Try

LEMMA ConnectRow ==
  ASSUME NEW probe \in ProbeRow, NEW stage \in Stages
  PROVE  LET row == [probe EXCEPT !.pc = stage, !.socket = "raw", !.timer = "armed",
                                  !.guarded = "raw"]
         IN  row \in ProbeRow /\ row.pc = stage
<1> DEFINE row == [probe EXCEPT !.pc = stage, !.socket = "raw", !.timer = "armed",
                                !.guarded = "raw"]
<1>1. row = [probe EXCEPT !.pc = stage, !.socket = "raw", !.timer = "armed",
                          !.guarded = "raw"]
  OBVIOUS
<1> HIDE DEF row
<1>2. row = [pc |-> stage, result |-> probe.result, leg |-> probe.leg, late |-> probe.late,
             socket |-> "raw", timer |-> "armed", guarded |-> "raw"]
  BY <1>1 DEF ProbeRow
<1>3. row \in ProbeRow /\ row.pc = stage
  BY <1>2 DEF ProbeRow
<1>4. QED
  BY <1>3 DEF row

LEMMA ConnectStep ==
  ASSUME TransportInv, NEW t \in Probes, Connect(t)
  PROVE  TransportInv'
<1> DEFINE stage == IF probes[t].leg = "tunnel" THEN "tunnelling" ELSE "wrapping"
           row == [probes[t] EXCEPT !.pc = stage, !.socket = "raw", !.timer = "armed",
                                    !.guarded = "raw"]
<1>1. stage \in Stages \cap Connected
  BY DEF Stages, Connected, Apart
<1>2. probes[t] \in ProbeRow
  BY ProbeIsRow
<1> HIDE DEF stage
<1>3. row \in ProbeRow /\ row.pc \in Connected
  BY <1>1, <1>2, ConnectRow
<1>4. Try(t, "connecting", row)
  BY DEF Connect, stage
<1>5. "connecting" \in Stages \ {"counting", "queueing"}
  BY DEF Stages
<1> HIDE DEF row
<1>6. QED
  BY <1>3, <1>4, <1>5, TryStep

LEMMA ChangedRow ==
  ASSUME NEW probe \in ProbeRow, NEW pc \in Stages
  PROVE  /\ [probe EXCEPT !.pc = pc, !.leg = "provider"] \in ProbeRow
         /\ [probe EXCEPT !.pc = pc, !.leg = "provider"].pc = pc
         /\ [probe EXCEPT !.pc = pc, !.socket = "tls"] \in ProbeRow
         /\ [probe EXCEPT !.pc = pc, !.socket = "tls"].pc = pc
         /\ [probe EXCEPT !.pc = pc, !.guarded = "tls"] \in ProbeRow
         /\ [probe EXCEPT !.pc = pc, !.guarded = "tls"].pc = pc
<1>1. /\ [probe EXCEPT !.pc = pc, !.leg = "provider"] \in ProbeRow
      /\ [probe EXCEPT !.pc = pc, !.leg = "provider"].pc = pc
  BY DEF ProbeRow
<1>2. /\ [probe EXCEPT !.pc = pc, !.socket = "tls"] \in ProbeRow
      /\ [probe EXCEPT !.pc = pc, !.socket = "tls"].pc = pc
  BY DEF ProbeRow
<1>3. /\ [probe EXCEPT !.pc = pc, !.guarded = "tls"] \in ProbeRow
      /\ [probe EXCEPT !.pc = pc, !.guarded = "tls"].pc = pc
  BY DEF ProbeRow
<1>4. QED
  BY <1>1, <1>2, <1>3

LEMMA TunnelStep ==
  ASSUME TransportInv, NEW t \in Probes, Tunnel(t)
  PROVE  TransportInv'
<1> DEFINE row == [probes[t] EXCEPT !.pc = "wrapping", !.leg = "provider"]
<1>1. probes[t] \in ProbeRow
  BY ProbeIsRow
<1>2. row \in ProbeRow /\ row.pc = "wrapping"
  <2>1. "wrapping" \in Stages
    BY DEF Stages
  <2>2. QED
    BY <1>1, <2>1, ChangedRow
<1>3. Try(t, "tunnelling", row)
  BY DEF Tunnel
<1>4. /\ "tunnelling" \in Stages \ {"counting", "queueing"} /\ "wrapping" \in Connected
  BY DEF Stages, Connected, Apart
<1> HIDE DEF row
<1>5. QED
  BY <1>2, <1>3, <1>4, TryStep

LEMMA WrapStep ==
  ASSUME TransportInv, NEW t \in Probes, Wrap(t)
  PROVE  TransportInv'
<1> DEFINE row == [probes[t] EXCEPT !.pc = "replacing", !.socket = "tls"]
<1>1. probes[t] \in ProbeRow
  BY ProbeIsRow
<1>2. row \in ProbeRow /\ row.pc = "replacing"
  <2>1. "replacing" \in Stages
    BY DEF Stages
  <2>2. QED
    BY <1>1, <2>1, ChangedRow
<1>3. Try(t, "wrapping", row)
  BY DEF Wrap
<1>4. /\ "wrapping" \in Stages \ {"counting", "queueing"} /\ "replacing" \in Connected
  BY DEF Stages, Connected, Apart
<1> HIDE DEF row
<1>5. QED
  BY <1>2, <1>3, <1>4, TryStep

LEMMA ReplaceSocketStep ==
  ASSUME TransportInv, NEW t \in Probes, ReplaceSocket(t)
  PROVE  TransportInv'
<1> DEFINE row == [probes[t] EXCEPT !.pc = "starting", !.guarded = "tls"]
<1>1. probes[t] \in ProbeRow
  BY ProbeIsRow
<1>2. row \in ProbeRow /\ row.pc = "starting"
  <2>1. "starting" \in Stages
    BY DEF Stages
  <2>2. QED
    BY <1>1, <2>1, ChangedRow
<1>3. Set(t, row) /\ UNCHANGED Pool /\ probes[t].pc = "replacing"
  BY DEF ReplaceSocket
<1>4. "starting" \in Connected
  BY DEF Stages, Connected, Apart
<1> HIDE DEF row
<1>5. QED
  BY <1>2, <1>3, <1>4, CallStep, ConnectedIsClean

\* Steps that only move the call on within the exchange.
LEMMA OnwardStep ==
  ASSUME TransportInv, NEW t \in Probes,
         Begin(t) \/ PeerAnswers(t) \/ ReadBounded(t)
  PROVE  TransportInv'
<1>1. probes[t] \in ProbeRow
  BY ProbeIsRow
<1>2. /\ {"starting", "exchanging", "reading", "answered"} \subseteq Connected
      /\ {"starting", "exchanging", "reading", "answered"} \subseteq
           Stages \ {"counting", "queueing"}
  BY DEF Stages, Connected, Apart
<1>3. CASE Begin(t)
  <2>1. Try(t, "starting", [probes[t] EXCEPT !.pc = "exchanging"])
    BY <1>3 DEF Begin
  <2>2. /\ [probes[t] EXCEPT !.pc = "exchanging"] \in ProbeRow
        /\ [probes[t] EXCEPT !.pc = "exchanging"].pc = "exchanging"
    BY <1>1, <1>2, At
  <2>3. QED
    BY <1>2, <2>1, <2>2, TryStep
<1>4. CASE PeerAnswers(t)
  <2>1. /\ Set(t, [probes[t] EXCEPT !.pc = "reading"]) /\ UNCHANGED Pool
        /\ probes[t].pc = "exchanging"
    BY <1>4 DEF PeerAnswers
  <2>2. /\ [probes[t] EXCEPT !.pc = "reading"] \in ProbeRow
        /\ [probes[t] EXCEPT !.pc = "reading"].pc = "reading"
    BY <1>1, <1>2, At
  <2>3. QED
    BY <1>2, <2>1, <2>2, CallStep, ConnectedIsClean
<1>5. CASE ReadBounded(t)
  <2>1. Try(t, "reading", [probes[t] EXCEPT !.pc = "answered"])
    BY <1>5 DEF ReadBounded
  <2>2. /\ [probes[t] EXCEPT !.pc = "answered"] \in ProbeRow
        /\ [probes[t] EXCEPT !.pc = "answered"].pc = "answered"
    BY <1>1, <1>2, At
  <2>3. QED
    BY <1>2, <2>1, <2>2, TryStep
<1>6. QED
  BY <1>3, <1>4, <1>5

\* An exchange that ends has closed its socket.
LEMMA EndStep ==
  ASSUME TransportInv, NEW t \in Probes,
         PeerFails(t) \/ SocketClosed(t) \/ ReadSecret(t) \/ ReadReply(t)
  PROVE  TransportInv'
<1>0. probes[t] \in ProbeRow
  BY ProbeIsRow
<1>1. CASE Set(t, Close(probes[t], "failed"))
  BY <1>1, FailStep DEF PeerFails, SocketClosed, ReadSecret, ReadReply
<1>2. CASE ReadReply(t) /\ Set(t, Close(probes[t], "succeeded"))
  <2>1. "succeeded" \in Stages
    BY DEF Stages
  <2>2. /\ Close(probes[t], "succeeded") \in ProbeRow
        /\ Close(probes[t], "succeeded").pc = "succeeded"
        /\ Clean(Close(probes[t], "succeeded"))
    BY <1>0, <2>1, CloseRow
  <2>3. probes[t].pc = "answered" /\ UNCHANGED Pool
    BY <1>2 DEF ReadReply
  <2>4. QED
    BY <1>2, <2>2, <2>3, CallStep
<1>3. CASE /\ ReadSecret(t)
           /\ Set(t, [Close(probes[t], IF Proxied THEN "proxying" ELSE "connecting")
                        EXCEPT !.leg = "provider"])
  <2> DEFINE stage == IF Proxied THEN "proxying" ELSE "connecting"
             closed == Close(probes[t], stage)
             row == [closed EXCEPT !.leg = "provider"]
  <2>1. stage \in Stages /\ stage \notin {"counting", "queueing"}
    BY DEF Stages
  <2>2. /\ closed \in ProbeRow /\ closed.pc = stage /\ closed.socket = "none"
        /\ closed.timer = "off"
    BY <1>0, <2>1, CloseRow
  <2>3. Set(t, row)
    BY <1>3
  <2> HIDE DEF closed, stage
  <2>4. row \in ProbeRow /\ row.pc = stage /\ row.socket = "none" /\ row.timer = "off"
    BY <2>2 DEF ProbeRow
  <2>5. probes[t].pc = "answered" /\ UNCHANGED Pool
    BY <1>3 DEF ReadSecret
  <2> HIDE DEF row
  <2>6. QED
    BY <2>1, <2>3, <2>4, <2>5, CallStep DEF Clean
<1>4. QED
  BY <1>1, <1>2, <1>3 DEF PeerFails, SocketClosed, ReadSecret, ReadReply

LEMMA DoneStep ==
  ASSUME TransportInv, NEW t \in Probes, Done(t)
  PROVE  TransportInv'
<1>1. Silent \in ProbeRow /\ Silent.pc = "idle" /\ Clean(Silent)
  BY DEF Silent, ProbeRow, Stages, Clean
<1>2. QED
  BY <1>1, CallStep DEF Done

\* The deadline and the timer leave the call where it is; a timer that is on
\* belongs to a connection.
LEMMA TimerSteps ==
  ASSUME TransportInv, NEW t \in Probes, TimerStep(t)
  PROVE  TransportInv'
<1>0. probes[t] \in ProbeRow /\ Clean(probes[t])
  BY ProbeIsRow
<1>1. CASE Expire(t)
  <2> DEFINE row == [probes[t] EXCEPT !.late = TRUE]
  <2>1. /\ row \in ProbeRow /\ row.pc = probes[t].pc /\ row.socket = probes[t].socket
        /\ row.timer = probes[t].timer
    BY <1>0 DEF ProbeRow
  <2>2. Set(t, row) /\ UNCHANGED Pool
    BY <1>1 DEF Expire
  <2> HIDE DEF row
  <2>3. Clean(row)
    BY <1>0, <2>1 DEF Clean
  <2>4. QED
    BY <2>1, <2>2, <2>3, CallStep
<1>2. CASE Fire(t)
  <2> DEFINE row == [probes[t] EXCEPT !.timer = "firing"]
  <2>1. row \in ProbeRow /\ row.pc = probes[t].pc
    BY <1>0 DEF ProbeRow
  <2>2. Set(t, row) /\ UNCHANGED Pool /\ probes[t].pc \notin Apart
    BY <1>0, <1>2 DEF Fire, Clean
  <2> HIDE DEF row
  <2>3. Clean(row)
    BY <2>1, <2>2 DEF Clean
  <2>4. QED
    BY <2>1, <2>2, <2>3, CallStep
<1>3. CASE CloseGuarded(t)
  <2> DEFINE socket == IF probes[t].guarded = probes[t].socket THEN "closed"
                       ELSE probes[t].socket
             row == [probes[t] EXCEPT !.timer = "fired", !.socket = socket]
  <2>1. socket \in {"none", "raw", "tls", "closed"}
    BY <1>0 DEF ProbeRow
  <2>2. Set(t, row) /\ UNCHANGED Pool /\ probes[t].pc \notin Apart
    BY <1>0, <1>3 DEF CloseGuarded, Clean
  <2> HIDE DEF socket
  <2>3. row \in ProbeRow /\ row.pc = probes[t].pc
    BY <1>0, <2>1 DEF ProbeRow
  <2> HIDE DEF row
  <2>4. Clean(row)
    BY <2>2, <2>3 DEF Clean
  <2>5. QED
    BY <2>2, <2>3, <2>4, CallStep
<1>4. QED
  BY <1>1, <1>2, <1>3 DEF TimerStep

LEMMA ResolvedStep ==
  ASSUME TransportInv, NEW t \in Probes, Resolved(t)
  PROVE  TransportInv'
<1>0. /\ probes[t] \in ProbeRow /\ Clean(probes[t]) /\ probes[t].pc = "resolving"
      /\ UNCHANGED Pool
  BY ProbeIsRow DEF Resolved
<1>1. probes[t].socket = "none" /\ probes[t].timer = "off"
  BY <1>0 DEF Clean, Apart
<1>2. CASE Set(t, [probes[t] EXCEPT !.pc = "failed"])
  <2> DEFINE row == [probes[t] EXCEPT !.pc = "failed"]
  <2>1. row \in ProbeRow /\ row.pc = "failed" /\ Clean(row)
    BY <1>0, Apartly DEF Apart
  <2> HIDE DEF row
  <2>2. Set(t, row)
    BY <1>2 DEF row
  <2>3. QED
    BY <1>0, <2>1, <2>2, CallStep
<1>3. ASSUME NEW next \in Connecting(probes[t]), Set(t, next)
      PROVE  TransportInv'
  <2>1. PICK leg \in {"secret", "local", "tunnel"}, late \in BOOLEAN :
          next = [pc |-> "connecting", result |-> "empty", leg |-> leg, late |-> late,
                  socket |-> probes[t].socket, timer |-> probes[t].timer,
                  guarded |-> probes[t].guarded]
    <3>1. probes[t].late \in BOOLEAN
      BY <1>0 DEF ProbeRow
    <3>2. CASE next = [probes[t] EXCEPT !.pc = "connecting", !.result = "empty",
                                        !.leg = "secret"]
      BY <1>0, <3>1, <3>2 DEF ProbeRow
    <3>3. CASE next = [probes[t] EXCEPT !.pc = "connecting", !.result = "empty",
                                        !.leg = "local", !.late = FALSE]
      BY <1>0, <3>1, <3>3 DEF ProbeRow
    <3>4. CASE next = [probes[t] EXCEPT !.pc = "connecting", !.result = "empty",
                                        !.leg = "tunnel"]
      BY <1>0, <3>1, <3>4 DEF ProbeRow
    <3>5. QED
      BY <1>3, <3>2, <3>3, <3>4 DEF Connecting
  <2>2. /\ next \in ProbeRow /\ next.pc = "connecting" /\ next.socket = "none"
        /\ next.timer = "off"
    <3>1. "connecting" \in Stages
      BY DEF Stages
    <3>2. next \in ProbeRow
      BY <1>0, <2>1, <3>1 DEF ProbeRow
    <3>3. QED
      BY <1>1, <2>1, <3>2
  <2>3. QED
    BY <1>0, <1>3, <2>2, CallStep DEF Clean
<1>4. QED
  BY <1>2, <1>3 DEF Resolved

LEMMA TransportStepInv == TransportInv /\ [TransportNext]_transportVars => TransportInv'
<1> SUFFICES ASSUME TransportInv, [TransportNext]_transportVars PROVE TransportInv'
  OBVIOUS
<1>1. CASE UNCHANGED transportVars
  BY <1>1 DEF transportVars, TransportInv, RowsOK, PermitsAreKept, JobsAreCounted, CallsAreClean,
              Counted, Queueing, Busy
<1>2. ASSUME NEW w \in Workers, WorkerStep(w)
      PROVE  TransportInv'
  BY <1>2, TakeStep, AnswerStep, UncountStep, ReleaseStep DEF WorkerStep
<1>3. ASSUME NEW t \in Probes, CallerStep(t)
      PROVE  TransportInv'
  BY <1>3, CountStep, EnqueueStep, ResolvedStep, GiveUpStep, ConnectStep, WrapStep,
     ReplaceSocketStep, OnwardStep, EndStep, TunnelStep, DoneStep, AcquireStep DEF CallerStep
<1>4. QED
  BY <1>1, <1>2, <1>3, AcquireStep, TimerSteps, OnwardStep, EndStep DEF TransportNext

LEMMA TransportInvHolds == TransportSpec => []TransportInv
BY TransportInitInv, TransportStepInv, PTL DEF TransportSpec

\* The pool's counters and queue and the owners of its jobs stay in their types:
\* no counter goes below zero or above its limit.
THEOREM TransportTypeCorrect == TransportSpec => []TransportTypeOK
<1>1. TransportInv => TransportTypeOK
  <2> SUFFICES ASSUME TransportInv PROVE TransportTypeOK
    OBVIOUS
  <2>1. permits + Len(jobs) + Cardinality(BusyOnes) + Cardinality(Waiting) = MaxOutstanding
    BY Permits DEF TransportInv
  <2>2. permits \in Nat /\ Len(jobs) \in Nat
    BY DEF TransportInv, RowsOK
  <2>3. Cardinality(Counted) <= Cardinality(BusyOnes)
    <3>1. Counted \subseteq BusyOnes
      BY DEF Counted, BusyOnes, Busy
    <3>2. QED
      BY <3>1, SetsOfCallers, Finite, FS_Subset
  <2>4. Cardinality(Queueing) <= Cardinality(Waiting)
    <3>1. Queueing \subseteq Waiting
      BY DEF Queueing, Waiting
    <3>2. QED
      BY <3>1, SetsOfCallers, Finite, FS_Subset
  <2>5. permits \in 0..MaxOutstanding
    BY <2>1, <2>2, CountsAreNat
  <2>6. outstanding \in 0..MaxOutstanding
    BY <2>1, <2>2, <2>3, <2>4, CountsAreNat DEF TransportInv, JobsAreCounted
  <2>7. QED
    BY <2>5, <2>6 DEF TransportInv, RowsOK, WorkerRow, TransportTypeOK
<1>2. QED
  BY <1>1, TransportInvHolds, PTL

\* No permit is lost or made up.
THEOREM PoolKeepsItsPermits == TransportSpec => []PermitsAreKept
BY TransportInvHolds, PTL DEF TransportInv

\* A call with a permit always finds room in the queue.
THEOREM PermitsFindRoom == TransportSpec => []QueueHasRoom
BY TransportInvHolds, RoomForPermit, PTL

\* No socket and no timer outlives its exchange.
THEOREM SocketsAreClosed == TransportSpec => []NoSocketLeaks
<1>1. TransportInv => NoSocketLeaks
  BY DEF TransportInv, CallsAreClean, Clean, Apart, NoSocketLeaks
<1>2. QED
  BY <1>1, TransportInvHolds, PTL

-----------------------------------------------------------------------------
(***************************************************************************)
(* ModelCalls.  A rewrite under way has measured the primary, if it asks   *)
(* the fallback, and nothing else; its version ran when it began, and      *)
(* versions are only replaced by later ones.                               *)
(***************************************************************************)
Texts == {"none", "input_rejected", "route_unavailable", "succeeded", "failed", "known", "unknown",
          "classify_service_stage", "generate_candidate"}

Invocation == [node : Texts, status : {"none", "succeeded", "failed"}]

Outcomes == {"succeeded", "rejected", "timed_out", "failed"}

CallRow ==
  [ pc : {"idle", "asking", "measuring", "returned", "raised", "calling", "tracing", "traced"},
    version : 0..VersionBound, fallback : BOOLEAN, role : Roles, attempt : 0..Attempts,
    answer : ProviderAnswers \cup {"none"}, measured : Seq(Texts \cup (Roles \X Outcomes)),
    reply : Texts, node : Texts ]

\* What a rewrite that has not returned has measured.
SoFar(call) ==
  \/ call.role = "primary" /\ call.measured = <<>>
  \/ /\ call.role = "fallback" /\ call.fallback
     /\ \E s \in Outcomes \ {"succeeded"} : call.measured = << << "primary", s >> >>

Sound(call) ==
  /\ call \in CallRow
  /\ call.pc = "idle" => call = NoCall
  /\ call.pc \in {"asking", "measuring", "raised"} => SoFar(call) /\ call.version > 0
  /\ call.pc = "measuring" => call.answer \in ProviderAnswers
  /\ call.pc = "returned" =>
       /\ Len(call.measured) <= 2
       /\ call.version > 0 => Measured(call)
  /\ call.pc \in {"calling", "tracing"} => call.measured = <<>>
  /\ call.pc = "traced" => Len(call.measured) <= 2

\* The version of a call is or was running.
Recent(call, version) ==
  call.version <= version /\ (call.pc = "raised" => call.version < version)

CallsInv ==
  /\ running \in 0..VersionBound
  /\ calls \in [Executors -> CallRow]
  /\ \A t \in Executors : Sound(calls[t]) /\ Recent(calls[t], running)
  /\ lastInvocation \in Invocation

LEMMA NoCallIsSound ==
  /\ Sound(NoCall) /\ NoCall \in CallRow /\ NoCall.version = 0 /\ NoCall.pc = "idle"
  /\ NoCall.measured = <<>>
<1>1. NoCall \in CallRow
  BY DEF NoCall, CallRow, Roles, Texts
<1>2. QED
  BY <1>1 DEF Sound, NoCall

LEMMA CallsInitInv == CallsInit => CallsInv
<1> SUFFICES ASSUME CallsInit PROVE CallsInv
  OBVIOUS
<1>1. \A t \in Executors : calls[t] = NoCall
  BY DEF CallsInit
<1>2. running = 0 /\ lastInvocation \in Invocation
  BY DEF CallsInit, NoInvocation, Invocation, Texts
<1>3. calls \in [Executors -> CallRow]
  BY NoCallIsSound DEF CallsInit
<1>4. Recent(NoCall, 0)
  BY NoCallIsSound DEF Recent
<1>5. \A t \in Executors : Sound(calls[t]) /\ Recent(calls[t], running)
  BY <1>1, <1>2, <1>4, NoCallIsSound
<1>6. QED
  BY <1>2, <1>3, <1>5 DEF CallsInv

\* A step of one call.
LEMMA UpdateStep ==
  ASSUME CallsInv, NEW t \in Executors, NEW call, Update(t, call), Sound(call), Recent(call, running),
         running' = running,
         lastInvocation' \in Invocation
  PROVE  CallsInv'
<1>1. call \in CallRow
  BY DEF Sound
<1>2. calls' \in [Executors -> CallRow]
  BY <1>1 DEF CallsInv, Update
<1>3. \A u \in Executors : calls'[u] = IF u = t THEN call ELSE calls[u]
  BY DEF CallsInv, Update
<1>4. \A u \in Executors : Sound(calls'[u]) /\ Recent(calls'[u], running')
  BY <1>3 DEF CallsInv
<1>5. QED
  BY <1>2, <1>4 DEF CallsInv

LEMMA VersionsAreNat ==
  ASSUME NEW call \in CallRow
  PROVE  call.version \in Nat
<1>1. call.version \in 0..VersionBound
  BY DEF CallRow
<1>2. QED
  BY <1>1

LEMMA PublishStep == CallsInv /\ Publish => CallsInv'
<1> SUFFICES ASSUME CallsInv, Publish PROVE CallsInv'
  OBVIOUS
<1>1. /\ running \in 0..VersionBound /\ running' = running + 1 /\ running < VersionBound
      /\ UNCHANGED << calls, lastInvocation >>
  BY DEF CallsInv, Publish
<1>2. ASSUME NEW t \in Executors
      PROVE  Recent(calls[t], running')
  <2>1. calls[t] \in CallRow /\ Recent(calls[t], running)
    BY DEF CallsInv
  <2>2. calls[t].version \in Nat
    BY <2>1, VersionsAreNat
  <2>3. QED
    BY <1>1, <2>1, <2>2 DEF Recent
<1>3. QED
  BY <1>1, <1>2 DEF CallsInv

(***************************************************************************)
(* Rows of a rewrite.                                                      *)
(***************************************************************************)
LEMMA ReturnedRow ==
  ASSUME NEW status \in Texts
  PROVE  LET row == [NoCall EXCEPT !.pc = "returned", !.reply = status]
         IN  Sound(row) /\ row.version = 0 /\ row.pc = "returned"
<1> DEFINE row == [NoCall EXCEPT !.pc = "returned", !.reply = status]
<1>1. row = [NoCall EXCEPT !.pc = "returned", !.reply = status]
  OBVIOUS
<1> HIDE DEF row
<1>2. row = [pc |-> "returned", version |-> 0, fallback |-> FALSE, role |-> "primary",
             attempt |-> 0, answer |-> "none", measured |-> <<>>, reply |-> status,
             node |-> "none"]
  BY <1>1 DEF NoCall
<1>3. row \in CallRow
  BY <1>2 DEF CallRow, Roles, Texts
<1>4. Sound(row) /\ row.version = 0 /\ row.pc = "returned"
  BY <1>2, <1>3 DEF Sound
<1>5. QED
  BY <1>4 DEF row

LEMMA AskingRow ==
  ASSUME NEW version \in 1..VersionBound, NEW fallback \in BOOLEAN
  PROVE  LET row == [NoCall EXCEPT !.pc = "asking", !.version = version,
                                   !.fallback = fallback, !.attempt = 1]
         IN  Sound(row) /\ row.version = version /\ row.pc = "asking"
<1> DEFINE row == [NoCall EXCEPT !.pc = "asking", !.version = version,
                                 !.fallback = fallback, !.attempt = 1]
<1>1. row = [NoCall EXCEPT !.pc = "asking", !.version = version,
                           !.fallback = fallback, !.attempt = 1]
  OBVIOUS
<1> HIDE DEF row
<1>2. row = [pc |-> "asking", version |-> version, fallback |-> fallback, role |-> "primary",
             attempt |-> 1, answer |-> "none", measured |-> <<>>, reply |-> "none",
             node |-> "none"]
  BY <1>1 DEF NoCall
<1>3. row \in CallRow
  BY <1>2 DEF CallRow, Roles, Texts
<1>4. Sound(row) /\ row.version = version /\ row.pc = "asking"
  BY <1>2, <1>3 DEF Sound, SoFar
<1>5. QED
  BY <1>4 DEF row

LEMMA RewriteStep ==
  ASSUME CallsInv, NEW t \in Executors, RewriteGrounded(t)
  PROVE  CallsInv'
<1>1. calls[t] = NoCall /\ UNCHANGED << running, lastInvocation >>
  BY DEF RewriteGrounded, CallsInv, Sound
<1>2. /\ lastInvocation' \in Invocation
      /\ running \in 0..VersionBound
  BY <1>1 DEF CallsInv
<1>3. ASSUME NEW status \in Texts, Update(t, Returned(t, status))
      PROVE  CallsInv'
  <2> DEFINE row == [NoCall EXCEPT !.pc = "returned", !.reply = status]
  <2>1. Update(t, row)
    BY <1>1, <1>3 DEF Returned
  <2>2. Sound(row) /\ row.version = 0 /\ row.pc = "returned"
    BY ReturnedRow
  <2> HIDE DEF row
  <2>3. Recent(row, running)
    BY <1>2, <2>2 DEF Recent
  <2>4. QED
    BY <1>1, <1>2, <2>1, <2>2, <2>3, UpdateStep
<1>4. ASSUME NEW active \in SUBSET Roles, ResolvesRoute(active),
             Update(t, [NoCall EXCEPT !.pc = "asking", !.version = running,
                          !.fallback = "fallback" \in active, !.attempt = 1])
      PROVE  CallsInv'
  <2> DEFINE fallback == "fallback" \in active
             row == [NoCall EXCEPT !.pc = "asking", !.version = running,
                                   !.fallback = fallback, !.attempt = 1]
  <2>1. running \in 1..VersionBound
    BY <1>2, <1>4 DEF ResolvesRoute
  <2>2. fallback \in BOOLEAN
    OBVIOUS
  <2>3. Update(t, row)
    BY <1>4
  <2> HIDE DEF fallback
  <2>4. Sound(row) /\ row.version = running /\ row.pc = "asking"
    BY <2>1, <2>2, AskingRow
  <2> HIDE DEF row
  <2>5. Recent(row, running)
    BY <2>1, <2>4 DEF Recent
  <2>6. QED
    BY <1>1, <1>2, <2>3, <2>4, <2>5, UpdateStep
<1>5. "input_rejected" \in Texts /\ "route_unavailable" \in Texts
  BY DEF Texts
<1>6. PICK active \in SUBSET Roles :
        \/ Update(t, Returned(t, "input_rejected"))
        \/ /\ ResolvesRoute(active)
           /\ Update(t, [NoCall EXCEPT !.pc = "asking", !.version = running,
                          !.fallback = "fallback" \in active, !.attempt = 1])
        \/ Update(t, Returned(t, "route_unavailable"))
  BY DEF RewriteGrounded
<1>7. QED
  BY <1>3, <1>4, <1>5, <1>6

LEMMA AgainRow ==
  ASSUME NEW call, Sound(call), call.pc = "asking", call.attempt < Attempts
  PROVE  LET row == [call EXCEPT !.attempt = call.attempt + 1]
         IN  Sound(row) /\ row.version = call.version /\ row.pc = "asking"
<1> DEFINE row == [call EXCEPT !.attempt = call.attempt + 1]
<1>0. call \in CallRow /\ SoFar(call) /\ call.version > 0
  BY DEF Sound
<1>1. row = [call EXCEPT !.attempt = call.attempt + 1]
  OBVIOUS
<1> HIDE DEF row
<1>2. row = [pc |-> call.pc, version |-> call.version, fallback |-> call.fallback,
             role |-> call.role, attempt |-> call.attempt + 1, answer |-> call.answer,
             measured |-> call.measured, reply |-> call.reply, node |-> call.node]
  BY <1>0, <1>1 DEF CallRow
<1>3. call.attempt + 1 \in 0..Attempts
  BY <1>0 DEF CallRow
<1>4. row \in CallRow
  BY <1>0, <1>2, <1>3 DEF CallRow
<1>5. SoFar(row)
  BY <1>0, <1>2 DEF SoFar
<1>6. Sound(row) /\ row.version = call.version /\ row.pc = "asking"
  BY <1>0, <1>2, <1>4, <1>5 DEF Sound
<1>7. QED
  BY <1>6 DEF row

LEMMA AnsweredRow ==
  ASSUME NEW call, Sound(call), call.pc = "asking", NEW answer \in ProviderAnswers
  PROVE  LET row == [call EXCEPT !.answer = answer, !.pc = "measuring"]
         IN  Sound(row) /\ row.version = call.version /\ row.pc = "measuring"
<1> DEFINE row == [call EXCEPT !.answer = answer, !.pc = "measuring"]
<1>0. call \in CallRow /\ SoFar(call) /\ call.version > 0
  BY DEF Sound
<1>1. row = [call EXCEPT !.answer = answer, !.pc = "measuring"]
  OBVIOUS
<1> HIDE DEF row
<1>2. row = [pc |-> "measuring", version |-> call.version, fallback |-> call.fallback,
             role |-> call.role, attempt |-> call.attempt, answer |-> answer,
             measured |-> call.measured, reply |-> call.reply, node |-> call.node]
  BY <1>0, <1>1 DEF CallRow
<1>3. row \in CallRow
  BY <1>0, <1>2 DEF CallRow
<1>4. SoFar(row)
  BY <1>0, <1>2 DEF SoFar
<1>5. Sound(row) /\ row.version = call.version /\ row.pc = "measuring"
  BY <1>0, <1>2, <1>3, <1>4 DEF Sound
<1>6. QED
  BY <1>5 DEF row

LEMMA CallIsSound ==
  ASSUME CallsInv, NEW t \in Executors
  PROVE  /\ Sound(calls[t]) /\ Recent(calls[t], running) /\ calls[t] \in CallRow
         /\ calls[t].version \in Nat /\ running \in Nat
         /\ lastInvocation \in Invocation
BY DEF CallsInv, CallRow

LEMMA GenerateStep ==
  ASSUME CallsInv, NEW t \in Executors, Generate(t)
  PROVE  CallsInv'
<1>1. calls[t].pc = "asking" /\ UNCHANGED << running, lastInvocation >>
  BY DEF Generate
<1>2. PICK answer \in ProviderAnswers :
        Update(t, IF Again(calls[t], answer)
                    THEN [calls[t] EXCEPT !.attempt = calls[t].attempt + 1]
                    ELSE [calls[t] EXCEPT !.answer = answer, !.pc = "measuring"])
  BY DEF Generate
<1>3. CASE Again(calls[t], answer)
  <2> DEFINE row == [calls[t] EXCEPT !.attempt = calls[t].attempt + 1]
  <2>1. Update(t, row)
    BY <1>2, <1>3
  <2>2. Sound(row) /\ row.version = calls[t].version /\ row.pc = "asking"
    BY <1>1, <1>3, CallIsSound, AgainRow DEF Again
  <2> HIDE DEF row
  <2>3. Recent(row, running)
    BY <2>2, CallIsSound DEF Recent
  <2>4. QED
    BY <1>1, <2>1, <2>2, <2>3, CallIsSound, UpdateStep
<1>4. CASE ~Again(calls[t], answer)
  <2> DEFINE row == [calls[t] EXCEPT !.answer = answer, !.pc = "measuring"]
  <2>1. Update(t, row)
    BY <1>2, <1>4
  <2>2. Sound(row) /\ row.version = calls[t].version /\ row.pc = "measuring"
    BY <1>1, CallIsSound, AnsweredRow
  <2> HIDE DEF row
  <2>3. Recent(row, running)
    BY <2>2, CallIsSound DEF Recent
  <2>4. QED
    BY <1>1, <2>1, <2>2, <2>3, CallIsSound, UpdateStep
<1>5. QED
  BY <1>3, <1>4

(***************************************************************************)
(* The metric of an attempt, and what follows it.                          *)
(***************************************************************************)
LEMMA StatusIsOutcome ==
  ASSUME NEW answer \in ProviderAnswers
  PROVE  /\ MetricStatus(answer) \in Outcomes
         /\ MetricStatus(answer) = "succeeded" <=> answer = "safe"
BY DEF MetricStatus, Outcomes, ProviderAnswers, Retryable

LEMMA AppendToNone ==
  ASSUME NEW x
  PROVE  Append(<<>>, x) = << x >>
<1> DEFINE s == Append(<<>>, x)
           u == << x >>
<1>1. <<>> \in Seq({x}) /\ x \in {x}
  OBVIOUS
<1>2. /\ s \in Seq({x}) /\ Len(s) = 1 /\ s[1] = x
  BY <1>1
<1>3. /\ u \in Seq({x}) /\ Len(u) = 1 /\ u[1] = x
  OBVIOUS
<1> HIDE DEF s, u
<1>4. \A i \in 1..Len(s) : s[i] = u[i]
  <2>1. \A i \in 1..1 : i = 1
    OBVIOUS
  <2>2. QED
    BY <1>2, <1>3, <2>1
<1>5. s = u
  BY <1>2, <1>3, <1>4, SeqEqual
<1>6. QED
  BY <1>5 DEF s, u

LEMMA AppendToOne ==
  ASSUME NEW x, NEW y
  PROVE  Append(<< x >>, y) = << x, y >>
<1> DEFINE s == Append(<< x >>, y)
           u == << x, y >>
<1>1. << x >> \in Seq({x, y}) /\ y \in {x, y}
  OBVIOUS
<1>2. /\ s \in Seq({x, y}) /\ Len(s) = 2 /\ s[1] = x /\ s[2] = y
  BY <1>1
<1>3. /\ u \in Seq({x, y}) /\ Len(u) = 2 /\ u[1] = x /\ u[2] = y
  OBVIOUS
<1> HIDE DEF s, u
<1>4. \A i \in 1..Len(s) : s[i] = u[i]
  <2>1. \A i \in 1..2 : i = 1 \/ i = 2
    OBVIOUS
  <2>2. QED
    BY <1>2, <1>3, <2>1
<1>5. s = u
  BY <1>2, <1>3, <1>4, SeqEqual
<1>6. QED
  BY <1>5 DEF s, u

LEMMA OnePair ==
  ASSUME NEW a, NEW b, NEW rows, rows = << << a, b >> >>
  PROVE  Len(rows) = 1 /\ rows # <<>> /\ rows[1][1] = a /\ rows[1][2] = b
<1> DEFINE x == << a, b >>
<1>1. rows = << x >>
  OBVIOUS
<1>2. x[1] = a /\ x[2] = b
  OBVIOUS
<1> HIDE DEF x
<1>3. Len(rows) = 1 /\ rows # <<>> /\ rows[1] = x
  BY <1>1
<1>4. QED
  BY <1>2, <1>3

LEMMA TwoPairs ==
  ASSUME NEW a, NEW b, NEW c, NEW d, NEW rows, rows = << << a, b >>, << c, d >> >>
  PROVE  /\ Len(rows) = 2 /\ rows # <<>> /\ rows[1][1] = a /\ rows[1][2] = b
         /\ rows[2][1] = c /\ rows[2][2] = d
<1> DEFINE x == << a, b >>
           y == << c, d >>
<1>1. rows = << x, y >>
  OBVIOUS
<1>2. x[1] = a /\ x[2] = b /\ y[1] = c /\ y[2] = d
  OBVIOUS
<1> HIDE DEF x, y
<1>3. Len(rows) = 2 /\ rows # <<>> /\ rows[1] = x /\ rows[2] = y
  BY <1>1
<1>4. QED
  BY <1>2, <1>3

\* What has been measured after another attempt.
LEMMA OneMore ==
  ASSUME NEW call, Sound(call), call.pc = "measuring",
         NEW rows, rows = Append(call.measured, << call.role, MetricStatus(call.answer) >>)
  PROVE  /\ rows \in Seq(Texts \cup (Roles \X Outcomes))
         /\ call.role = "primary" =>
              rows = << << "primary", MetricStatus(call.answer) >> >>
         /\ call.role = "fallback" => call.fallback /\
              \E s \in Outcomes \ {"succeeded"} :
                rows = << << "primary", s >>, << "fallback", MetricStatus(call.answer) >> >>
<1>1. /\ call \in CallRow /\ SoFar(call) /\ call.answer \in ProviderAnswers
  BY DEF Sound
<1>2. MetricStatus(call.answer) \in Outcomes
  BY <1>1, StatusIsOutcome
<1>3. /\ call.role \in Roles /\ call.measured \in Seq(Texts \cup (Roles \X Outcomes))
      /\ << call.role, MetricStatus(call.answer) >> \in Roles \X Outcomes
  BY <1>1, <1>2 DEF CallRow
<1>4. rows \in Seq(Texts \cup (Roles \X Outcomes))
  BY <1>3
<1>5. CASE call.role = "primary"
  <2>1. call.measured = <<>>
    BY <1>1, <1>5 DEF SoFar
  <2> DEFINE x == << "primary", MetricStatus(call.answer) >>
  <2>2. rows = Append(<<>>, x)
    BY <1>5, <2>1
  <2> HIDE DEF x
  <2>3. rows = << x >>
    BY <2>2, AppendToNone
  <2>4. QED
    BY <1>4, <1>5, <2>3 DEF x
<1>6. CASE call.role = "fallback"
  <2>1. PICK s \in Outcomes \ {"succeeded"} :
          call.fallback /\ call.measured = << << "primary", s >> >>
    BY <1>1, <1>6 DEF SoFar
  <2> DEFINE x == << "primary", s >>
             y == << "fallback", MetricStatus(call.answer) >>
  <2>a. rows = Append(<< x >>, y)
    BY <1>6, <2>1
  <2> HIDE DEF x, y
  <2>b. rows = << x, y >>
    BY <2>a, AppendToOne
  <2>2. rows = << << "primary", s >>, << "fallback", MetricStatus(call.answer) >> >>
    BY <2>b DEF x, y
  <2>3. QED
    BY <1>4, <1>6, <2>1, <2>2
<1>7. QED
  BY <1>3, <1>4, <1>5, <1>6 DEF Roles

\* A rewrite that returns after the attempt has measured what it tried.
LEMMA ReturnsMeasured ==
  ASSUME NEW call, Sound(call), call.pc = "measuring",
         ~(call.answer # "safe" /\ call.role = "primary" /\ call.fallback),
         NEW row,
         row.measured = Append(call.measured, << call.role, MetricStatus(call.answer) >>),
         row.fallback = call.fallback,
         row.reply = IF call.answer = "safe" THEN "succeeded" ELSE "failed"
  PROVE  Measured(row) /\ Len(row.measured) <= 2
<1> DEFINE rows == row.measured
           status == MetricStatus(call.answer)
<1>1. call.answer \in ProviderAnswers /\ call.role \in Roles
  BY DEF Sound, CallRow
<1>2. status \in Outcomes /\ (status = "succeeded" <=> call.answer = "safe")
  BY <1>1, StatusIsOutcome
<1>3. /\ call.role = "primary" => rows = << << "primary", status >> >>
      /\ call.role = "fallback" => call.fallback /\
           \E s \in Outcomes \ {"succeeded"} :
             rows = << << "primary", s >>, << "fallback", status >> >>
  BY OneMore
<1>4. row.reply = IF status = "succeeded" THEN "succeeded" ELSE "failed"
  BY <1>2
<1>5. CASE call.role = "primary"
  <2>1. rows = << << "primary", status >> >> /\ (status # "succeeded" => ~call.fallback)
    BY <1>2, <1>3, <1>5
  <2> HIDE DEF rows, status
  <2>2. Len(rows) = 1 /\ rows[1][1] = "primary" /\ rows[1][2] = status /\ rows # <<>>
    BY <2>1, OnePair
  <2>3. \A i \in 1..Len(rows) : i = 1
    BY <2>2
  <2>4. row.fallback = TRUE => call.fallback = TRUE
    OBVIOUS
  <2>5. Measured(row)
    BY <1>4, <2>1, <2>2, <2>3 DEF Measured, rows
  <2>6. QED
    BY <2>2, <2>5 DEF rows
<1>6. CASE call.role = "fallback"
  <2>1. PICK s \in Outcomes \ {"succeeded"} :
          rows = << << "primary", s >>, << "fallback", status >> >>
    BY <1>3, <1>6
  <2>2. row.fallback
    BY <1>3, <1>6
  <2>3. /\ Len(rows) = 2 /\ rows # <<>> /\ rows[1][1] = "primary" /\ rows[1][2] = s
        /\ rows[2][1] = "fallback" /\ rows[2][2] = status
    BY <2>1, TwoPairs
  <2> HIDE DEF rows, status
  <2>4. \A i \in 1..Len(rows) : i = 1 \/ i = 2
    BY <2>3
  <2>5. Measured(row)
    BY <1>4, <2>2, <2>3, <2>4 DEF Measured, rows
  <2>6. QED
    BY <2>3, <2>5 DEF rows
<1>7. QED
  BY <1>1, <1>5, <1>6 DEF Roles

LEMMA MeasureStep ==
  ASSUME CallsInv, NEW t \in Executors, Measure(t)
  PROVE  CallsInv'
<1> DEFINE call == calls[t]
           rows == Append(call.measured, << call.role, MetricStatus(call.answer) >>)
           measured == [call EXCEPT !.measured = rows]
<1>1. call.pc = "measuring" /\ UNCHANGED << running, lastInvocation >>
  BY DEF Measure
<1>2. Update(t, IF running = call.version THEN AfterAttempt(measured)
                ELSE [call EXCEPT !.pc = "raised"])
  BY DEF Measure
<1>3. /\ Sound(call) /\ Recent(call, running) /\ call \in CallRow /\ call.version \in Nat
      /\ running \in Nat /\ lastInvocation' \in Invocation
  BY <1>1, CallIsSound
<1>4. /\ rows \in Seq(Texts \cup (Roles \X Outcomes))
      /\ call.role = "primary" => rows = << << "primary", MetricStatus(call.answer) >> >>
  BY <1>1, <1>3, OneMore
<1>5. call.version > 0 /\ SoFar(call) /\ call.answer \in ProviderAnswers
  BY <1>1, <1>3 DEF Sound
<1> HIDE DEF call
<1>6. CASE running # call.version
  <2> DEFINE row == [call EXCEPT !.pc = "raised"]
  <2>1. row \in CallRow
    BY <1>3 DEF CallRow
  <2>2. /\ row.pc = "raised" /\ row.version = call.version /\ row.role = call.role
        /\ row.measured = call.measured /\ row.fallback = call.fallback
    BY <1>3 DEF CallRow
  <2>3. Update(t, row)
    BY <1>2, <1>6
  <2> HIDE DEF row
  <2>4. SoFar(row)
    BY <1>5, <2>2 DEF SoFar
  <2>5. Sound(row)
    BY <1>5, <2>1, <2>2, <2>4 DEF Sound
  <2>6. Recent(row, running)
    BY <1>3, <1>6, <2>2 DEF Recent
  <2>7. QED
    BY <1>1, <1>3, <2>3, <2>5, <2>6, UpdateStep
<1>7. CASE running = call.version
  <2>1. measured = [pc |-> call.pc, version |-> call.version, fallback |-> call.fallback,
                    role |-> call.role, attempt |-> call.attempt, answer |-> call.answer,
                    measured |-> rows, reply |-> call.reply, node |-> call.node]
    <3>1. measured = [call EXCEPT !.measured = rows]
      OBVIOUS
    <3> HIDE DEF measured, rows
    <3>2. QED
      BY <1>3, <3>1 DEF CallRow
  <2>2. Update(t, AfterAttempt(measured))
    BY <1>2, <1>7
  <2> HIDE DEF measured, rows
  <2>3. measured \in CallRow
    BY <1>3, <1>4, <2>1 DEF CallRow
  <2>4. CASE call.answer # "safe" /\ call.role = "primary" /\ call.fallback
    <3> DEFINE row == [measured EXCEPT !.pc = "asking", !.role = "fallback", !.attempt = 1,
                                       !.answer = "none"]
    <3>1. row = [measured EXCEPT !.pc = "asking", !.role = "fallback", !.attempt = 1,
                                 !.answer = "none"]
      OBVIOUS
    <3>2. Update(t, row)
      BY <2>1, <2>2, <2>4 DEF AfterAttempt
    <3> HIDE DEF row
    <3>3. row = [pc |-> "asking", version |-> call.version, fallback |-> call.fallback,
                 role |-> "fallback", attempt |-> 1, answer |-> "none", measured |-> rows,
                 reply |-> call.reply, node |-> call.node]
      BY <2>1, <2>3, <3>1 DEF CallRow
    <3>4. row \in CallRow
      BY <1>3, <1>4, <3>3 DEF CallRow, Roles
    <3>5. SoFar(row)
      <4>1. MetricStatus(call.answer) \in Outcomes \ {"succeeded"}
        BY <1>5, <2>4, StatusIsOutcome
      <4>2. rows = << << "primary", MetricStatus(call.answer) >> >>
        BY <1>4, <2>4
      <4>3. QED
        BY <2>4, <3>3, <4>1, <4>2 DEF SoFar
    <3>6. Sound(row) /\ Recent(row, running)
      BY <1>3, <1>5, <3>3, <3>4, <3>5 DEF Sound, Recent
    <3>7. QED
      BY <1>1, <1>3, <3>2, <3>6, UpdateStep
  <2>5. CASE ~(call.answer # "safe" /\ call.role = "primary" /\ call.fallback)
    <3> DEFINE reply == IF call.answer = "safe" THEN "succeeded" ELSE "failed"
               row == [measured EXCEPT !.pc = "returned", !.answer = "none", !.reply = reply]
    <3>1. row = [measured EXCEPT !.pc = "returned", !.answer = "none", !.reply = reply]
      OBVIOUS
    <3>2. Update(t, row)
      BY <2>1, <2>2, <2>5 DEF AfterAttempt
    <3>3. reply \in Texts
      BY DEF Texts
    <3>4. reply = IF call.answer = "safe" THEN "succeeded" ELSE "failed"
      OBVIOUS
    <3> HIDE DEF row, reply
    <3>5. row = [pc |-> "returned", version |-> call.version, fallback |-> call.fallback,
                 role |-> call.role, attempt |-> call.attempt, answer |-> "none",
                 measured |-> rows, reply |-> reply, node |-> call.node]
      BY <2>1, <2>3, <3>1 DEF CallRow
    <3>6. row \in CallRow
      BY <1>3, <1>4, <3>3, <3>5 DEF CallRow
    <3>7. Measured(row) /\ Len(row.measured) <= 2
      <4>1. /\ row.measured = Append(call.measured, << call.role, MetricStatus(call.answer) >>)
            /\ row.fallback = call.fallback /\ row.reply = reply
        BY <3>5 DEF rows
      <4>2. call.pc = "measuring"
        BY <1>1 DEF call
      <4>3. QED
        BY <1>3, <2>5, <3>4, <4>1, <4>2, ReturnsMeasured
    <3>8. Sound(row) /\ Recent(row, running)
      BY <1>3, <3>5, <3>6, <3>7 DEF Sound, Recent
    <3>9. QED
      BY <1>1, <1>3, <3>2, <3>8, UpdateStep
  <2>6. QED
    BY <2>4, <2>5
<1>8. QED
  BY <1>6, <1>7

(***************************************************************************)
(* Steps of a node's call.                                                 *)
(***************************************************************************)
LEMMA CallNodeStep ==
  ASSUME CallsInv, NEW t \in Executors, CallNode(t)
  PROVE  CallsInv'
<1>1. PICK n \in {"classify_service_stage", "generate_candidate"} :
        Update(t, [NoCall EXCEPT !.pc = "calling", !.node = n])
  BY DEF CallNode
<1> DEFINE row == [NoCall EXCEPT !.pc = "calling", !.node = n]
<1>2. row = [NoCall EXCEPT !.pc = "calling", !.node = n]
  OBVIOUS
<1>3. Update(t, row)
  BY <1>1
<1> HIDE DEF row
<1>4. row = [pc |-> "calling", version |-> 0, fallback |-> FALSE, role |-> "primary",
             attempt |-> 0, answer |-> "none", measured |-> <<>>, reply |-> "none", node |-> n]
  BY <1>2 DEF NoCall
<1>5. row \in CallRow
  BY <1>4 DEF CallRow, Roles, Texts
<1>6. Sound(row)
  BY <1>4, <1>5 DEF Sound
<1>7. Recent(row, running)
  BY <1>4, CallIsSound DEF Recent
<1>8. QED
  BY <1>3, <1>6, <1>7, CallIsSound, UpdateStep DEF CallNode

LEMMA AnswerNodeStep ==
  ASSUME CallsInv, NEW t \in Executors, AnswerNode(t)
  PROVE  CallsInv'
<1> DEFINE call == calls[t]
<1>1. PICK status \in {"succeeded", "failed"}, reply \in Texts :
        /\ lastInvocation' = [node |-> call.node, status |-> status]
        /\ Update(t, [call EXCEPT !.pc = "tracing", !.reply = reply])
  <2>1. StageAnswers \cup {"succeeded", "failed"} \subseteq Texts
    BY DEF StageAnswers, Texts
  <2>2. \A baseline, parsed \in StageAnswers : Hybrid(baseline, parsed) \in Texts
    BY <2>1 DEF Hybrid
  <2>3. QED
    BY <2>1, <2>2 DEF AnswerNode
<1>2. call.pc = "calling" /\ running' = running
  BY DEF AnswerNode
<1>3. Sound(call) /\ call \in CallRow /\ Recent(call, running)
  BY CallIsSound
<1>4. lastInvocation' \in Invocation
  BY <1>1, <1>3 DEF Invocation, CallRow
<1>5. call.measured = <<>>
  BY <1>2, <1>3 DEF Sound
<1> DEFINE row == [call EXCEPT !.pc = "tracing", !.reply = reply]
<1>6. Update(t, row)
  BY <1>1
<1> HIDE DEF call
<1>7. row \in CallRow /\ row.pc = "tracing" /\ row.measured = <<>> /\ row.version = call.version
  BY <1>3, <1>5 DEF CallRow
<1> HIDE DEF row
<1>8. Sound(row) /\ Recent(row, running)
  BY <1>3, <1>7 DEF Sound, Recent
<1>9. QED
  BY <1>2, <1>4, <1>6, <1>8, UpdateStep

LEMMA TraceNodeStep ==
  ASSUME CallsInv, NEW t \in Executors, TraceNode(t)
  PROVE  CallsInv'
<1> DEFINE call == calls[t]
           rows == IF lastInvocation.node = call.node
                     THEN << lastInvocation.node, lastInvocation.status >> ELSE <<>>
           row == [call EXCEPT !.pc = "traced", !.measured = rows]
<1>1. Update(t, row) /\ UNCHANGED << running, lastInvocation >>
  BY DEF TraceNode
<1>2. Sound(call) /\ call \in CallRow /\ Recent(call, running) /\ lastInvocation \in Invocation
  BY CallIsSound
<1>3. /\ rows \in Seq(Texts \cup (Roles \X Outcomes)) /\ Len(rows) <= 2
  <2>1. lastInvocation.node \in Texts /\ lastInvocation.status \in Texts
    BY <1>2 DEF Invocation, Texts
  <2> DEFINE a == lastInvocation.node
             b == lastInvocation.status
             S == Texts \cup (Roles \X Outcomes)
  <2>2. a \in S /\ b \in S
    BY <2>1
  <2>3. rows = << a, b >> \/ rows = <<>>
    OBVIOUS
  <2> HIDE DEF a, b, S, rows
  <2>4. CASE rows = << a, b >>
    <3>1. rows \in Seq(S) /\ Len(rows) = 2
      BY <2>2, <2>4
    <3>2. QED
      BY <3>1 DEF S
  <2>5. CASE rows = <<>>
    <3>1. rows \in Seq(S) /\ Len(rows) = 0
      BY <2>5
    <3>2. QED
      BY <3>1 DEF S
  <2>6. QED
    BY <2>3, <2>4, <2>5
<1> HIDE DEF call, rows
<1>4. row \in CallRow /\ row.pc = "traced" /\ row.measured = rows /\ row.version = call.version
  BY <1>2, <1>3 DEF CallRow
<1> HIDE DEF row
<1>5. Sound(row) /\ Recent(row, running)
  BY <1>2, <1>3, <1>4 DEF Sound, Recent
<1>6. QED
  BY <1>1, <1>2, <1>5, UpdateStep

LEMMA LeaveStep ==
  ASSUME CallsInv, NEW t \in Executors, Leave(t)
  PROVE  CallsInv'
<1>1. Update(t, NoCall) /\ UNCHANGED << running, lastInvocation >>
  BY DEF Leave
<1>2. Recent(NoCall, running)
  BY NoCallIsSound, CallIsSound DEF Recent
<1>3. QED
  BY <1>1, <1>2, NoCallIsSound, CallIsSound, UpdateStep

LEMMA CallsStepInv == CallsInv /\ [CallsNext]_callsVars => CallsInv'
<1> SUFFICES ASSUME CallsInv, [CallsNext]_callsVars PROVE CallsInv'
  OBVIOUS
<1>1. CASE UNCHANGED callsVars
  BY <1>1 DEF callsVars, CallsInv
<1>2. QED
  BY <1>1, PublishStep, RewriteStep, GenerateStep, MeasureStep, CallNodeStep, AnswerNodeStep,
     TraceNodeStep, LeaveStep DEF CallsNext, Proceed

LEMMA CallsInvHolds == CallsSpec => []CallsInv
BY CallsInitInv, CallsStepInv, PTL DEF CallsSpec

\* The running version, the calls and the shared invocation stay in their types.
THEOREM CallsTypeCorrect == CallsSpec => []CallsTypeOK
<1>1. CallsInv => CallsTypeOK
  <2> SUFFICES ASSUME CallsInv PROVE CallsTypeOK
    OBVIOUS
  <2>1. ASSUME NEW t \in Executors
        PROVE  Len(calls[t].measured) <= 2
    <3>1. Sound(calls[t]) /\ calls[t] \in CallRow
      BY DEF CallsInv
    <3>2. CASE calls[t].pc \in {"asking", "measuring", "raised"}
      <4>1. SoFar(calls[t])
        BY <3>1, <3>2 DEF Sound
      <4>2. CASE calls[t].measured = <<>>
        BY <4>2
      <4>3. ASSUME NEW s \in Outcomes, calls[t].measured = << << "primary", s >> >>
            PROVE  Len(calls[t].measured) <= 2
        BY <4>3, OnePair
      <4>4. QED
        BY <4>1, <4>2, <4>3 DEF SoFar
    <3>3. CASE calls[t].pc \notin {"asking", "measuring", "raised"}
      BY <3>1, <3>3, NoCallIsSound DEF Sound, CallRow
    <3>4. QED
      BY <3>2, <3>3
  <2>2. QED
    BY <2>1 DEF CallsInv, CallsTypeOK, CallRow, Invocation
<1>2. QED
  BY <1>1, CallsInvHolds, PTL

\* A rewrite that returns measured what it tried, in the order it did; one that
\* raises was overtaken by a version that was published after it began, and all it
\* had measured is the failure of its primary.
THEOREM RewritesAreMeasured == CallsSpec => []MeasuredAsTried
<1>1. CallsInv => MeasuredAsTried
  <2> SUFFICES ASSUME CallsInv, NEW t \in Executors, calls[t].pc = "raised",
                      NEW rows, rows = calls[t].measured
               PROVE  /\ calls[t].version < running
                      /\ Len(rows) = (IF calls[t].role = "fallback" THEN 1 ELSE 0)
                      /\ \A i \in 1..Len(rows) : rows[i][1] = "primary" /\ rows[i][2] # "succeeded"
    BY DEF CallsInv, Sound, MeasuredAsTried, Overtaken
  <2>1. SoFar(calls[t]) /\ calls[t].version < running
    BY DEF CallsInv, Sound, Recent
  <2>2. CASE calls[t].role = "primary" /\ rows = <<>>
    BY <2>1, <2>2
  <2>3. CASE calls[t].role = "fallback" /\
             \E s \in Outcomes \ {"succeeded"} : rows = << << "primary", s >> >>
    <3>1. PICK s \in Outcomes \ {"succeeded"} : rows = << << "primary", s >> >>
      BY <2>3
    <3>2. Len(rows) = 1 /\ rows[1][1] = "primary" /\ rows[1][2] = s
      BY <3>1, OnePair
    <3>3. \A i \in 1..Len(rows) : i = 1
      BY <3>2
    <3>4. QED
      BY <2>1, <2>3, <3>2, <3>3
  <2>4. QED
    BY <2>1, <2>2, <2>3 DEF SoFar
<1>2. QED
  BY <1>1, CallsInvHolds, PTL

-----------------------------------------------------------------------------
(***************************************************************************)
(* The instance that TLC checks.  A behaviour of it moves one of the two   *)
(* components and leaves the other as it started, so it is a behaviour of  *)
(* each, and the types that were proved of each hold.                      *)
(***************************************************************************)
LEMMA MovingOneOfTwo == Spec => CallsSpec /\ TransportSpec
<1>1. Init => CallsInit /\ TransportInit
  BY DEF Init
<1>2. [Next]_servingVars => [CallsNext]_callsVars /\ [TransportNext]_transportVars
  BY DEF Next, servingVars
<1>3. QED
  BY <1>1, <1>2, PTL DEF Spec, CallsSpec, TransportSpec

\* Every variable of the instance keeps its type, whichever component it moves.
THEOREM ServingTypeCorrect == Spec => []TypeOK
BY MovingOneOfTwo, CallsTypeCorrect, TransportTypeCorrect, PTL DEF TypeOK
=============================================================================
