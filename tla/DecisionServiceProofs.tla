----------------------- MODULE DecisionServiceProofs -----------------------
(***************************************************************************)
(* Theorems about DecisionService, for every set of decisions,             *)
(* organizations, executors, calls and keys.                               *)
(*                                                                         *)
(* The first part is about the operators of DecisionState: what the        *)
(* graph's composition and the handlers return, for every message,         *)
(* context, ledger and set of keys.  The second part is about the service: *)
(* FOR UPDATE makes the copy a mutation works on the current one           *)
(* (Locking), so what it commits is an outcome of a handler on the stored  *)
(* state, and the first part applies to it.                                *)
(***************************************************************************)
EXTENDS DecisionClaims, ReplyGraphProofs


(***************************************************************************)
(* Whatever is asked and whatever the outside world answers, an invocation *)
(* of the graph ends in a reply that fits the request: one obligation at   *)
(* most, nothing asked for that was supplied (logistics apart), and an     *)
(* answer only where every topic has its context.                          *)
(***************************************************************************)
LEMMA RepliesFitRequests ==
  ASSUME NEW request, NEW r \in Replies(request, ScoreSets)
  PROVE  Fits(r, request)
<1>1. PICK a \in Answers(request, ScoreSets) : r = Reply(request, a)
  BY DEF Replies
<1>2. a.classified \in BOOLEAN
  BY DEF Answers
<1>3. QED
  BY <1>1, <1>2, RepliesFit

COROLLARY RepliesAreResponses ==
  ASSUME NEW request, NEW r \in Replies(request, ScoreSets)
  PROVE  r \in Responses /\ (r.action_requested => r.context_requests = {})
BY RepliesFitRequests DEF Fits

-----------------------------------------------------------------------------
(***************************************************************************)
(* Accepting an entry makes the ledger longer by that entry and leaves the *)
(* rest of it alone.                                                       *)
(***************************************************************************)
LEMMA EntryIsEntry ==
  ASSUME NEW c \in Bodies, c.op = "result" => c.id = "action", NEW answer \in Replied
  PROVE  Entry(c, answer) \in Entries
<1>1. CASE c \in RefillBody
  BY <1>1 DEF Entry, Entries, RefillBody
<1>2. CASE c \in ResultBody
  BY <1>2 DEF Entry, Entries, ResultBody
<1>3. CASE c \in FeedbackBody
  BY <1>3 DEF Entry, Entries, FeedbackBody
<1>4. QED
  BY <1>1, <1>2, <1>3 DEF Bodies

LEMMA LoggedAppends ==
  ASSUME NEW s \in States, NEW c \in Bodies, c.op = "result" => c.id = "action",
         NEW answer \in Replied
  PROVE  /\ Logged(s, c, answer) = Append(s.ledger, Entry(c, answer))
         /\ Logged(s, c, answer) \in Seq(Entries)
<1>1. Entry(c, answer) \in Entries
  BY EntryIsEntry
<1>2. s.ledger \in Seq(Entries)
  BY DEF States
<1>3. QED
  BY <1>1, <1>2 DEF Logged

(***************************************************************************)
(* The merged request is a request: every refill brings records of the     *)
(* context type it names.                                                  *)
(***************************************************************************)
LEMMA MergedIsRequest ==
  ASSUME NEW request \in Requests, NEW ledger \in Seq(Entries)
  PROVE  Merged(request, ledger) \in Requests
<1> DEFINE refilled(t) == UNION {e.payload : e \in {f \in RefillEntries(ledger) : f.id = t}}
           context == [t \in CtxTypes |-> request.context[t] \cup refilled(t)]
<1>1. ASSUME NEW e \in RefillEntries(ledger)
      PROVE  e.payload \in SUBSET Statuses
  <2>1. e \in Entries /\ e.op = "refill"
    BY DEF RefillEntries
  <2>2. QED
    BY <2>1 DEF Entries
<1>2. \A t \in CtxTypes : refilled(t) \in SUBSET Statuses
  BY <1>1
<1>3. \A t \in CtxTypes : request.context[t] \in SUBSET Statuses
  BY DEF Requests, Contexts
<1>4. context \in Contexts
  <2> HIDE DEF refilled
  <2> QED
    BY <1>2, <1>3 DEF Contexts
<1>5. Merged(request, ledger) = [request EXCEPT !.context = context]
  BY DEF Merged
<1> HIDE DEF context
<1>6. QED
  BY <1>4, <1>5 DEF Requests

(***************************************************************************)
(* A call that is not refused either replays, leaving everything as it is, *)
(* or appends its own entry, with a key that was free; and the response    *)
(* changes only to the one the new entry answers with.                     *)
(***************************************************************************)
THEOREM HandlersAppend ==
  ASSUME NEW s \in States, NEW c \in Bodies, ~Refuse(s, c), NEW t \in Outcomes(s, c)
  PROVE  /\ t \in States
         /\ \/ t = s
            \/ /\ \E answer \in Replied :
                   /\ t.ledger = Append(s.ledger, Entry(c, answer))
                   /\ t.response \in {s.response, answer}
               /\ c.op # "feedback" => ~Known(s, c)
<1>1. c.op = "result" => c.id = "action"
  BY DEF Refuse, RefuseResult
<1>2. /\ s.request \in Requests /\ s.response \in Responses /\ s.ledger \in Seq(Entries)
      /\ s = [request |-> s.request, response |-> s.response, ledger |-> s.ledger]
  BY DEF States
<1>3. ASSUME NEW answer \in Replied, t = [s EXCEPT !.ledger = Logged(s, c, answer)]
      PROVE  /\ t \in States
             /\ t.ledger = Append(s.ledger, Entry(c, answer))
             /\ t.response = s.response
  BY <1>1, <1>2, <1>3, LoggedAppends DEF States
<1>4. CASE c.op = "feedback"
  BY <1>3, <1>4 DEF Outcomes, FeedbackAccepted, Replied
<1>5. CASE c.op # "feedback" /\ Known(s, c)
  BY <1>5 DEF Outcomes
<1>6. CASE c.op # "feedback" /\ ~Known(s, c) /\ c.op = "result"
  <2>1. c \in ResultBody
    BY <1>6 DEF Bodies, RefillBody, ResultBody, FeedbackBody
  <2>2. PICK status \in ResultStatuses : c.payload = {status}
    BY <2>1 DEF ResultBody
  <2>3. ResultAnswer(CHOOSE x \in c.payload : TRUE) \in Replied
    BY <2>2 DEF Replied
  <2>4. QED
    BY <1>3, <1>6, <2>3 DEF Outcomes, ResultAccepted
<1>7. CASE c.op \notin {"feedback", "result"} /\ ~Known(s, c) /\ Redecides(s, c)
  <2>1. t \in RefillDecides(s, c)
    BY <1>7 DEF Outcomes
  <2> DEFINE request == Merged(s.request, Logged(s, c, PartialContext))
  <2>2. PICK r \in Replies(request, ScoreSets) :
          t = [request |-> request, response |-> r, ledger |-> Logged(s, c, r)]
    BY <2>1 DEF RefillDecides
  <2>3. r \in Responses /\ r \in Replied
    BY RepliesAreResponses DEF Replied
  <2>4. PartialContext \in Replied
    BY DEF Replied
  <2>5. request \in Requests
    BY <1>1, <1>2, <2>4, LoggedAppends, MergedIsRequest
  <2> HIDE DEF request
  <2>6. QED
    BY <1>1, <1>7, <2>2, <2>3, <2>5, LoggedAppends DEF States
<1>8. CASE c.op \notin {"feedback", "result"} /\ ~Known(s, c) /\ ~Redecides(s, c)
  <2>1. PartialContext \in Replied
    BY DEF Replied
  <2>2. QED
    BY <1>3, <1>8, <2>1 DEF Outcomes, RefillWaits
<1>9. QED
  BY <1>4, <1>5, <1>6, <1>7, <1>8

(***************************************************************************)
(* A state that waits for at most one kind of answer, with unique keys and *)
(* retryable results, stays so under every call.                           *)
(***************************************************************************)
Coherent(s) ==
  /\ s.response.action_requested => s.response.context_requests = {}
  /\ UniqueKeys(s)
  /\ Retryable(s)

LEMMA AppendKeepsUniqueKeys ==
  ASSUME NEW s \in States, NEW c \in Bodies, NEW t \in States, NEW answer \in Replied,
         c.op = "result" => c.id = "action",
         UniqueKeys(s), t.ledger = Append(s.ledger, Entry(c, answer)),
         c.op # "feedback" => ~Known(s, c)
  PROVE  UniqueKeys(t)
<1> DEFINE n == Len(s.ledger)
<1>1. s.ledger \in Seq(Entries) /\ Entry(c, answer) \in Entries
  BY EntryIsEntry DEF States
<1>2. /\ DOMAIN t.ledger = 1 .. n + 1
      /\ DOMAIN s.ledger = 1 .. n
      /\ n \in Nat
      /\ t.ledger[n + 1] = Entry(c, answer)
      /\ \A i \in 1 .. n : t.ledger[i] = s.ledger[i]
  BY <1>1
<1> HIDE DEF n
<1>3. /\ Entry(c, answer).op = c.op
      /\ Entry(c, answer).id = c.id
      /\ Entry(c, answer).key = c.key
  BY DEF Entry
<1> SUFFICES ASSUME NEW i \in DOMAIN t.ledger, NEW j \in DOMAIN t.ledger,
                    t.ledger[i].op # "feedback", Same(t.ledger[i], t.ledger[j])
             PROVE  i = j
  BY DEF UniqueKeys
<1>4. CASE i \in 1 .. n /\ j \in 1 .. n
  BY <1>2, <1>4 DEF UniqueKeys
<1>5. CASE i \in 1 .. n /\ j = n + 1
  BY <1>2, <1>3, <1>5 DEF Same, Known
<1>6. CASE i = n + 1 /\ j \in 1 .. n
  <2>1. Same(s.ledger[j], c) /\ c.op # "feedback"
    BY <1>2, <1>3, <1>6 DEF Same
  <2>2. QED
    BY <1>2, <1>6, <2>1 DEF Known
<1>7. QED
  BY <1>2, <1>4, <1>5, <1>6

THEOREM HandlersKeepCoherence ==
  ASSUME NEW s \in States, Coherent(s),
         NEW c \in Bodies, ~Refuse(s, c), NEW t \in Outcomes(s, c)
  PROVE  Coherent(t)
<1>1. CASE t = s
  BY <1>1
<1>2. CASE t # s
  <2>1. c.op = "result" => c.id = "action" /\ s.response.action_requested
    BY DEF Refuse, RefuseResult
  <2>2. PICK answer \in Replied :
          /\ t.ledger = Append(s.ledger, Entry(c, answer))
          /\ t.response \in {s.response, answer}
          /\ c.op # "feedback" => ~Known(s, c)
          /\ t \in States
    BY <1>2, HandlersAppend
  <2>3. UniqueKeys(t)
    BY <2>1, <2>2, AppendKeepsUniqueKeys DEF Coherent
  <2>4. /\ s.ledger \in Seq(Entries) /\ Entry(c, answer) \in Entries
        /\ Entry(c, answer).op = c.op
    BY <2>1, EntryIsEntry DEF States, Entry
  <2>5. CASE t.response = s.response
    <3>1. \A i \in DOMAIN t.ledger :
            t.ledger[i].op = "result" => s.response.action_requested
      BY <2>1, <2>2, <2>4 DEF Coherent, Retryable
    <3>2. QED
      BY <2>3, <2>5, <3>1 DEF Coherent, Retryable
  <2>6. CASE t.response # s.response
    <3>1. c.op = "refill" /\ ~Known(s, c) /\ Redecides(s, c) /\ t \in RefillDecides(s, c)
      BY <1>2, <2>6 DEF Outcomes, FeedbackAccepted, ResultAccepted, RefillWaits, Redecides,
                        States, Bodies, RefillBody, ResultBody, FeedbackBody
    <3>2. s.response.context_requests # {}
      BY <3>1 DEF Refuse, RefuseRefill
    <3>3. \A i \in DOMAIN s.ledger : s.ledger[i].op # "result"
      BY <3>2 DEF Coherent, Retryable
    <3>4. \A i \in DOMAIN t.ledger : t.ledger[i].op # "result"
      BY <2>2, <2>4, <3>1, <3>3
    <3>5. t.response.action_requested => t.response.context_requests = {}
      <4>1. PICK r \in Replies(Merged(s.request, Logged(s, c, PartialContext)), ScoreSets) :
              t.response = r
        BY <3>1 DEF RefillDecides
      <4>2. QED
        BY <4>1, RepliesAreResponses
    <3>6. QED
      BY <2>3, <3>4, <3>5 DEF Coherent, Retryable
  <2>7. QED
    BY <2>5, <2>6
<1>3. QED
  BY <1>1, <1>2

(***************************************************************************)
(* The answer in force.  The stored response is what the graph answers to  *)
(* the stored request; that request has the records of every refill up to  *)
(* the last one that ran the graph; and the client whose refill ran it was *)
(* told, and on a retry is told again, the response that is stored.        *)
(***************************************************************************)
Decided(entry) == entry.op = "refill" /\ entry.answer # PartialContext

RefillsAreUsed(s) ==
  \A i, j \in DOMAIN s.ledger :
    i <= j /\ s.ledger[i].op = "refill" /\ Decided(s.ledger[j]) =>
      s.ledger[i].payload \subseteq s.request.context[s.ledger[i].id]

LastAnswerStands(s) ==
  \A i \in DOMAIN s.ledger :
    Decided(s.ledger[i]) /\ (\A j \in DOMAIN s.ledger : Decided(s.ledger[j]) => j <= i) =>
      s.ledger[i].answer = s.response

Stands(s) ==
  /\ s.response \in Replies(s.request, ScoreSets)
  /\ RefillsAreUsed(s)
  /\ LastAnswerStands(s)

\* An entry that did not run the graph leaves the answer in force.
LEMMA UndecidedKeepsStanding ==
  ASSUME NEW s \in States, Stands(s), NEW t \in States, NEW entry \in Entries, ~Decided(entry),
         t.ledger = Append(s.ledger, entry), t.response = s.response, t.request = s.request
  PROVE  Stands(t)
<1>1. /\ DOMAIN t.ledger = 1 .. Len(s.ledger) + 1 /\ DOMAIN s.ledger = 1 .. Len(s.ledger)
      /\ Len(s.ledger) \in Nat
      /\ t.ledger[Len(s.ledger) + 1] = entry
      /\ \A i \in DOMAIN s.ledger : t.ledger[i] = s.ledger[i]
  BY DEF States
<1>2. \A i \in DOMAIN t.ledger :
        Decided(t.ledger[i]) => i \in DOMAIN s.ledger /\ t.ledger[i] = s.ledger[i]
  BY <1>1
<1>3. ASSUME NEW i \in DOMAIN t.ledger, NEW j \in DOMAIN t.ledger,
             i <= j, t.ledger[i].op = "refill", Decided(t.ledger[j])
      PROVE  t.ledger[i].payload \subseteq t.request.context[t.ledger[i].id]
  <2>1. j \in DOMAIN s.ledger /\ i \in DOMAIN s.ledger
    BY <1>1, <1>2, <1>3
  <2>2. QED
    BY <1>1, <1>3, <2>1 DEF Stands, RefillsAreUsed
<1>4. RefillsAreUsed(t)
  BY <1>3 DEF RefillsAreUsed
<1>5. LastAnswerStands(t)
  BY <1>1, <1>2 DEF Stands, LastAnswerStands
<1>6. QED
  BY <1>4, <1>5 DEF Stands

\* The merged request has the records of every refill.
LEMMA MergedHasRefills ==
  ASSUME NEW request \in Requests, NEW ledger, NEW e \in RefillEntries(ledger), e.id \in CtxTypes
  PROVE  e.payload \subseteq Merged(request, ledger).context[e.id]
<1> DEFINE refilled(u) == UNION {x.payload : x \in {f \in RefillEntries(ledger) : f.id = u}}
<1>1. e.payload \subseteq refilled(e.id)
  OBVIOUS
<1> HIDE DEF refilled
<1>2. Merged(request, ledger) =
        [request EXCEPT !.context = [u \in CtxTypes |-> request.context[u] \cup refilled(u)]]
  BY DEF Merged, refilled
<1>3. Merged(request, ledger).context[e.id] = request.context[e.id] \cup refilled(e.id)
  BY <1>2 DEF Requests
<1>4. QED
  BY <1>1, <1>3

\* The refill that runs the graph brings its own and every earlier payload.
LEMMA DecidingStands ==
  ASSUME NEW s \in States, NEW c \in RefillBody, NEW t \in RefillDecides(s, c)
  PROVE  Stands(t)
<1> DEFINE waiting == Logged(s, c, PartialContext)
           request == Merged(s.request, waiting)
<1>1. PICK r \in Replies(request, ScoreSets) :
        t = [request |-> request, response |-> r, ledger |-> Logged(s, c, r)]
  BY DEF RefillDecides
<1>2. r \in Replied /\ PartialContext \in Replied
  BY RepliesAreResponses DEF Replied
<1>3. /\ waiting \in Seq(Entries) /\ waiting = Append(s.ledger, Entry(c, PartialContext))
      /\ t.ledger \in Seq(Entries) /\ t.ledger = Append(s.ledger, Entry(c, r))
      /\ Entry(c, r) \in Entries /\ Entry(c, PartialContext) \in Entries
      /\ s.ledger \in Seq(Entries)
  BY <1>1, <1>2, LoggedAppends, EntryIsEntry DEF RefillBody, Bodies, States
<1>4. /\ Entry(c, r).op = "refill" /\ Entry(c, r).id = c.id /\ Entry(c, r).payload = c.payload
      /\ Entry(c, r).answer = r
      /\ Entry(c, PartialContext).op = "refill" /\ Entry(c, PartialContext).id = c.id
      /\ Entry(c, PartialContext).payload = c.payload
  BY DEF Entry, RefillBody
<1>5. /\ DOMAIN t.ledger = 1 .. Len(s.ledger) + 1 /\ DOMAIN waiting = 1 .. Len(s.ledger) + 1
      /\ Len(s.ledger) \in Nat
      /\ t.ledger[Len(s.ledger) + 1] = Entry(c, r)
      /\ waiting[Len(s.ledger) + 1] = Entry(c, PartialContext)
      /\ \A i \in 1 .. Len(s.ledger) : t.ledger[i] = s.ledger[i] /\ waiting[i] = s.ledger[i]
  BY <1>3
<1>6. \A i \in DOMAIN t.ledger :
        /\ t.ledger[i].op = waiting[i].op
        /\ t.ledger[i].id = waiting[i].id
        /\ t.ledger[i].payload = waiting[i].payload
  BY <1>4, <1>5
<1> HIDE DEF waiting
<1>7. ASSUME NEW i \in DOMAIN t.ledger, t.ledger[i].op = "refill"
      PROVE  t.ledger[i].payload \subseteq request.context[t.ledger[i].id]
  <2>1. waiting[i] \in RefillEntries(waiting)
    BY <1>5, <1>6, <1>7 DEF RefillEntries
  <2>2. waiting[i] \in Entries
    BY <1>3, <1>5
  <2>3. waiting[i].id \in CtxTypes
    BY <1>6, <1>7, <2>2 DEF Entries
  <2>4. s.request \in Requests
    BY DEF States
  <2>5. waiting[i].payload \subseteq request.context[waiting[i].id]
    BY <2>1, <2>3, <2>4, MergedHasRefills
  <2>6. QED
    BY <1>6, <2>5
<1> HIDE DEF request
<1>8. t.request = request /\ t.response = r
  BY <1>1
<1>9. RefillsAreUsed(t)
  BY <1>7, <1>8 DEF RefillsAreUsed
<1>10. LastAnswerStands(t)
  <2>1. r # PartialContext
    <3>1. r \in Responses
      BY RepliesAreResponses
    <3>2. r.action \in Actions /\ PartialContext.action \notin Actions
      BY <3>1 DEF Responses, PartialContext, Actions
    <3>3. QED
      BY <3>2
  <2>2. Decided(t.ledger[Len(s.ledger) + 1])
    BY <1>4, <1>5, <2>1 DEF Decided
  <2>3. ASSUME NEW i \in DOMAIN t.ledger, \A j \in DOMAIN t.ledger : Decided(t.ledger[j]) => j <= i
        PROVE  i = Len(s.ledger) + 1
    BY <1>5, <2>2, <2>3
  <2>4. QED
    BY <1>4, <1>5, <1>8, <2>3 DEF LastAnswerStands
<1>11. QED
  BY <1>1, <1>8, <1>9, <1>10 DEF Stands

THEOREM HandlersKeepAnswers ==
  ASSUME NEW s \in States, Stands(s),
         NEW c \in Bodies, ~Refuse(s, c), NEW t \in Outcomes(s, c)
  PROVE  Stands(t)
<1>1. CASE t = s
  BY <1>1
<1>2. CASE t # s
  <2>1. c.op = "result" => c.id = "action"
    BY DEF Refuse, RefuseResult
  <2>2. PICK answer \in Replied : t.ledger = Append(s.ledger, Entry(c, answer)) /\ t \in States
    BY <1>2, HandlersAppend
  <2>3. Entry(c, answer) \in Entries /\ Entry(c, answer).op = c.op /\ Entry(c, answer).answer = answer
    BY <2>1, EntryIsEntry DEF Entry
  <2>4. CASE c.op # "refill"
    <3>1. t.response = s.response /\ t.request = s.request
      BY <1>2, <2>4 DEF Outcomes, FeedbackAccepted, ResultAccepted, Redecides, States,
                        Bodies, RefillBody, ResultBody, FeedbackBody
    <3>2. ~Decided(Entry(c, answer))
      BY <2>3, <2>4 DEF Decided
    <3>3. QED
      BY <2>2, <2>3, <3>1, <3>2, UndecidedKeepsStanding
  <2>5. CASE c.op = "refill" /\ ~Redecides(s, c)
    <3>1. t = RefillWaits(s, c)
      BY <1>2, <2>5 DEF Outcomes
    <3>2. /\ t.response = s.response /\ t.request = s.request
          /\ t.ledger = Append(s.ledger, Entry(c, PartialContext))
      BY <3>1 DEF RefillWaits, Logged, States
    <3>3. PartialContext \in Replied
      BY DEF Replied
    <3>4. Entry(c, PartialContext) \in Entries /\ ~Decided(Entry(c, PartialContext))
      BY <2>1, <3>3, EntryIsEntry DEF Entry, Decided
    <3>5. QED
      BY <2>2, <3>2, <3>4, UndecidedKeepsStanding
  <2>6. CASE c.op = "refill" /\ Redecides(s, c)
    <3>1. t \in RefillDecides(s, c) /\ c \in RefillBody
      BY <1>2, <2>6 DEF Outcomes, Bodies, RefillBody, ResultBody, FeedbackBody
    <3>2. QED
      BY <3>1, DecidingStands
  <2>7. QED
    BY <2>4, <2>5, <2>6
<1>3. QED
  BY <1>1, <1>2

-----------------------------------------------------------------------------
USE OrgsAssumption, ExecutorsAssumption, CallsAssumption, SerialCreatesAssumption

\* Each executor is where the operation of its call can take it.
Phases ==
  \A e \in Executors :
    /\ pc[e] # "idle" => call[e] \in Calls
    /\ pc[e] = "read" => Creating(e)
    /\ pc[e] = "lock" => ~Creating(e)
    /\ Creating(e) /\ pc[e] \in {"save", "write"} =>
         local[e] \in States /\ local[e].ledger = <<>>
         /\ (local[e].response.action_requested => local[e].response.context_requests = {})

\* The row lock of a decision is held by the mutation working on it.
Locking ==
  /\ \A e \in Executors : Mutating(e) => rowLock[call[e].d] = e
  /\ \A d \in Decisions, e \in Executors :
       rowLock[d] = e => Mutating(e) /\ call[e].d = d

\* A mutation that is about to save was not refused.
Admitted ==
  \A e \in Executors : Mutating(e) => ~Refuse(stored[call[e].d], call[e].body)

Coherence == \A d \in Decisions : Exists(d) => Coherent(stored[d])

Inv == TypeOK /\ Phases /\ Locking /\ NeverStale /\ Admitted /\ Coherence

-----------------------------------------------------------------------------
LEMMA CallIsCreateOrMutate ==
  ASSUME NEW c \in Calls
  PROVE  /\ c.d \in Decisions
         /\ c.op = "create" => c.request \in Requests
         /\ c.op # "create" => c.op = "mutate" /\ c.body \in Bodies
BY DEF CreateCalls, BodyCalls

LEMMA AbsentIsNoState == Absent \notin States /\ Absent.response \notin Responses
<1>1. \A r \in Responses : r.action \in Actions
  BY DEF Responses
<1>2. Absent.response \notin Responses
  BY <1>1 DEF Absent, Actions
<1>3. QED
  BY <1>2 DEF States

LEMMA InitInv == Init => Inv
<1> SUFFICES ASSUME Init PROVE Inv
  OBVIOUS
<1>1. TypeOK
  BY DEF Init, TypeOK
<1>2. Phases /\ Locking /\ NeverStale /\ Admitted
  BY DEF Init, Phases, Locking, NeverStale, Admitted, Mutating
<1>3. Coherence
  BY DEF Init, Coherence, Exists
<1>4. QED
  BY <1>1, <1>2, <1>3 DEF Inv

(***************************************************************************)
(* What a mutation is about to commit is what a handler makes of the       *)
(* stored state.                                                           *)
(***************************************************************************)
LEMMA MutationIsOutcome ==
  ASSUME Inv, NEW e \in Executors, Mutating(e)
  PROVE  LET d == call[e].d
             c == call[e].body
         IN  /\ d \in Decisions /\ c \in Bodies
             /\ stored[d] \in States
             /\ ~Refuse(stored[d], c)
             /\ local[e] \in Outcomes(stored[d], c)
             /\ local[e] \in States
             /\ Coherent(local[e])
<1>1. call[e] \in Calls /\ call[e].op # "create"
  BY DEF Inv, Phases, Mutating, Creating
<1>2. call[e].d \in Decisions /\ call[e].body \in Bodies
  BY <1>1, CallIsCreateOrMutate
<1>3. /\ Exists(call[e].d)
      /\ local[e] \in Outcomes(stored[call[e].d], call[e].body)
      /\ ~Refuse(stored[call[e].d], call[e].body)
  BY DEF Inv, NeverStale, Admitted
<1>4. stored[call[e].d] \in States /\ Coherent(stored[call[e].d])
  BY <1>2, <1>3 DEF Inv, TypeOK, Exists, Coherence
<1>5. QED
  BY <1>2, <1>3, <1>4, HandlersAppend, HandlersKeepCoherence

(***************************************************************************)
(* The steps that leave what is stored alone.                              *)
(***************************************************************************)
LEMMA BeginInv ==
  ASSUME Inv, NEW e \in Executors, NEW c \in Calls, Begin(e, c)
  PROVE  Inv'
<1>1. TypeOK'
  BY DEF Inv, TypeOK, Begin
<1>2. \A f \in Executors : f # e => pc'[f] = pc[f] /\ call'[f] = call[f]
  BY DEF Inv, TypeOK, Begin
<1>3. pc'[e] \in {"read", "lock"} /\ call'[e] = c /\ (pc'[e] = "read" <=> c.op = "create")
  BY DEF Inv, TypeOK, Begin
<1>4. ~Mutating(e) /\ ~Mutating(e)'
  BY <1>3 DEF Mutating, Begin
<1>5. \A f \in Executors : f # e => (Mutating(f)' <=> Mutating(f)) /\ (Creating(f)' <=> Creating(f))
  BY <1>2 DEF Mutating, Creating
<1>6. UNCHANGED << stored, local, rowLock >>
  BY DEF Begin
<1>7. Phases'
  BY <1>2, <1>3, <1>5, <1>6 DEF Inv, Phases, Creating
<1>8. Locking'
  BY <1>2, <1>4, <1>5, <1>6 DEF Inv, TypeOK, Locking
<1>9. NeverStale' /\ Admitted'
  BY <1>2, <1>4, <1>5, <1>6 DEF Inv, NeverStale, Admitted, Exists
<1>10. Coherence'
  BY <1>6 DEF Inv, Coherence, Exists
<1>11. QED
  BY <1>1, <1>7, <1>8, <1>9, <1>10 DEF Inv

\* A call that ends without a lock and without a trace.
LEMMA FinishInv ==
  ASSUME Inv, NEW e \in Executors, ~Mutating(e), Finish(e),
         UNCHANGED << stored, incarnation, rowLock >>,
         orgLock' \in [Orgs -> Executors \cup {None}]
  PROVE  Inv'
<1>1. TypeOK'
  BY DEF Inv, TypeOK, Finish
<1>2. \A f \in Executors :
        f # e => pc'[f] = pc[f] /\ call'[f] = call[f] /\ local'[f] = local[f]
  BY DEF Inv, TypeOK, Finish
<1>3. pc'[e] = "idle" /\ ~Mutating(e)'
  BY DEF Inv, TypeOK, Finish, Mutating
<1>4. \A f \in Executors : f # e => (Mutating(f)' <=> Mutating(f)) /\ (Creating(f)' <=> Creating(f))
  BY <1>2 DEF Mutating, Creating
<1>5. Phases'
  BY <1>2, <1>3, <1>4 DEF Inv, Phases
<1>6. Locking'
  BY <1>2, <1>3, <1>4 DEF Inv, TypeOK, Locking
<1>7. NeverStale' /\ Admitted'
  BY <1>2, <1>3, <1>4 DEF Inv, NeverStale, Admitted, Exists
<1>8. Coherence'
  BY DEF Inv, Coherence, Exists
<1>9. QED
  BY <1>1, <1>5, <1>6, <1>7, <1>8 DEF Inv

LEMMA CreateBuildsInv ==
  ASSUME Inv, NEW e \in Executors, CreateBuilds(e)
  PROVE  Inv'
<1>1. pc[e] = "read" /\ Creating(e) /\ call[e] \in Calls
  BY DEF CreateBuilds, Inv, Phases
<1>2. PICK r \in Replies(call[e].request, ScoreSets) :
        local' = [local EXCEPT ![e] =
                    [request |-> call[e].request, response |-> r, ledger |-> <<>>]]
  BY DEF CreateBuilds
<1>3. r \in Responses /\ (r.action_requested => r.context_requests = {})
  BY RepliesAreResponses
<1>4. call[e].request \in Requests
  BY <1>1, CallIsCreateOrMutate DEF Creating
<1>5. /\ [request |-> call[e].request, response |-> r, ledger |-> <<>>] \in States
      /\ local'[e] = [request |-> call[e].request, response |-> r, ledger |-> <<>>]
  BY <1>2, <1>3, <1>4 DEF States, Inv, TypeOK
<1>6. TypeOK'
  BY <1>2, <1>5 DEF Inv, TypeOK, CreateBuilds
<1>7. UNCHANGED << stored, call, rowLock >> /\ pc'[e] = "save"
  BY DEF CreateBuilds, Inv, TypeOK
<1>8. \A f \in Executors : f # e => pc'[f] = pc[f] /\ local'[f] = local[f]
  BY <1>2 DEF CreateBuilds, Inv, TypeOK
<1>9. \A f \in Executors : (Creating(f)' <=> Creating(f)) /\ (Mutating(f)' <=> Mutating(f))
  BY <1>1, <1>7, <1>8 DEF Creating, Mutating
<1>10. Phases'
  BY <1>1, <1>3, <1>5, <1>7, <1>8, <1>9 DEF Inv, Phases
<1>11. Locking'
  BY <1>7, <1>9 DEF Inv, TypeOK, Locking
<1>12. NeverStale' /\ Admitted'
  BY <1>1, <1>7, <1>8, <1>9 DEF Inv, NeverStale, Admitted, Exists, Mutating
<1>13. Coherence'
  BY <1>7 DEF Inv, Coherence, Exists
<1>14. QED
  BY <1>6, <1>10, <1>11, <1>12, <1>13 DEF Inv

LEMMA LockOrgInv ==
  ASSUME Inv, NEW e \in Executors, LockOrg(e)
  PROVE  Inv'
<1>1. UNCHANGED << stored, incarnation, call, local, rowLock >>
  BY DEF LockOrg
<1>2. pc[e] = "save" /\ pc'[e] = "write" /\ \A f \in Executors : f # e => pc'[f] = pc[f]
  BY DEF LockOrg, Inv, TypeOK
<1>3. TypeOK'
  BY DEF Inv, TypeOK, LockOrg
<1>4. \A f \in Executors : (Creating(f)' <=> Creating(f)) /\ (Mutating(f)' <=> Mutating(f))
  BY <1>1, <1>2 DEF Creating, Mutating
<1>5. Phases'
  BY <1>1, <1>2, <1>4 DEF Inv, Phases
<1>6. Locking' /\ NeverStale' /\ Admitted' /\ Coherence'
  BY <1>1, <1>4 DEF Inv, TypeOK, Locking, NeverStale, Admitted, Coherence, Exists
<1>7. QED
  BY <1>3, <1>5, <1>6 DEF Inv

(***************************************************************************)
(* The step that takes the row lock: from here to the commit nobody else   *)
(* changes the row.                                                        *)
(***************************************************************************)
LEMMA MutateComputesInv ==
  ASSUME Inv, NEW e \in Executors, MutateComputes(e)
  PROVE  Inv'
<1> DEFINE d == call[e].d
           c == call[e].body
<1>1. pc[e] = "lock" /\ ~Creating(e) /\ call[e] \in Calls
  BY DEF MutateComputes, Inv, Phases
<1>2. d \in Decisions /\ c \in Bodies
  BY <1>1, CallIsCreateOrMutate DEF Creating
<1>3. Exists(d) /\ ~Refuse(stored[d], c) /\ rowLock[d] = None
  BY DEF MutateComputes
<1>4. PICK s \in Outcomes(stored[d], c) : local' = [local EXCEPT ![e] = s]
  BY DEF MutateComputes
<1>5. stored[d] \in States
  BY <1>2, <1>3 DEF Inv, TypeOK, Exists
<1>6. s \in States
  BY <1>2, <1>3, <1>5, HandlersAppend
<1>7. /\ UNCHANGED << stored, incarnation, call, orgLock >>
      /\ pc' = [pc EXCEPT ![e] = "save"] /\ rowLock' = [rowLock EXCEPT ![d] = e]
  BY DEF MutateComputes
<1>8. TypeOK'
  BY <1>4, <1>6, <1>7 DEF Inv, TypeOK
<1>9. /\ pc'[e] = "save" /\ local'[e] = s /\ rowLock'[d] = e
      /\ \A f \in Executors : f # e => pc'[f] = pc[f] /\ local'[f] = local[f]
      /\ \A b \in Decisions : b # d => rowLock'[b] = rowLock[b]
  BY <1>2, <1>4, <1>7 DEF Inv, TypeOK
<1>10. \A f \in Executors : Creating(f)' <=> Creating(f)
  BY <1>7 DEF Creating
<1>11. /\ Mutating(e)' /\ ~Mutating(e)
       /\ \A f \in Executors : f # e => (Mutating(f)' <=> Mutating(f))
  BY <1>1, <1>9, <1>10 DEF Mutating
<1>12. Phases'
  BY <1>1, <1>7, <1>9, <1>10 DEF Inv, Phases
<1>13. Locking'
  <2>1. ASSUME NEW f \in Executors, Mutating(f)' PROVE rowLock'[call'[f].d] = f
    <3>1. CASE f = e
      BY <1>7, <1>9, <3>1
    <3>2. CASE f # e
      <4>1. Mutating(f) /\ rowLock[call[f].d] = f
        BY <1>11, <2>1, <3>2 DEF Inv, Locking
      <4>2. call[f].d \in Decisions
        BY <4>1, MutationIsOutcome
      <4>3. QED
        BY <1>3, <1>7, <1>9, <4>1, <4>2
    <3>3. QED
      BY <3>1, <3>2
  <2>2. ASSUME NEW b \in Decisions, NEW f \in Executors, rowLock'[b] = f
        PROVE  Mutating(f)' /\ call'[f].d = b
    <3>1. CASE b = d
      BY <1>7, <1>9, <1>11, <2>2, <3>1
    <3>2. CASE b # d
      <4>1. rowLock[b] = f
        BY <1>9, <2>2, <3>2
      <4>2. Mutating(f) /\ call[f].d = b
        BY <4>1 DEF Inv, Locking
      <4>3. QED
        BY <1>7, <1>11, <4>2
    <3>3. QED
      BY <3>1, <3>2
  <2>3. QED
    BY <2>1, <2>2 DEF Locking
<1>14. NeverStale' /\ Admitted'
  BY <1>3, <1>4, <1>7, <1>9, <1>11 DEF Inv, NeverStale, Admitted, Exists
<1>15. Coherence'
  BY <1>7 DEF Inv, Coherence, Exists
<1>16. QED
  BY <1>8, <1>12, <1>13, <1>14, <1>15 DEF Inv

\* Storing s for d does not change what a mutation other than e's works on.
Undisturbed(e, d, s) ==
  \A f \in Executors : f # e /\ Mutating(f) => call[f].d # d \/ s = stored[d]

(***************************************************************************)
(* The end of a transaction, committed or rolled back: it may change the   *)
(* row of one decision, on which no other mutation is working.             *)
(***************************************************************************)
LEMMA EndInv ==
  ASSUME Inv, NEW e \in Executors, Finish(e), Release(e),
         NEW d \in Decisions, NEW s \in States \cup {Absent}, s # Absent => Coherent(s),
         stored' = [stored EXCEPT ![d] = s], incarnation' \in [Decisions -> Nat],
         Undisturbed(e, d, s)
  PROVE  Inv'
<1>1. TypeOK'
  BY DEF Inv, TypeOK, Finish, Release
<1>2. \A f \in Executors :
        f # e => pc'[f] = pc[f] /\ call'[f] = call[f] /\ local'[f] = local[f]
  BY DEF Inv, TypeOK, Finish
<1>3. pc'[e] = "idle" /\ ~Mutating(e)'
  BY DEF Inv, TypeOK, Finish, Mutating
<1>4. \A f \in Executors : f # e => (Mutating(f)' <=> Mutating(f)) /\ (Creating(f)' <=> Creating(f))
  BY <1>2 DEF Mutating, Creating
<1>5. \A b \in Decisions : rowLock'[b] = IF rowLock[b] = e THEN None ELSE rowLock[b]
  BY DEF Release
<1>6. Phases'
  BY <1>2, <1>3, <1>4 DEF Inv, Phases
<1>7. \A f \in Executors : Mutating(f) => call[f].d \in Decisions
  BY MutationIsOutcome
<1>8. Locking'
  BY <1>2, <1>3, <1>4, <1>5, <1>7 DEF Inv, Locking
<1>9. \A f \in Executors :
        f # e /\ Mutating(f) => stored'[call[f].d] = stored[call[f].d]
  BY <1>7 DEF Inv, TypeOK, Undisturbed
<1>10. NeverStale' /\ Admitted'
  BY <1>2, <1>3, <1>4, <1>9 DEF Inv, NeverStale, Admitted, Exists
<1>11. Coherence'
  BY DEF Inv, TypeOK, Coherence, Exists
<1>12. QED
  BY <1>1, <1>6, <1>8, <1>10, <1>11 DEF Inv

\* A create commits while no mutation holds the row.
LEMMA CreateCommitsInv ==
  ASSUME Inv, NEW e \in Executors, CreateCommits(e)
  PROVE  Inv'
<1> DEFINE d == call[e].d
<1>1. pc[e] = "write" /\ Creating(e) /\ call[e] \in Calls /\ rowLock[d] = None
  BY DEF CreateCommits, Inv, Phases
<1>2. d \in Decisions
  BY <1>1, CallIsCreateOrMutate
<1>3. local[e] \in States /\ local[e].ledger = <<>>
      /\ (local[e].response.action_requested => local[e].response.context_requests = {})
  BY <1>1 DEF Inv, Phases
<1>4. Coherent(local[e])
  BY <1>3 DEF Coherent, UniqueKeys, Retryable
<1>5. incarnation' \in [Decisions -> Nat]
  BY <1>2 DEF Inv, TypeOK, CreateCommits
<1>6. \A f \in Executors : Mutating(f) => call[f].d # d
  BY <1>1, <1>2 DEF Inv, Locking
<1>7. PICK s \in States : s = local[e]
  BY <1>3
<1>8. Finish(e) /\ Release(e) /\ stored' = [stored EXCEPT ![d] = s]
  BY <1>7 DEF CreateCommits
<1>9. PICK b \in Decisions : b = d
  BY <1>2
<1> HIDE DEF d
<1>10. /\ stored' = [stored EXCEPT ![b] = s]
       /\ Coherent(s)
       /\ Undisturbed(e, b, s)
  BY <1>4, <1>6, <1>7, <1>8, <1>9 DEF Undisturbed
<1>11. QED
  BY <1>5, <1>8, <1>10, EndInv

\* A mutation commits what a handler made of the stored state.
LEMMA MutateCommitsInv ==
  ASSUME Inv, NEW e \in Executors, MutateCommits(e)
  PROVE  Inv'
<1> DEFINE d == call[e].d
<1>1. Mutating(e)
  BY DEF MutateCommits, Mutating
<1>2. d \in Decisions /\ local[e] \in States /\ Coherent(local[e])
  BY <1>1, MutationIsOutcome
<1>3. \A f \in Executors : f # e /\ Mutating(f) => call[f].d # d
  BY <1>1, <1>2 DEF Inv, Locking
<1>4. incarnation' \in [Decisions -> Nat]
  BY DEF Inv, TypeOK, MutateCommits
<1>5. PICK s \in States : s = local[e]
  BY <1>2
<1>6. Finish(e) /\ Release(e) /\ stored' = [stored EXCEPT ![d] = s]
  BY <1>5 DEF MutateCommits
<1>7. PICK b \in Decisions : b = d
  BY <1>2
<1> HIDE DEF d
<1>8. /\ stored' = [stored EXCEPT ![b] = s]
      /\ Coherent(s)
      /\ Undisturbed(e, b, s)
  BY <1>2, <1>3, <1>5, <1>6, <1>7 DEF Undisturbed
<1>9. QED
  BY <1>4, <1>6, <1>8, EndInv

\* A transaction that is rolled back, whatever it was doing.
LEMMA LoseInv ==
  ASSUME Inv, NEW e \in Executors, Lose(e)
  PROVE  Inv'
<1> DEFINE d == call[e].d
<1>1. call[e] \in Calls
  BY DEF Lose, Inv, Phases
<1>2. d \in Decisions
  BY <1>1, CallIsCreateOrMutate
<1>3. /\ stored[d] \in States \cup {Absent}
      /\ stored[d] # Absent => Coherent(stored[d])
      /\ stored' = [stored EXCEPT ![d] = stored[d]]
      /\ incarnation' \in [Decisions -> Nat]
  BY <1>2 DEF Inv, TypeOK, Coherence, Exists, Lose
<1>4. Finish(e) /\ Release(e)
  BY DEF Lose
<1>5. Undisturbed(e, d, stored[d])
  BY DEF Undisturbed
<1> HIDE DEF d
<1>6. QED
  BY <1>2, <1>3, <1>4, <1>5, EndInv

\* PostgreSQL rolls one transaction of a deadlock back.
LEMMA AbortDeadlockLoses ==
  ASSUME NEW e \in Executors, AbortDeadlock(e)
  PROVE  Lose(e)
BY DEF AbortDeadlock, LockCycle, Lose

LEMMA StepInv == Inv /\ [Next]_vars => Inv'
<1> SUFFICES ASSUME Inv, [Next]_vars PROVE Inv'
  OBVIOUS
<1>1. ASSUME NEW e \in Executors, NEW c \in Calls, Begin(e, c) PROVE Inv'
  BY <1>1, BeginInv
<1>2. ASSUME NEW e \in Executors, Advance(e) PROVE Inv'
  <2>1. CASE CreateFinds(e) \/ CreateRaises(e)
    BY <2>1, FinishInv DEF CreateFinds, CreateRaises, Mutating, Inv, TypeOK
  <2>2. CASE CreateBuilds(e)
    BY <2>2, CreateBuildsInv
  <2>3. CASE CreateCommits(e)
    BY <2>3, CreateCommitsInv
  <2>4. CASE MutateFails(e)
    BY <2>4, FinishInv DEF MutateFails, Mutating, Inv, TypeOK
  <2>5. CASE MutateComputes(e)
    BY <2>5, MutateComputesInv
  <2>6. CASE MutateCommits(e)
    BY <2>6, MutateCommitsInv
  <2>7. CASE LockOrg(e)
    BY <2>7, LockOrgInv
  <2>8. CASE AbortDeadlock(e)
    BY <2>8, AbortDeadlockLoses, LoseInv
  <2>9. QED
    BY <1>2, <2>1, <2>2, <2>3, <2>4, <2>5, <2>6, <2>7, <2>8 DEF Advance
<1>3. ASSUME NEW e \in Executors, Lose(e) PROVE Inv'
  BY <1>3, LoseInv
<1>4. CASE UNCHANGED vars
  BY <1>4 DEF vars, Inv, TypeOK, Phases, Locking, NeverStale, Admitted, Coherence,
              Mutating, Creating, Exists
<1>5. QED
  BY <1>1, <1>2, <1>3, <1>4 DEF Next

LEMMA Invariance == Spec => []Inv
<1>1. QED
  BY InitInv, StepInv, PTL DEF Spec

(***************************************************************************)
(* Every variable keeps its type, for any number of threads and calls.     *)
(***************************************************************************)
THEOREM TypeCorrect == Spec => []TypeOK
BY Invariance, PTL DEF Inv

(***************************************************************************)
(* A mutation never commits on top of a state it has not read (the row     *)
(* lock of mutate_state against threads and duplicate creates).            *)
(***************************************************************************)
THEOREM MutationsAreNeverStale == Spec => []NeverStale
BY Invariance, PTL DEF Inv

(***************************************************************************)
(* Retries on any threads never make a key be accepted twice.              *)
(***************************************************************************)
THEOREM KeysAreAcceptedOnce == Spec => []AcceptedOnce
<1>1. Inv => AcceptedOnce
  BY DEF Inv, Coherence, Coherent, AcceptedOnce
<1>2. QED
  BY <1>1, Invariance, PTL

(***************************************************************************)
(* The retry of an accepted action result is never refused for want of the *)
(* planned action.                                                         *)
(***************************************************************************)
THEOREM ResultsAreRetryable == Spec => []ResultsStayRetryable
<1>1. Inv => ResultsStayRetryable
  BY DEF Inv, Coherence, Coherent, ResultsStayRetryable
<1>2. QED
  BY <1>1, Invariance, PTL

\* Replaying and appending keep what a ledger holds.
LEMMA AppendKeeps ==
  ASSUME NEW s \in States, NEW t \in States,
         t.ledger = s.ledger \/ \E entry \in Entries : t.ledger = Append(s.ledger, entry)
  PROVE  Keeps(s.ledger, t.ledger)
<1>1. s.ledger \in Seq(Entries)
  BY DEF States
<1>2. CASE t.ledger = s.ledger
  BY <1>1, <1>2 DEF Keeps
<1>3. ASSUME NEW entry \in Entries, t.ledger = Append(s.ledger, entry)
      PROVE  Keeps(s.ledger, t.ledger)
  BY <1>1, <1>3 DEF Keeps
<1>4. QED
  BY <1>2, <1>3

LEMMA MutationKeeps ==
  ASSUME Inv, NEW e \in Executors, MutateCommits(e)
  PROVE  /\ call[e].d \in Decisions /\ Exists(call[e].d)
         /\ stored' = [stored EXCEPT ![call[e].d] = local[e]]
         /\ \/ local[e] = stored[call[e].d]
            \/ /\ \E answer \in Replied :
                   /\ local[e].ledger = Append(stored[call[e].d].ledger, Entry(call[e].body, answer))
                   /\ local[e].response \in {stored[call[e].d].response, answer}
               /\ call[e].body.op # "feedback" => ~Known(stored[call[e].d], call[e].body)
         /\ Keeps(stored[call[e].d].ledger, local[e].ledger)
<1>1. Mutating(e)
  BY DEF MutateCommits, Mutating
<1> DEFINE d == call[e].d
           c == call[e].body
<1>2. /\ d \in Decisions /\ c \in Bodies
      /\ stored[d] \in States /\ ~Refuse(stored[d], c)
      /\ local[e] \in Outcomes(stored[d], c) /\ local[e] \in States
  BY <1>1, MutationIsOutcome
<1>3. Exists(d)
  BY <1>1 DEF Inv, NeverStale
<1>4. stored' = [stored EXCEPT ![d] = local[e]]
  BY DEF MutateCommits
<1>5. \/ local[e] = stored[d]
      \/ /\ \E answer \in Replied :
             /\ local[e].ledger = Append(stored[d].ledger, Entry(c, answer))
             /\ local[e].response \in {stored[d].response, answer}
         /\ c.op # "feedback" => ~Known(stored[d], c)
  BY <1>2, HandlersAppend
<1>6. c.op = "result" => c.id = "action"
  BY <1>2 DEF Refuse, RefuseResult
<1>7. Keeps(stored[d].ledger, local[e].ledger)
  <2>1. \A answer \in Replied : Entry(c, answer) \in Entries
    BY <1>2, <1>6, EntryIsEntry
  <2>2. QED
    BY <1>2, <1>5, <2>1, AppendKeeps
<1>8. QED
  BY <1>2, <1>3, <1>4, <1>5, <1>7

LEMMA StoredChanges ==
  ASSUME Inv, [Next]_vars
  PROVE  \/ UNCHANGED stored /\ UNCHANGED incarnation
         \/ \E e \in Executors : CreateCommits(e)
         \/ \E e \in Executors : MutateCommits(e)
BY DEF Next, Advance, Begin, CreateFinds, CreateBuilds, CreateRaises, MutateFails,
       MutateComputes, LockOrg, AbortDeadlock, Lose, vars

\* A create stores its own decision only, and counts one more incarnation.
LEMMA CreateLeavesOthers ==
  ASSUME Inv, NEW e \in Executors, CreateCommits(e),
         NEW d \in Decisions, incarnation'[d] = incarnation[d]
  PROVE  stored'[d] = stored[d]
<1>1. call[e].d \in Decisions
  BY CallIsCreateOrMutate DEF Inv, Phases, CreateCommits
<1>2. d # call[e].d
  BY <1>1 DEF CreateCommits, Inv, TypeOK
<1>3. QED
  BY <1>1, <1>2 DEF CreateCommits, Inv, TypeOK

\* No step but a create takes from a ledger.
LEMMA CommitsKeep ==
  ASSUME Inv, [Next]_vars, NEW d \in Decisions, Exists(d), incarnation'[d] = incarnation[d]
  PROVE  Keeps(stored[d].ledger, stored'[d].ledger)
<1>1. stored[d] \in States
  BY DEF Inv, TypeOK, Exists
<1>2. CASE stored'[d] = stored[d]
  BY <1>1, <1>2, AppendKeeps
<1>3. ASSUME NEW e \in Executors, CreateCommits(e)
      PROVE  Keeps(stored[d].ledger, stored'[d].ledger)
  BY <1>2, <1>3, CreateLeavesOthers
<1>4. ASSUME NEW e \in Executors, MutateCommits(e)
      PROVE  Keeps(stored[d].ledger, stored'[d].ledger)
  <2>1. CASE d = call[e].d
    BY <1>4, <2>1, MutationKeeps DEF Inv, TypeOK
  <2>2. CASE d # call[e].d
    BY <1>2, <1>4, <2>2, MutationKeeps DEF Inv, TypeOK
  <2>3. QED
    BY <2>1, <2>2
<1>5. QED
  BY <1>2, <1>3, <1>4, StoredChanges

(***************************************************************************)
(* What a decision has accepted is never changed or dropped between two    *)
(* creates of it: commits of mutations only append.                        *)
(***************************************************************************)
THEOREM AcceptedStaysAccepted == Spec => AcceptedIsKept
<1>1. Inv /\ [Next]_vars =>
        [ \A d \in Decisions :
            Exists(d) /\ incarnation'[d] = incarnation[d] =>
              Keeps(stored[d].ledger, stored'[d].ledger) ]_vars
  BY CommitsKeep
<1>2. QED
  BY <1>1, Invariance, PTL DEF Spec, AcceptedIsKept

(***************************************************************************)
(* The first answer after a wait has every context that was asked for:     *)
(* before it, the refills counted as answers are all the refills.          *)
(***************************************************************************)
LEMMA FirstDecidingRefill ==
  ASSUME NEW s \in States, NEW c \in Bodies, ~Refuse(s, c), NEW t \in Outcomes(s, c),
         ~Redecided(s.ledger), Redecided(t.ledger)
  PROVE  s.response.context_requests \subseteq {e.id : e \in RefillEntries(t.ledger)}
<1>1. t # s
  OBVIOUS
<1>2. PICK answer \in Replied : t.ledger = Append(s.ledger, Entry(c, answer))
  BY <1>1, HandlersAppend
<1>3. c.op = "result" => c.id = "action"
  BY DEF Refuse, RefuseResult
<1>4. /\ s.ledger \in Seq(Entries) /\ Entry(c, answer) \in Entries
      /\ Entry(c, answer).op = c.op /\ Entry(c, answer).id = c.id
      /\ Entry(c, answer).answer = answer
  BY <1>3, EntryIsEntry DEF States, Entry
<1>5. /\ DOMAIN t.ledger = 1 .. Len(s.ledger) + 1 /\ DOMAIN s.ledger = 1 .. Len(s.ledger)
      /\ Len(s.ledger) \in Nat
      /\ t.ledger[Len(s.ledger) + 1] = Entry(c, answer)
      /\ \A i \in DOMAIN s.ledger : t.ledger[i] = s.ledger[i]
  BY <1>2, <1>4
<1>6. c.op = "refill" /\ answer # PartialContext
  <2>1. PICK i \in DOMAIN t.ledger : t.ledger[i].op = "refill" /\ t.ledger[i].answer # PartialContext
    BY DEF Redecided
  <2>2. i \notin DOMAIN s.ledger
    BY <1>5, <2>1 DEF Redecided
  <2>3. i = Len(s.ledger) + 1
    BY <1>5, <2>2
  <2>4. QED
    BY <1>4, <1>5, <2>1, <2>3
<1>7. Remaining(s, c) = {}
  <2>1. CASE Redecides(s, c)
    BY <2>1 DEF Redecides
  <2>2. CASE ~Redecides(s, c)
    <3>1. t = RefillWaits(s, c)
      BY <1>1, <1>6, <2>2 DEF Outcomes
    <3>2. t.ledger = Append(s.ledger, Entry(c, PartialContext))
      BY <3>1 DEF RefillWaits, Logged, States
    <3>3. t.ledger[Len(s.ledger) + 1] = Entry(c, PartialContext)
      BY <1>4, <3>2
    <3>4. QED
      BY <1>4, <1>5, <1>6, <3>3 DEF Entry
  <2>3. QED
    BY <2>1, <2>2
<1>8. RefillEntries(s.ledger) \subseteq RefillEntries(t.ledger) /\ Entry(c, answer) \in RefillEntries(t.ledger)
  BY <1>4, <1>5, <1>6 DEF RefillEntries
<1>9. s.response.context_requests \subseteq {e.id : e \in RefillEntries(s.ledger)} \cup {c.id}
  BY <1>7 DEF Remaining
<1>10. QED
  BY <1>4, <1>8, <1>9

(***************************************************************************)
(* No interleaving of refills makes the first answer after a wait come     *)
(* from less than all the context that was asked for.                      *)
(***************************************************************************)
THEOREM FirstAnswersAwaitAll == Spec => FirstAnswerAwaitsAll
<1>1. ASSUME Inv, [Next]_vars, NEW d \in Decisions, Exists(d), incarnation'[d] = incarnation[d],
             ~Redecided(stored[d].ledger), Redecided(stored'[d].ledger)
      PROVE  stored[d].response.context_requests
               \subseteq {e.id : e \in RefillEntries(stored'[d].ledger)}
  <2>1. stored'[d] # stored[d]
    BY <1>1
  <2>2. ASSUME NEW e \in Executors, CreateCommits(e) PROVE FALSE
    BY <1>1, <2>1, <2>2, CreateLeavesOthers
  <2>3. PICK e \in Executors : MutateCommits(e)
    BY <1>1, <2>1, <2>2, StoredChanges
  <2>4. Mutating(e)
    BY <2>3 DEF MutateCommits, Mutating
  <2>5. /\ call[e].d \in Decisions /\ stored' = [stored EXCEPT ![call[e].d] = local[e]]
        /\ stored \in [Decisions -> States \cup {Absent}]
    BY <1>1, <2>3, MutationKeeps DEF Inv, TypeOK
  <2>6. d = call[e].d /\ stored'[d] = local[e]
    BY <2>1, <2>5
  <2>7. PICK c \in Bodies : /\ stored[d] \in States /\ ~Refuse(stored[d], c)
                            /\ local[e] \in Outcomes(stored[d], c)
    BY <1>1, <2>4, <2>6, MutationIsOutcome
  <2>8. QED
    BY <1>1, <2>6, <2>7, FirstDecidingRefill
<1>2. Inv /\ [Next]_vars =>
        [ \A d \in Decisions :
            /\ Exists(d) /\ incarnation'[d] = incarnation[d]
            /\ ~Redecided(stored[d].ledger) /\ Redecided(stored'[d].ledger)
            => stored[d].response.context_requests
                 \subseteq {e.id : e \in RefillEntries(stored'[d].ledger)} ]_vars
  BY <1>1
<1>3. QED
  BY <1>2, Invariance, PTL DEF Spec, FirstAnswerAwaitsAll

-----------------------------------------------------------------------------
(***************************************************************************)
(* The answers in force, over every interleaving: what is stored stands,   *)
(* and so does what a create is about to store.                            *)
(***************************************************************************)
AnswersStand == \A d \in Decisions : Exists(d) => Stands(stored[d])

CreatesStand ==
  \A e \in Executors : Creating(e) /\ pc[e] \in {"save", "write"} => Stands(local[e])

LEMMA BuiltStands ==
  ASSUME NEW request, NEW r \in Replies(request, ScoreSets)
  PROVE  Stands([request |-> request, response |-> r, ledger |-> <<>>])
BY DEF Stands, RefillsAreUsed, LastAnswerStands

LEMMA StepCreatesStand ==
  ASSUME Inv, CreatesStand, [Next]_vars
  PROVE  CreatesStand'
<1> SUFFICES ASSUME NEW f \in Executors, Creating(f)', pc'[f] \in {"save", "write"}
             PROVE  Stands(local[f])'
  BY DEF CreatesStand
<1> DEFINE Before == /\ Creating(f) /\ pc[f] \in {"save", "write"} /\ local'[f] = local[f]
<1>1. Before => Stands(local[f])'
  BY DEF CreatesStand, Stands, RefillsAreUsed, LastAnswerStands
<1>2. ASSUME NEW e \in Executors, NEW c \in Calls, Begin(e, c) PROVE Before
  BY <1>2 DEF Begin, Creating, Inv, TypeOK
<1>3. ASSUME NEW e \in Executors, Finish(e) PROVE Before
  BY <1>3 DEF Finish, Creating, Inv, TypeOK
<1>4. ASSUME NEW e \in Executors, CreateBuilds(e) PROVE Stands(local[f])'
  <2>1. CASE f = e
    <3>1. PICK r \in Replies(call[e].request, ScoreSets) :
            local'[e] = [request |-> call[e].request, response |-> r, ledger |-> <<>>]
      BY <1>4 DEF CreateBuilds, Inv, TypeOK
    <3>2. Stands(local'[e])
      BY <3>1, BuiltStands
    <3>3. QED
      BY <2>1, <3>2 DEF Stands, RefillsAreUsed, LastAnswerStands
  <2>2. CASE f # e
    BY <1>1, <1>4, <2>2 DEF CreateBuilds, Creating, Inv, TypeOK
  <2>3. QED
    BY <2>1, <2>2
<1>5. ASSUME NEW e \in Executors, MutateComputes(e) PROVE Before
  <2>1. f # e
    BY <1>5 DEF MutateComputes, Creating, Inv, Phases
  <2>2. QED
    BY <1>5, <2>1 DEF MutateComputes, Creating, Inv, TypeOK
<1>6. ASSUME NEW e \in Executors, LockOrg(e) PROVE Before
  BY <1>6 DEF LockOrg, Creating, Inv, TypeOK
<1>7. ASSUME NEW e \in Executors,
             \/ CreateFinds(e) \/ CreateRaises(e) \/ CreateCommits(e) \/ MutateFails(e)
             \/ MutateCommits(e) \/ AbortDeadlock(e) \/ Lose(e)
      PROVE  Before
  BY <1>3, <1>7 DEF CreateFinds, CreateRaises, CreateCommits, MutateFails, MutateCommits,
                    AbortDeadlock, Lose
<1>8. CASE UNCHANGED vars
  BY <1>1, <1>8 DEF vars, Creating
<1> HIDE DEF Before
<1>9. QED
  BY <1>1, <1>2, <1>4, <1>5, <1>6, <1>7, <1>8 DEF Next, Advance

LEMMA StepAnswersStand ==
  ASSUME Inv, AnswersStand, CreatesStand, [Next]_vars
  PROVE  AnswersStand'
<1> SUFFICES ASSUME NEW d \in Decisions, stored'[d] # Absent PROVE Stands(stored'[d])
  BY DEF AnswersStand, Exists, Stands, RefillsAreUsed, LastAnswerStands
<1>1. CASE stored'[d] = stored[d]
  BY <1>1 DEF AnswersStand, Exists
<1>2. ASSUME NEW e \in Executors, CreateCommits(e) PROVE Stands(stored'[d])
  <2>1. Stands(local[e])
    BY <1>2 DEF CreatesStand, CreateCommits
  <2>2. stored' = [stored EXCEPT ![call[e].d] = local[e]]
    BY <1>2 DEF CreateCommits
  <2>3. stored'[d] = stored[d] \/ stored'[d] = local[e]
    BY <2>2 DEF Inv, TypeOK
  <2>4. QED
    BY <1>1, <2>1, <2>3
<1>3. ASSUME NEW e \in Executors, MutateCommits(e) PROVE Stands(stored'[d])
  <2>1. Mutating(e)
    BY <1>3 DEF MutateCommits, Mutating
  <2>2. /\ call[e].d \in Decisions /\ Exists(call[e].d)
        /\ stored' = [stored EXCEPT ![call[e].d] = local[e]]
    BY <1>3, MutationKeeps
  <2>3. Stands(stored[call[e].d])
    BY <2>2 DEF AnswersStand
  <2>4. Stands(local[e])
    BY <2>1, <2>3, MutationIsOutcome, HandlersKeepAnswers
  <2>5. stored'[d] = stored[d] \/ stored'[d] = local[e]
    BY <2>2 DEF Inv, TypeOK
  <2>6. QED
    BY <1>1, <2>4, <2>5
<1>4. QED
  BY <1>1, <1>2, <1>3, StoredChanges

(***************************************************************************)
(* Whatever refills, creates, retries and crashes interleave, the stored   *)
(* response is the graph's answer to the stored request, built from every  *)
(* refill accepted up to then, and is what the client of the last of them  *)
(* was told.                                                               *)
(***************************************************************************)
THEOREM StoredAnswersStand == Spec => []AnswersStand
<1>1. Init => AnswersStand /\ CreatesStand
  BY DEF Init, AnswersStand, CreatesStand, Exists, Creating, NoCall
<1>2. Inv /\ AnswersStand /\ CreatesStand /\ [Next]_vars => (AnswersStand /\ CreatesStand)'
  BY StepAnswersStand, StepCreatesStand
<1>3. QED
  BY <1>1, <1>2, Invariance, PTL DEF Spec

(***************************************************************************)
(* So a stored reply keeps the promises of policy_gate to the request as   *)
(* it is stored: at most one obligation; an answer without a person only   *)
(* for a request that allows it and whose topics have their context; and   *)
(* nothing that was supplied is asked for, logistics apart.  A buyer who   *)
(* does not know whether the parcel was signed for is never answered,      *)
(* whatever is refilled.                                                   *)
(***************************************************************************)
THEOREM StoredRepliesFit ==
  Spec => [](\A d \in Decisions : Exists(d) => Fits(stored[d].response, stored[d].request))
<1>1. AnswersStand => \A d \in Decisions : Exists(d) => Fits(stored[d].response, stored[d].request)
  BY RepliesFitRequests DEF AnswersStand, Stands
<1>2. QED
  BY <1>1, StoredAnswersStand, PTL

(***************************************************************************)
(* A context a refill brought records of is not asked for again: where the *)
(* response in force asks for a type, every refill of it that the answer   *)
(* was built from had found nothing.                                       *)
(***************************************************************************)
NeverAsksAgain ==
  \A d \in Decisions : Exists(d) =>
    LET s == stored[d] IN
    \A t \in s.response.context_requests, i, j \in DOMAIN s.ledger :
      /\ i <= j /\ s.ledger[i].op = "refill" /\ s.ledger[i].id = t /\ Decided(s.ledger[j])
      /\ ~ (t = "logistics" /\ AsksLogisticsAgain(s.request.message, s.request.context))
      => s.ledger[i].payload = {}

THEOREM SuppliedContextIsNotAskedAgain == Spec => []NeverAsksAgain
<1>1. ASSUME AnswersStand PROVE NeverAsksAgain
  <2> SUFFICES ASSUME NEW d \in Decisions, Exists(d),
                      NEW t \in stored[d].response.context_requests,
                      NEW i \in DOMAIN stored[d].ledger, NEW j \in DOMAIN stored[d].ledger,
                      i <= j, stored[d].ledger[i].op = "refill", stored[d].ledger[i].id = t,
                      Decided(stored[d].ledger[j]),
                      ~ (t = "logistics" /\ AsksLogisticsAgain(stored[d].request.message,
                                                               stored[d].request.context))
               PROVE  stored[d].ledger[i].payload = {}
    BY DEF NeverAsksAgain
  <2>1. Fits(stored[d].response, stored[d].request) /\ RefillsAreUsed(stored[d])
    BY <1>1, RepliesFitRequests DEF AnswersStand, Stands
  <2>2. stored[d].request.context[t] = {}
    BY <2>1 DEF Fits, Has
  <2>3. stored[d].ledger[i].payload \subseteq stored[d].request.context[t]
    BY <2>1 DEF RefillsAreUsed
  <2>4. QED
    BY <2>2, <2>3
<1>2. QED
  BY <1>1, StoredAnswersStand, PTL

-----------------------------------------------------------------------------
(***************************************************************************)
(* Clients that do not repeat a running create.  At most one create of a   *)
(* decision runs, and one that has built finds nothing stored.             *)
(***************************************************************************)
Running(e) == pc[e] # "idle" /\ Creating(e)

OneCreate ==
  \A e, f \in Executors : Running(e) /\ Running(f) /\ call[e].d = call[f].d => e = f

FirstCreate ==
  \A e \in Executors : Running(e) /\ pc[e] # "read" => ~Exists(call[e].d)

Serial == OneCreate /\ FirstCreate

LEMMA InitSerial == Init => Serial
BY DEF Init, Serial, OneCreate, FirstCreate, Running

LEMMA StepOneCreate ==
  ASSUME SerialCreates, Inv, Serial, [Next]_vars
  PROVE  OneCreate'
<1>1. ASSUME NEW e \in Executors, NEW c \in Calls, Begin(e, c) PROVE OneCreate'
  <2>1. /\ pc' = [pc EXCEPT ![e] = IF c.op = "create" THEN "read" ELSE "lock"]
        /\ call' = [call EXCEPT ![e] = c]
        /\ c.op = "create" =>
             \A f \in Executors : ~ (pc[f] # "idle" /\ Creating(f) /\ call[f].d = c.d)
    BY <1>1 DEF Begin
  <2>2. /\ call'[e] = c
        /\ \A f \in Executors : f # e => pc'[f] = pc[f] /\ call'[f] = call[f]
    BY <2>1 DEF Inv, TypeOK
  <2>3. QED
    BY <2>1, <2>2 DEF Serial, OneCreate, Running, Creating
<1>2. ASSUME NEW e \in Executors, Finish(e) PROVE OneCreate'
  <2>1. /\ pc'[e] = "idle"
        /\ \A f \in Executors : f # e => pc'[f] = pc[f] /\ call'[f] = call[f]
    BY <1>2 DEF Finish, Inv, TypeOK
  <2>2. QED
    BY <2>1 DEF Serial, OneCreate, Running, Creating
<1>3. ASSUME NEW e \in Executors, pc[e] # "idle", UNCHANGED call,
             \A f \in Executors : f # e => pc'[f] = pc[f]
      PROVE  OneCreate'
  BY <1>3 DEF Serial, OneCreate, Running, Creating
<1>4. ASSUME NEW e \in Executors, Advance(e) PROVE OneCreate'
  <2>1. CASE CreateBuilds(e) \/ MutateComputes(e) \/ LockOrg(e)
    BY <1>3, <2>1 DEF CreateBuilds, MutateComputes, LockOrg, Inv, TypeOK
  <2>2. CASE ~ (CreateBuilds(e) \/ MutateComputes(e) \/ LockOrg(e))
    BY <1>2, <1>4, <2>2 DEF Advance, CreateFinds, CreateRaises, CreateCommits, MutateFails,
                            MutateCommits, AbortDeadlock
  <2>3. QED
    BY <2>1, <2>2
<1>5. ASSUME NEW e \in Executors, Lose(e) PROVE OneCreate'
  BY <1>2, <1>5 DEF Lose
<1>6. CASE UNCHANGED vars
  BY <1>6 DEF vars, Serial, OneCreate, Running, Creating
<1>7. QED
  BY <1>1, <1>4, <1>5, <1>6 DEF Next

LEMMA StepFirstCreate ==
  ASSUME SerialCreates, Inv, Serial, [Next]_vars
  PROVE  FirstCreate'
<1> SUFFICES ASSUME NEW f \in Executors, Running(f)', pc'[f] # "read"
             PROVE  ~Exists(call[f].d)'
  BY DEF FirstCreate
<1> DEFINE Before == Running(f) /\ pc[f] # "read" /\ call'[f] = call[f]
<1>1. Before => call[f].d \in Decisions /\ ~Exists(call[f].d)
  BY CallIsCreateOrMutate DEF Inv, Phases, Running, Serial, FirstCreate
<1>2. CASE Before /\ UNCHANGED stored
  BY <1>1, <1>2 DEF Exists
<1>3. ASSUME NEW e \in Executors, NEW c \in Calls, Begin(e, c) PROVE Before /\ UNCHANGED stored
  <2>1. UNCHANGED stored /\ pc' = [pc EXCEPT ![e] = IF c.op = "create" THEN "read" ELSE "lock"]
        /\ call' = [call EXCEPT ![e] = c]
    BY <1>3 DEF Begin
  <2>2. CASE f = e
    BY <2>1, <2>2 DEF Running, Creating, Inv, TypeOK
  <2>3. CASE f # e
    BY <2>1, <2>3 DEF Running, Creating, Inv, TypeOK
  <2>4. QED
    BY <2>2, <2>3
<1>4. ASSUME NEW e \in Executors, Finish(e) PROVE f # e /\ Before
  BY <1>4 DEF Finish, Running, Creating, Inv, TypeOK
<1>5. ASSUME NEW e \in Executors, CreateCommits(e) PROVE ~Exists(call[f].d)'
  <2>1. f # e /\ Before /\ Running(e)
    BY <1>4, <1>5 DEF CreateCommits, Running
  <2>2. call[f].d # call[e].d
    BY <2>1 DEF Serial, OneCreate
  <2>3. stored'[call[f].d] = stored[call[f].d]
    BY <1>1, <1>5, <2>1, <2>2 DEF CreateCommits, Inv, TypeOK
  <2>4. QED
    BY <1>1, <2>1, <2>3 DEF Exists
<1>6. ASSUME NEW e \in Executors, MutateCommits(e) PROVE ~Exists(call[f].d)'
  <2>1. f # e /\ Before
    BY <1>4, <1>6 DEF MutateCommits
  <2>2. Exists(call[e].d) /\ stored' = [stored EXCEPT ![call[e].d] = local[e]]
    BY <1>6, MutationKeeps
  <2>3. stored'[call[f].d] = stored[call[f].d]
    BY <1>1, <2>1, <2>2 DEF Inv, TypeOK
  <2>4. QED
    BY <1>1, <2>1, <2>3 DEF Exists
<1>7. ASSUME NEW e \in Executors, CreateBuilds(e) PROVE ~Exists(call[f].d)'
  <2>1. CASE f = e
    BY <1>7, <2>1 DEF CreateBuilds, Exists
  <2>2. CASE f # e
    BY <1>2, <1>7, <2>2 DEF CreateBuilds, Running, Creating, Inv, TypeOK
  <2>3. QED
    BY <2>1, <2>2
<1>8. ASSUME NEW e \in Executors, LockOrg(e) PROVE Before /\ UNCHANGED stored
  BY <1>8 DEF LockOrg, Running, Creating, Inv, TypeOK
<1>9. ASSUME NEW e \in Executors, MutateComputes(e) PROVE Before /\ UNCHANGED stored
  <2>1. f # e
    BY <1>9 DEF MutateComputes, Running, Creating, Inv, Phases
  <2>2. QED
    BY <1>9, <2>1 DEF MutateComputes, Running, Creating, Inv, TypeOK
<1>10. ASSUME NEW e \in Executors,
              CreateFinds(e) \/ CreateRaises(e) \/ MutateFails(e) \/ AbortDeadlock(e)
       PROVE  Before /\ UNCHANGED stored
  BY <1>4, <1>10 DEF CreateFinds, CreateRaises, MutateFails, AbortDeadlock
<1>11. ASSUME NEW e \in Executors, Lose(e) PROVE Before /\ UNCHANGED stored
  BY <1>4, <1>11 DEF Lose
<1>12. ASSUME UNCHANGED vars PROVE Before /\ UNCHANGED stored
  BY <1>12 DEF vars, Running, Creating
<1> HIDE DEF Before
<1>13. ASSUME NEW e \in Executors, Advance(e) PROVE ~Exists(call[f].d)'
  BY <1>2, <1>5, <1>6, <1>7, <1>8, <1>9, <1>10, <1>13 DEF Advance
<1>14. QED
  BY <1>2, <1>3, <1>11, <1>12, <1>13 DEF Next

LEMMA SerialInvariance ==
  ASSUME SerialCreates
  PROVE  Spec => []Serial
<1>1. Inv /\ Serial /\ [Next]_vars => Serial'
  BY StepOneCreate, StepFirstCreate DEF Serial
<1>2. QED
  BY <1>1, InitSerial, Invariance, PTL DEF Spec

(***************************************************************************)
(* For those clients no two transactions wait for each other: a mutation   *)
(* locks only a row that exists, and then no create is saving it.          *)
(***************************************************************************)
THEOREM NoTransactionDeadlocks ==
  ASSUME SerialCreates
  PROVE  Spec => []NoLockCycle
<1>1. ASSUME Inv, Serial, NEW e \in Executors, NEW f \in Executors, LockCycle(e, f)
      PROVE  FALSE
  <2>1. Running(e) /\ pc[e] # "read" /\ rowLock[call[e].d] = f
    BY <1>1 DEF LockCycle, Running
  <2>2. call[e].d \in Decisions
    BY <1>1, <2>1, CallIsCreateOrMutate DEF Inv, Phases, Running
  <2>3. Mutating(f) /\ call[f].d = call[e].d
    BY <1>1, <2>1, <2>2 DEF Inv, Locking
  <2>4. Exists(call[e].d)
    BY <1>1, <2>3 DEF Inv, NeverStale
  <2>5. QED
    BY <1>1, <2>1, <2>4 DEF Serial, FirstCreate
<1>2. Inv /\ Serial => NoLockCycle
  BY <1>1 DEF NoLockCycle
<1>3. QED
  BY <1>2, Invariance, SerialInvariance, PTL

(***************************************************************************)
(* For those clients docs/system-architecture.md line 167 is right: no     *)
(* step of any thread, crash or retry loses a refill or a result that was  *)
(* accepted.  The run ClaimNothingLost shows it is wrong for the others.   *)
(***************************************************************************)
THEOREM SerialClientsLoseNothing ==
  ASSUME SerialCreates
  PROVE  Spec => NothingAcceptedIsLost
<1>1. ASSUME Inv, Serial, [Next]_vars, NEW d \in Decisions, Exists(d)
      PROVE  Keeps(stored[d].ledger, stored'[d].ledger)
  <2>1. CASE incarnation'[d] = incarnation[d]
    BY <1>1, <2>1, CommitsKeep
  <2>2. CASE incarnation'[d] # incarnation[d]
    <3>1. PICK e \in Executors : CreateCommits(e)
      <4>1. ASSUME NEW e \in Executors, MutateCommits(e) PROVE UNCHANGED incarnation
        BY <4>1 DEF MutateCommits
      <4>2. QED
        BY <1>1, <2>2, <4>1, StoredChanges
    <3>2. Running(e) /\ pc[e] # "read"
      BY <3>1 DEF CreateCommits, Running
    <3>3. call[e].d \in Decisions /\ ~Exists(call[e].d)
      BY <1>1, <3>2, CallIsCreateOrMutate DEF Inv, Phases, Running, Serial, FirstCreate
    <3>4. d # call[e].d
      BY <1>1, <3>3
    <3>5. incarnation'[d] = incarnation[d]
      BY <1>1, <3>1, <3>3, <3>4 DEF CreateCommits, Inv, TypeOK
    <3>6. QED
      BY <2>2, <3>5
  <2>3. QED
    BY <2>1, <2>2
<1>2. Inv /\ Serial /\ [Next]_vars =>
        [ \A d \in Decisions :
            Exists(d) => Keeps(stored[d].ledger, stored'[d].ledger) ]_vars
  BY <1>1
<1>3. QED
  BY <1>2, Invariance, SerialInvariance, PTL DEF Spec, NothingAcceptedIsLost

(***************************************************************************)
(* For those clients the service, with all its threads, transactions,      *)
(* errors and crashes, implements the contract of its API.                 *)
(***************************************************************************)
LEMMA RefinesInit == Init => Contract!Init
BY DEF Init, Contract!Init, Exists

\* The mapped variables of the contract.
MappedResponse == [d \in Decisions |-> stored[d].response]
MappedLedger == [d \in Decisions |-> IF Exists(d) THEN stored[d].ledger ELSE <<>>]

LEMMA MappedExcept ==
  ASSUME NEW d \in Decisions, NEW s \in States, stored' = [stored EXCEPT ![d] = s],
         stored \in [Decisions -> States \cup {Absent}]
  PROVE  /\ MappedResponse' = [MappedResponse EXCEPT ![d] = s.response]
         /\ MappedLedger' = [MappedLedger EXCEPT ![d] = s.ledger]
<1>1. stored'[d] = s /\ \A b \in Decisions \ {d} : stored'[b] = stored[b]
  OBVIOUS
<1>2. MappedResponse' = [MappedResponse EXCEPT ![d] = s.response]
  BY <1>1 DEF MappedResponse
<1>3. Exists(d)' /\ \A b \in Decisions \ {d} : Exists(b)' <=> Exists(b)
  BY <1>1, AbsentIsNoState DEF Exists
<1>4. MappedLedger' = [MappedLedger EXCEPT ![d] = s.ledger]
  BY <1>1, <1>3 DEF MappedLedger
<1>5. QED
  BY <1>2, <1>4

LEMMA RefinesCreate ==
  ASSUME Inv, Serial, NEW e \in Executors, CreateCommits(e)
  PROVE  Contract!Next
<1>1. Running(e) /\ pc[e] # "read" /\ call[e] \in Calls
  BY DEF CreateCommits, Running, Inv, Phases
<1>2. PICK d \in Decisions : d = call[e].d /\ stored[d] = Absent
  BY <1>1, CallIsCreateOrMutate DEF Serial, FirstCreate, Exists
<1>3. PICK s \in States : s = local[e] /\ s.ledger = <<>> /\ s.response # Absent.response
  BY <1>1, AbsentIsNoState DEF Inv, Phases, Running, CreateCommits, States
<1>4. stored' = [stored EXCEPT ![d] = s]
  BY <1>2, <1>3 DEF CreateCommits
<1>5. /\ MappedResponse' = [MappedResponse EXCEPT ![d] = s.response]
      /\ MappedLedger' = [MappedLedger EXCEPT ![d] = s.ledger]
  BY <1>4, MappedExcept DEF Inv, TypeOK
<1>6. MappedResponse[d] = Absent.response /\ MappedResponse'[d] = s.response
  BY <1>2, <1>5 DEF MappedResponse
<1>7. MappedLedger[d] = <<>> /\ MappedLedger' = MappedLedger
  BY <1>2, <1>3, <1>5 DEF MappedLedger, Exists
<1>8. Contract!Decide(d)
  BY <1>3, <1>5, <1>6, <1>7 DEF Contract!Decide, MappedResponse, MappedLedger
<1>9. QED
  BY <1>8 DEF Contract!Next

LEMMA RefinesMutate ==
  ASSUME Inv, NEW e \in Executors, MutateCommits(e)
  PROVE  Contract!Next \/ UNCHANGED stored
<1>1. PICK d \in Decisions : d = call[e].d /\ Exists(d)
  BY MutationKeeps
<1>2. Mutating(e)
  BY DEF MutateCommits, Mutating
<1>3. PICK s \in States : s = local[e]
  BY <1>2, MutationIsOutcome
<1>4. PICK c \in Bodies : c = call[e].body /\ ~Refuse(stored[d], c)
  BY <1>1, <1>2, MutationIsOutcome
<1>5. stored' = [stored EXCEPT ![d] = s]
  BY <1>1, <1>3, MutationKeeps
<1>6. CASE s = stored[d]
  BY <1>5, <1>6 DEF Inv, TypeOK
<1>7. CASE s # stored[d]
  <2>1. PICK answer \in Replied :
          /\ s.ledger = Append(stored[d].ledger, Entry(c, answer))
          /\ s.response \in {stored[d].response, answer}
          /\ c.op # "feedback" => ~Known(stored[d], c)
    BY <1>1, <1>3, <1>4, <1>7, MutationKeeps
  <2>2. stored[d] \in States
    BY <1>1 DEF Inv, TypeOK, Exists
  <2>3. c.op = "result" => c.id = "action"
    BY <1>4 DEF Refuse, RefuseResult
  <2>4. PICK entry \in Entries : entry = Entry(c, answer)
    BY <2>3, EntryIsEntry
  <2>5. /\ MappedResponse' = [MappedResponse EXCEPT ![d] = s.response]
        /\ MappedLedger' = [MappedLedger EXCEPT ![d] = s.ledger]
    BY <1>5, MappedExcept DEF Inv, TypeOK
  <2>6. MappedResponse[d] = stored[d].response /\ MappedLedger[d] = stored[d].ledger
        /\ MappedLedger'[d] = s.ledger
    BY <1>1, <2>5 DEF MappedResponse, MappedLedger
  <2>7. stored[d].ledger \in Seq(Entries) /\ stored[d].response # Absent.response
    BY <2>2, AbsentIsNoState DEF States
  <2>8. /\ MappedLedger'[d] = Append(MappedLedger[d], entry)
        /\ MappedLedger[d] \in Seq(Entries)
        /\ Len(MappedLedger'[d]) = Len(MappedLedger[d]) + 1
        /\ MappedLedger'[d][Len(MappedLedger[d]) + 1] = entry
    BY <2>1, <2>4, <2>6, <2>7
  <2>9. \A i \in DOMAIN MappedLedger[d] : ~Contract!SameKey(MappedLedger[d][i], entry)
    BY <2>1, <2>4, <2>6 DEF Contract!SameKey, Known, Same, Entry
  <2>10. MappedResponse' = MappedResponse \/ MappedResponse' = [MappedResponse EXCEPT ![d] = entry.answer]
    BY <2>1, <2>4, <2>5, <2>6 DEF MappedResponse, Entry
  <2>11. Contract!Accept(d)
    BY <2>5, <2>6, <2>7, <2>8, <2>9, <2>10 DEF Contract!Accept, MappedResponse, MappedLedger
  <2>12. QED
    BY <2>11 DEF Contract!Next
<1>8. QED
  BY <1>6, <1>7

THEOREM ServiceImplementsContract ==
  ASSUME SerialCreates
  PROVE  Spec => ImplementsContract
<1>1. Inv /\ Serial /\ [Next]_vars => [Contract!Next]_(Contract!vars)
  <2> SUFFICES ASSUME Inv, Serial, [Next]_vars
               PROVE  Contract!Next \/ UNCHANGED Contract!vars
    OBVIOUS
  <2>1. CASE UNCHANGED stored
    BY <2>1 DEF Contract!vars, Exists
  <2>2. ASSUME NEW e \in Executors, CreateCommits(e) PROVE Contract!Next
    BY <2>2, RefinesCreate
  <2>3. ASSUME NEW e \in Executors, MutateCommits(e) PROVE Contract!Next \/ UNCHANGED stored
    BY <2>3, RefinesMutate
  <2>4. QED
    BY <2>1, <2>2, <2>3, StoredChanges
<1>2. QED
  BY <1>1, RefinesInit, Invariance, SerialInvariance, PTL
     DEF Spec, ImplementsContract, Contract!Spec
=============================================================================
