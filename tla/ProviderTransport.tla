-------------------------- MODULE ProviderTransport --------------------------
(***************************************************************************)
(* How a provider is reached (services/llm_governance_adapters.py).  Every *)
(* call resolves the provider's name through one pool of daemon threads    *)
(* with a bounded number of outstanding jobs, then makes two exchanges     *)
(* over TLS, one for the Secret and one with the provider, the latter      *)
(* through a proxy where one is configured, within one deadline; the local *)
(* debug adapter has its Secret, and no proxy.  A timer per connection     *)
(* closes its socket at the deadline, because a peer that keeps sending    *)
(* bytes outlives every socket timeout.                                    *)
(***************************************************************************)
EXTENDS Integers, Sequences, FiniteSets

CONSTANTS
  Probes,          \* the threads that call a provider
  Workers,         \* the pool's threads
  MaxOutstanding,  \* its limit of jobs accepted and not finished
  Proxied,         \* whether the provider is reached through a proxy
  Nobody           \* owner of a job whose caller has given up

ASSUME PoolAssumption ==
  /\ MaxOutstanding \in Nat /\ Proxied \in BOOLEAN /\ Nobody \notin Probes
  /\ IsFiniteSet(Probes) /\ IsFiniteSet(Workers) /\ Workers /= {}
  /\ Cardinality(Workers) <= MaxOutstanding

VARIABLES
  permits,      \* the semaphore
  outstanding,  \* the counter under the lock
  jobs,         \* the queue between the callers and the pool: a job's owner
  workers,      \* the job of each pool thread and how far it is
  probes        \* the call of each thread

transportVars == << permits, outstanding, jobs, workers, probes >>

Resting == [pc |-> "resting", job |-> Nobody]

\* A call: where it is, what its job's own result queue holds, which exchange it
\* is at, whether its deadline has passed, its open socket, and the timer of its
\* connection with the socket that the timer would close.
Silent ==
  [ pc |-> "idle", result |-> "empty", leg |-> "lookup", late |-> FALSE,
    socket |-> "none", timer |-> "off", guarded |-> "none" ]

TransportInit ==
  /\ permits = MaxOutstanding
  /\ outstanding = 0
  /\ jobs = <<>>
  /\ workers = [w \in Workers |-> Resting]
  /\ probes = [t \in Probes |-> Silent]

Set(t, probe) == probes' = [probes EXCEPT ![t] = probe]

Pool == << permits, outstanding, jobs, workers >>

------------------------------------------------------------------------------
(***************************************************************************)
(* _BoundedResolverPool                                                    *)
(***************************************************************************)
\* A permit is taken without waiting, or the call times out at once.
Acquire(t) ==
  /\ probes[t].pc \in {"idle", "proxying"}
  /\ IF permits > 0
       THEN permits' = permits - 1 /\ Set(t, [probes[t] EXCEPT !.pc = "counting"])
       ELSE Set(t, [probes[t] EXCEPT !.pc = "failed"]) /\ UNCHANGED permits
  /\ UNCHANGED << outstanding, jobs, workers >>

Count(t) ==
  /\ probes[t].pc = "counting"
  /\ outstanding' = outstanding + 1
  /\ Set(t, [probes[t] EXCEPT !.pc = "queueing"])
  /\ UNCHANGED << permits, jobs, workers >>

\* A full queue would give the permit back; QueueHasRoom: it never is.
Enqueue(t) ==
  /\ probes[t].pc = "queueing"
  /\ IF Len(jobs) < MaxOutstanding
       THEN /\ jobs' = Append(jobs, t)
            /\ Set(t, [probes[t] EXCEPT !.pc = "resolving"])
            /\ UNCHANGED << outstanding, permits >>
       ELSE /\ outstanding' = outstanding - 1 /\ permits' = permits + 1
            /\ Set(t, [probes[t] EXCEPT !.pc = "failed"])
            /\ UNCHANGED jobs
  /\ UNCHANGED workers

\* What a call goes on to: its first exchange, which the local adapter's
\* deadline begins with, or the tunnel to the provider.
Connecting(probe) ==
  IF probe.leg = "lookup"
    THEN {[probe EXCEPT !.pc = "connecting", !.result = "empty", !.leg = "secret"],
          [probe EXCEPT !.pc = "connecting", !.result = "empty", !.leg = "local",
                        !.late = FALSE]}
    ELSE {[probe EXCEPT !.pc = "connecting", !.result = "empty", !.leg = "tunnel"]}

\* The answer of the call's own job; unusable addresses end the call.
Resolved(t) ==
  /\ probes[t].pc = "resolving"
  /\ probes[t].result /= "empty"
  /\ \/ /\ probes[t].result = "addresses"
        /\ \E next \in Connecting(probes[t]) : Set(t, next)
     \/ Set(t, [probes[t] EXCEPT !.pc = "failed"])
  /\ UNCHANGED Pool

\* The deadline passes, in whatever state the call is.
Expire(t) ==
  /\ probes[t].pc \notin {"idle", "failed", "succeeded"} /\ ~probes[t].late
  /\ Set(t, [probes[t] EXCEPT !.late = TRUE])
  /\ UNCHANGED Pool

Disowned(t) ==
  /\ jobs' = [i \in DOMAIN jobs |-> IF jobs[i] = t THEN Nobody ELSE jobs[i]]
  /\ workers' = [w \in Workers |->
       IF workers[w].job = t THEN [workers[w] EXCEPT !.job = Nobody] ELSE workers[w]]

\* Variant: it gives its permit back.
GiveUpFrees(t) ==
  /\ probes[t].pc = "resolving" /\ probes[t].late /\ probes[t].result = "empty"
  /\ permits' = permits + 1
  /\ Disowned(t)
  /\ Set(t, [probes[t] EXCEPT !.pc = "failed"])
  /\ UNCHANGED outstanding

\* result.get gives up; the job stays in the pool and answers nobody.
GiveUp(t) ==
  /\ probes[t].pc = "resolving" /\ probes[t].late /\ probes[t].result = "empty"
  /\ Disowned(t)
  /\ Set(t, [probes[t] EXCEPT !.pc = "failed"])
  /\ UNCHANGED << permits, outstanding >>

Take(w) ==
  /\ workers[w].pc = "resting" /\ jobs /= <<>>
  /\ workers' = [workers EXCEPT ![w] = [pc |-> "resolving", job |-> Head(jobs)]]
  /\ jobs' = Tail(jobs)
  /\ UNCHANGED << permits, outstanding, probes >>

\* getaddrinfo returns or raises: into the queue that only this job's caller has.
Answer(w) ==
  /\ workers[w].pc = "resolving"
  /\ \E outcome \in {"addresses", "error"} :
       probes' = [t \in Probes |-> IF workers[w].job = t
                    THEN [probes[t] EXCEPT !.result = outcome] ELSE probes[t]]
  /\ workers' = [workers EXCEPT ![w] = [pc |-> "uncounting", job |-> Nobody]]
  /\ UNCHANGED << permits, outstanding, jobs >>

Uncount(w) ==
  /\ workers[w].pc = "uncounting"
  /\ outstanding' = outstanding - 1
  /\ workers' = [workers EXCEPT ![w].pc = "releasing"]
  /\ UNCHANGED << permits, jobs, probes >>

Release(w) ==
  /\ workers[w].pc = "releasing"
  /\ permits' = permits + 1
  /\ workers' = [workers EXCEPT ![w] = Resting]
  /\ UNCHANGED << outstanding, jobs, probes >>

------------------------------------------------------------------------------
(***************************************************************************)
(* One exchange: connect, guard, TLS, request, headers, body               *)
(***************************************************************************)
\* Variant: only the timer is cancelled.
CloseTimer(probe, pc) == [probe EXCEPT !.pc = pc, !.timer = "off", !.guarded = "none"]

\* `finally`: the timer is cancelled and the socket closed, however it ends.
Close(probe, pc) ==
  [probe EXCEPT !.pc = pc, !.socket = "none", !.timer = "off", !.guarded = "none"]

\* Each step is preceded by deadline.remaining() and ends the call when it is
\* past; a peer may also refuse any of them.
Try(t, from, next) ==
  /\ probes[t].pc = from
  /\ \/ ~probes[t].late /\ Set(t, next)
     \/ Set(t, Close(probes[t], "failed"))
  /\ UNCHANGED Pool

\* The raw socket is guarded at once: a timer that cannot be started closes it.
Connect(t) ==
  Try(t, "connecting", [probes[t] EXCEPT
        !.pc = IF probes[t].leg = "tunnel" THEN "tunnelling" ELSE "wrapping",
        !.socket = "raw", !.timer = "armed", !.guarded = "raw"])

\* CONNECT and the proxy's answer: the deadline is looked at after each chunk.
Tunnel(t) == Try(t, "tunnelling", [probes[t] EXCEPT !.pc = "wrapping", !.leg = "provider"])

\* wrap_socket takes the descriptor over: the raw object no longer closes it.
Wrap(t) == Try(t, "wrapping", [probes[t] EXCEPT !.pc = "replacing", !.socket = "tls"])

\* Variant: the timer keeps the raw socket.
KeepSocket(t) ==
  /\ probes[t].pc = "replacing"
  /\ Set(t, [probes[t] EXCEPT !.pc = "starting"])
  /\ UNCHANGED Pool

\* The guard's lock orders this with the timer.
ReplaceSocket(t) ==
  /\ probes[t].pc = "replacing"
  /\ Set(t, [probes[t] EXCEPT !.pc = "starting", !.guarded = "tls"])
  /\ UNCHANGED Pool

\* Handshake, request and status line: the socket's timeout starts again with
\* every byte, so only the peer ends this, or a closed socket.
Begin(t) == Try(t, "starting", [probes[t] EXCEPT !.pc = "exchanging"])

PeerAnswers(t) ==
  /\ probes[t].pc = "exchanging" /\ probes[t].socket = "tls"
  /\ Set(t, [probes[t] EXCEPT !.pc = "reading"])
  /\ UNCHANGED Pool

PeerFails(t) ==
  /\ probes[t].pc = "exchanging"
  /\ Set(t, Close(probes[t], "failed"))
  /\ UNCHANGED Pool

SocketClosed(t) ==
  /\ probes[t].pc = "exchanging" /\ probes[t].socket = "closed"
  /\ Set(t, Close(probes[t], "failed"))
  /\ UNCHANGED Pool

\* The timer takes the guarded socket, then closes it outside the lock.
Fire(t) ==
  /\ probes[t].timer = "armed" /\ probes[t].late
  /\ Set(t, [probes[t] EXCEPT !.timer = "firing"])
  /\ UNCHANGED Pool

CloseGuarded(t) ==
  /\ probes[t].timer = "firing"
  /\ Set(t, [probes[t] EXCEPT
       !.timer = "fired",
       !.socket = IF probes[t].guarded = probes[t].socket THEN "closed" ELSE @])
  /\ UNCHANGED Pool

\* _read_bounded: the deadline is looked at after each chunk, the last one too.
ReadBounded(t) == Try(t, "reading", [probes[t] EXCEPT !.pc = "answered"])

\* The Secret is decoded; the provider's exchange has a connection of its own.
ReadSecret(t) ==
  /\ probes[t].pc = "answered" /\ probes[t].leg = "secret"
  /\ \/ /\ ~probes[t].late
        /\ Set(t, [Close(probes[t], IF Proxied THEN "proxying" ELSE "connecting")
                     EXCEPT !.leg = "provider"])
     \/ Set(t, Close(probes[t], "failed"))
  /\ UNCHANGED Pool

\* The provider's status decides.
ReadReply(t) ==
  /\ probes[t].pc = "answered" /\ probes[t].leg \in {"provider", "local"}
  /\ \/ ~probes[t].late /\ Set(t, Close(probes[t], "succeeded"))
     \/ Set(t, Close(probes[t], "failed"))
  /\ UNCHANGED Pool

Done(t) ==
  /\ probes[t].pc \in {"failed", "succeeded"}
  /\ Set(t, Silent)
  /\ UNCHANGED Pool

------------------------------------------------------------------------------
WorkerStep(w) == Take(w) \/ Answer(w) \/ Uncount(w) \/ Release(w)

CallerStep(t) ==
  \/ Count(t) \/ Enqueue(t) \/ Resolved(t) \/ GiveUp(t)
  \/ Connect(t) \/ Wrap(t) \/ ReplaceSocket(t) \/ Begin(t) \/ SocketClosed(t)
  \/ Tunnel(t) \/ ReadBounded(t) \/ ReadSecret(t) \/ ReadReply(t) \/ Done(t)
  \/ probes[t].pc = "proxying" /\ Acquire(t)

TimerStep(t) == Expire(t) \/ Fire(t) \/ CloseGuarded(t)

TransportNext ==
  \/ \E w \in Workers : WorkerStep(w)
  \/ \E t \in Probes :
       \/ probes[t].pc = "idle" /\ Acquire(t)
       \/ CallerStep(t) \/ TimerStep(t) \/ PeerAnswers(t) \/ PeerFails(t)

\* Threads run, time passes and getaddrinfo returns; peers owe nothing.
TransportFairness ==
  /\ \A w \in Workers : WF_transportVars(WorkerStep(w))
  /\ \A t \in Probes : WF_transportVars(CallerStep(t)) /\ WF_transportVars(TimerStep(t))

TransportSpec == TransportInit /\ [][TransportNext]_transportVars /\ TransportFairness

------------------------------------------------------------------------------
\* Types: the pool's counters and every call's record.
TransportTypeOK ==
  /\ permits \in 0..MaxOutstanding
  /\ outstanding \in 0..MaxOutstanding
  /\ jobs \in Seq(Probes \cup {Nobody})
  /\ \A w \in Workers : workers[w].job \in Probes \cup {Nobody}

Busy(w) == workers[w].pc /= "resting"

\* No permit is lost or made up: what is not free is on its way into the queue,
\* in it, or with a worker; a caller that gave up does not free its own.
PermitsAreKept ==
  permits + Len(jobs) + Cardinality({w \in Workers : Busy(w)})
    + Cardinality({t \in Probes : probes[t].pc \in {"counting", "queueing"}})
    = MaxOutstanding

\* The bounded queue never refuses a job that has a permit.
QueueHasRoom == \A t \in Probes : probes[t].pc = "queueing" => Len(jobs) < MaxOutstanding

\* No socket outlives its call, whichever of timer, peer and caller ended it.
NoSocketLeaks ==
  \A t \in Probes :
    probes[t].pc \in {"idle", "failed", "succeeded", "connecting", "proxying"}
      => probes[t].socket = "none" /\ probes[t].timer = "off"

\* A peer that keeps a connection alive cannot keep a call: each one ends, even
\* when the timer fires between the wrapping of a socket and its replacement.
EveryProbeEnds == \A t \in Probes : probes[t].pc /= "idle" ~> probes[t].pc = "idle"
=============================================================================
