----------------------------- MODULE ModelCalls -----------------------------
(***************************************************************************)
(* The model calls of a reply.  A governed rewrite                         *)
(* (services/governed_reply_provider.py) resolves the running version's    *)
(* route, asks its primary provider and then its fallback, each with       *)
(* retries, validates what they answer and measures every attempt, while   *)
(* administrators publish versions and disable providers.  A node's call   *)
(* (services/llm.py, NodeBoundReplyProvider) asks once and leaves its      *)
(* trace in an object that all executor threads share.                     *)
(***************************************************************************)
EXTENDS Integers, Sequences

CONSTANTS
  Executors,      \* the threads that compute replies
  Rewriters,      \* those of them that rewrite: a bound, as rewrites share
                  \* nothing but the tables they read
  Attempts,       \* max_retries + 1 of the route's policy
  VersionBound    \* how many versions a run publishes

ASSUME CallsAssumption ==
  Rewriters \subseteq Executors /\ Attempts \in Nat \ {0} /\ VersionBound \in Nat

VARIABLES
  running,        \* the running version whose route serves replies; 0: none
  calls,          \* the call of each thread
  lastInvocation  \* the provider object's, shared

callsVars == << running, calls, lastInvocation >>

Roles == {"primary", "fallback"}

\* The stages that the rule of Hybrid tells apart.
StageAnswers == {"known", "unknown"}

\* "unavailable" stands for rate_limited and provider_unavailable.
Retryable == {"unavailable", "timeout"}

\* What one request to a provider comes to: a reply that the validation lets
\* through, one that it rejects, an error that no retry helps, or one it may.
ProviderAnswers == {"safe", "unsafe", "refused"} \cup Retryable

NoCall ==
  [ pc |-> "idle", version |-> 0, fallback |-> FALSE, role |-> "primary", attempt |-> 0,
    answer |-> "none", measured |-> <<>>, reply |-> "none", node |-> "none" ]

NoInvocation == [node |-> "none", status |-> "none"]

CallsInit ==
  /\ running = 0
  /\ calls = [t \in Executors |-> NoCall]
  /\ lastInvocation = NoInvocation

Update(t, call) == calls' = [calls EXCEPT ![t] = call]

------------------------------------------------------------------------------
\* Administrators publish another version.
Publish ==
  /\ running < VersionBound
  /\ running' = running + 1
  /\ UNCHANGED << calls, lastInvocation >>

------------------------------------------------------------------------------
\* One SELECT, with active the roles whose provider is enabled and active then,
\* which changes at any time: without a running version or an active primary
\* there is no route, an inactive fallback is left out of it.
ResolvesRoute(active) == running > 0 /\ "primary" \in active

Returned(t, status) == [calls[t] EXCEPT !.pc = "returned", !.reply = status]

RewriteGrounded(t) ==
  /\ t \in Rewriters /\ calls[t].pc = "idle"
  /\ \E active \in SUBSET Roles :
       IF ResolvesRoute(active)
         THEN \/ Update(t, Returned(t, "input_rejected"))
              \/ Update(t, [NoCall EXCEPT !.pc = "asking", !.version = running,
                              !.fallback = "fallback" \in active, !.attempt = 1])
         ELSE Update(t, Returned(t, "route_unavailable"))
  /\ UNCHANGED << running, lastInvocation >>

\* Variant: every such error is tried again.
AgainAlways(call, answer) == answer \in Retryable

\* One request of generate's loop: only some errors are tried again.
Again(call, answer) == answer \in Retryable /\ call.attempt < Attempts

Generate(t) ==
  /\ calls[t].pc = "asking"
  /\ \E answer \in ProviderAnswers :
       Update(t, IF Again(calls[t], answer)
                   THEN [calls[t] EXCEPT !.attempt = @ + 1]
                   ELSE [calls[t] EXCEPT !.answer = answer, !.pc = "measuring"])
  /\ UNCHANGED << running, lastInvocation >>

\* Variant: what the provider answered succeeded, validated or not.
MetricStatusUnvalidated(answer) ==
  CASE answer \in {"safe", "unsafe"} -> "succeeded"
    [] answer = "timeout" -> "timed_out"
    [] OTHER -> "failed"

MetricStatus(answer) ==
  CASE answer = "safe"    -> "succeeded"
    [] answer = "unsafe"  -> "rejected"
    [] answer = "timeout" -> "timed_out"
    [] OTHER              -> "failed"

\* The rewrite after an attempt is measured: it returns the validated reply, goes
\* on to the fallback, or keeps the deterministic draft.
AfterAttempt(call) ==
  IF call.answer /= "safe" /\ call.role = "primary" /\ call.fallback
    THEN [call EXCEPT !.pc = "asking", !.role = "fallback", !.attempt = 1, !.answer = "none"]
    ELSE [call EXCEPT !.pc = "returned", !.answer = "none",
                      !.reply = IF call.answer = "safe" THEN "succeeded" ELSE "failed"]

\* Variant: the table takes the rows of the primary only.
MeasurePrimary(t) ==
  /\ calls[t].pc = "measuring"
  /\ LET row == << calls[t].role, MetricStatus(calls[t].answer) >> IN
       Update(t, IF running = calls[t].version /\ calls[t].role = "primary"
                   THEN AfterAttempt([calls[t] EXCEPT !.measured = Append(@, row)])
                   ELSE [calls[t] EXCEPT !.pc = "raised"])
  /\ UNCHANGED << running, lastInvocation >>

\* The metric is inserted before anything else happens.  The table takes it only
\* while the route's version runs: otherwise the insert raises, and so does the
\* rewrite, whatever the provider answered.
Measure(t) ==
  /\ calls[t].pc = "measuring"
  /\ LET row == << calls[t].role, MetricStatus(calls[t].answer) >> IN
       Update(t, IF running = calls[t].version
                   THEN AfterAttempt([calls[t] EXCEPT !.measured = Append(@, row)])
                   ELSE [calls[t] EXCEPT !.pc = "raised"])
  /\ UNCHANGED << running, lastInvocation >>

------------------------------------------------------------------------------
\* A model never overrules a stage that the rules found.
Hybrid(baseline, parsed) == IF baseline = "unknown" THEN parsed ELSE baseline

CallNode(t) ==
  /\ calls[t].pc = "idle"
  /\ \E n \in {"classify_service_stage", "generate_candidate"} :
       Update(t, [NoCall EXCEPT !.pc = "calling", !.node = n])
  /\ UNCHANGED << running, lastInvocation >>

\* A failed classification falls back on the rules, a failed generation raises;
\* either way the invocation is left where every thread leaves its own.
AnswerNode(t) ==
  /\ calls[t].pc = "calling"
  /\ \E status \in {"succeeded", "failed"} :
       /\ lastInvocation' = [node |-> calls[t].node, status |-> status]
       /\ \/ /\ calls[t].node = "classify_service_stage"
             /\ \E baseline, parsed \in StageAnswers :
                  Update(t, [calls[t] EXCEPT
                    !.pc = "tracing",
                    !.reply = IF status = "succeeded" THEN Hybrid(baseline, parsed)
                              ELSE baseline])
          \/ /\ calls[t].node = "generate_candidate"
             /\ Update(t, [calls[t] EXCEPT !.pc = "tracing", !.reply = status])
  /\ UNCHANGED running

\* Variant: the step waits for the trace of its own node.
TraceOwnNode(t) ==
  /\ calls[t].pc = "tracing" /\ lastInvocation.node = calls[t].node
  /\ Update(t, [calls[t] EXCEPT
       !.pc = "traced", !.measured = << lastInvocation.node, lastInvocation.status >>])
  /\ UNCHANGED << running, lastInvocation >>

\* The graph's step takes the trace if it is of the step's node.
TraceNode(t) ==
  /\ calls[t].pc = "tracing"
  /\ Update(t, [calls[t] EXCEPT
       !.pc = "traced",
       !.measured = IF lastInvocation.node = calls[t].node
                      THEN << lastInvocation.node, lastInvocation.status >> ELSE <<>>])
  /\ UNCHANGED << running, lastInvocation >>

\* The reply goes on to the rest of its graph.
Leave(t) ==
  /\ calls[t].pc \in {"returned", "raised", "traced"}
  /\ Update(t, NoCall)
  /\ UNCHANGED << running, lastInvocation >>

Proceed(t) ==
  \/ Generate(t) \/ Measure(t) \/ AnswerNode(t) \/ TraceNode(t) \/ Leave(t)

CallsNext ==
  \/ Publish
  \/ \E t \in Executors : RewriteGrounded(t) \/ CallNode(t) \/ Proceed(t)

\* Requests have a timeout and inserts end, so a call that has begun goes on.
CallsFairness == \A t \in Executors : WF_callsVars(Proceed(t))

CallsSpec == CallsInit /\ [][CallsNext]_callsVars /\ CallsFairness

------------------------------------------------------------------------------
\* Types: the governance tables as the calls see them, and every call's record.
CallsTypeOK ==
  /\ running \in 0..VersionBound
  /\ \A t \in Executors :
       /\ calls[t].role \in Roles
       /\ calls[t].attempt \in 0..Attempts
       /\ calls[t].version \in 0..VersionBound
       /\ Len(calls[t].measured) <= 2
  /\ lastInvocation.status \in {"none", "succeeded", "failed"}

\* A rewrite that returns has measured each provider it tried, in the order it
\* tried them, the last one with the outcome it returns; the fallback is tried
\* only after the primary was, and only if it was active when the call began.
Measured(call) ==
  LET rows == call.measured IN
  /\ \A i \in 1..Len(rows) : rows[i][1] = (IF i = 1 THEN "primary" ELSE "fallback")
  /\ call.reply = "succeeded" =>
       /\ rows /= <<>>
       /\ \A i \in 1..Len(rows) : rows[i][2] = "succeeded" <=> i = Len(rows)
  /\ call.reply = "failed" =>
       /\ Len(rows) = (IF call.fallback THEN 2 ELSE 1)
       /\ \A i \in 1..Len(rows) : rows[i][2] /= "succeeded"

\* A rewrite that raises does so because another version was published meanwhile,
\* and loses one answer by it: all it has measured is the failure of its primary.
Overtaken(call) ==
  LET rows == call.measured IN
  /\ call.version < running
  /\ Len(rows) = (IF call.role = "fallback" THEN 1 ELSE 0)
  /\ \A i \in 1..Len(rows) : rows[i][1] = "primary" /\ rows[i][2] /= "succeeded"

MeasuredAsTried ==
  \A t \in Executors :
    /\ calls[t].pc = "returned" /\ calls[t].version > 0 => Measured(calls[t])
    /\ calls[t].pc = "raised" => Overtaken(calls[t])

\* Every call ends, however often providers and versions change under it.
EveryCallEnds == \A t \in Executors : calls[t].pc /= "idle" ~> calls[t].pc = "idle"
=============================================================================
