-------------------------- MODULE DecisionContract --------------------------
(***************************************************************************)
(* What the reply-decision API promises to its clients, without threads,   *)
(* locks, databases or graphs: a request is decided once; the client's     *)
(* contexts, action results and feedback are accepted once each and stay   *)
(* accepted; and the answer to a request only changes in the acceptance    *)
(* that returns the new answer to the client.                              *)
(*                                                                         *)
(* DecisionService is shown to implement it for clients that do not send a *)
(* request again while its first attempt is still running.                 *)
(***************************************************************************)
EXTENDS Naturals, Sequences

CONSTANTS
  Decisions,    \* the requests: (organization, store, request_id)
  NoResponse

VARIABLES
  response,     \* [Decisions -> the answer, or NoResponse before it is decided]
  ledger        \* [Decisions -> sequence of what has been accepted for it]

vars == << response, ledger >>

\* Feedback has no idempotency key.
SameKey(a, b) == a.op # "feedback" /\ a.op = b.op /\ a.id = b.id /\ a.key = b.key

Init ==
  /\ response = [d \in Decisions |-> NoResponse]
  /\ ledger = [d \in Decisions |-> <<>>]

(***************************************************************************)
(* Decisions and entries are not enumerated: an action says what may       *)
(* become of response and ledger.                                          *)
(***************************************************************************)
Decide(d) ==
  /\ response[d] = NoResponse
  /\ response'[d] # NoResponse
  /\ response' = [response EXCEPT ![d] = response'[d]]
  /\ UNCHANGED ledger

\* The answer changes to the one this acceptance returns, or not at all.
Accept(d) ==
  LET entry == ledger'[d][Len(ledger[d]) + 1]
  IN  /\ response[d] # NoResponse
      /\ Len(ledger'[d]) = Len(ledger[d]) + 1
      /\ \A i \in DOMAIN ledger[d] : ~SameKey(ledger[d][i], entry)
      /\ ledger' = [ledger EXCEPT ![d] = Append(@, entry)]
      /\ \/ UNCHANGED response
         \/ response' = [response EXCEPT ![d] = entry.answer]

Next == \E d \in Decisions : Decide(d) \/ Accept(d)

Spec == Init /\ [][Next]_vars
=============================================================================
