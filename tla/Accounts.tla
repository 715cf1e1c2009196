------------------------------ MODULE Accounts ------------------------------
(***************************************************************************)
(* How a customer administrator comes to a session                         *)
(* (services/admin_auth.py on PostgreSQL, services/open_erp_integration.py *)
(* and services/oidc.py): by password, by an OIDC subject, or by a launch  *)
(* ticket of the ERP.  Account rows are made by logins only: that of the   *)
(* initial organization by every password or OIDC login, that of a tenant  *)
(* by a launch; all have the one configured e-mail address.                *)
(*                                                                         *)
(* Connectors and tickets live in the memory of one replica.  A launch     *)
(* exchange holds the event loop of its replica from end to end; an OIDC   *)
(* login, on a thread, and a link, between whose steps the provider is     *)
(* asked, take the steps between which others come.                        *)
(***************************************************************************)
EXTENDS Integers, Sequences, FiniteSets

CONSTANTS
  Tenants,         \* organizations that the ERP launches
  InitialAdmin,    \* the account of the initial organization
  Subjects,        \* OIDC subjects
  NoSubject,
  Replicas,
  Tickets,         \* launch tokens
  Visitors,        \* the threads and event loops that serve OIDC callbacks
  SessionBound     \* how many sessions a run opens

ASSUME AccountsAssumption ==
  /\ InitialAdmin \notin Tenants /\ NoSubject \notin Subjects /\ SessionBound \in Nat
  /\ Tickets \cap {"password", "oidc"} = {}

\* A tenant's account is named by its tenant.
Admins == Tenants \cup {InitialAdmin}

VARIABLES
  roster,      \* the accounts with a membership, in the order of its creation
  subjectOf,   \* admin_user.fcihome_account_sub
  wide,        \* the accounts whose organization has more than one store
  sessions,    \* admin_session
  connectors,  \* each replica's connector of each tenant
  tickets,     \* each launch ticket, and the replica that keeps it
  visitors     \* the OIDC request that each thread serves

accountsVars == << roster, subjectOf, wide, sessions, connectors, tickets, visitors >>

Exists(list, a) == \E i \in DOMAIN list : list[i] = a

\* Upserts of an organization, its store, its account and the membership.
WithAccount(a) == IF Exists(roster, a) THEN roster ELSE Append(roster, a)

Bootstrapped == WithAccount(InitialAdmin)

Launched(t) == WithAccount(t)

Waiting == [op |-> "none"]

AccountsInit ==
  /\ roster = <<>>
  /\ subjectOf = [a \in Admins |-> NoSubject]
  /\ wide = {}
  /\ sessions = <<>>
  /\ connectors = [r \in Replicas |-> [t \in Tenants |-> "none"]]
  /\ tickets = [k \in Tickets |-> [state |-> "unissued"]]
  /\ visitors = [v \in Visitors |-> Waiting]

Opened(a, via) == Append(sessions, [admin |-> a, via |-> via, open |-> TRUE])

------------------------------------------------------------------------------
\* Every password or OIDC login first upserts the initial organization, account
\* and membership: their rows stay locked until the login commits.
InitialRowsFree == \A v \in Visitors : visitors[v].op /= "login"

\* The address and the password hash are those of every account, so the SELECT
\* takes the oldest membership, which a tenant's may be.
Login ==
  /\ InitialRowsFree
  /\ Len(sessions) < SessionBound
  /\ roster' = Bootstrapped
  /\ sessions' = Opened(roster'[1], "password")
  /\ UNCHANGED << subjectOf, wide, connectors, tickets, visitors >>

\* What the OIDC provider says of the person whose code is exchanged.
Profiles == [subject : Subjects, verified : BOOLEAN]

\* The oldest account without a subject, when it is the only one.  LIMIT 2 counts
\* rows, one per store: two of this account hide the others.
OneMatch(list, i) ==
  /\ subjectOf[list[i]] = NoSubject
  /\ \A j \in DOMAIN list \ {i} :
       subjectOf[list[j]] = NoSubject => i < j /\ list[i] \in wide

\* login_oidc up to its UPDATE: the account of the subject, or the one unbound
\* account of a verified address.  Anything else is refused and rolled back.
LoginOidc(v, profile) ==
  /\ visitors[v] = Waiting
  /\ InitialRowsFree
  /\ LET list == Bootstrapped
         bound == {a \in Admins : Exists(list, a) /\ subjectOf[a] = profile.subject}
     IN \/ \E a \in bound :
             visitors' = [visitors EXCEPT ![v] =
               [op |-> "login", subject |-> profile.subject, admin |-> a, binds |-> FALSE]]
        \/ /\ bound = {} /\ profile.verified
           /\ \E i \in DOMAIN list :
                /\ OneMatch(list, i)
                /\ visitors' = [visitors EXCEPT ![v] =
                     [op |-> "login", subject |-> profile.subject, admin |-> list[i],
                      binds |-> TRUE]]
  /\ UNCHANGED << roster, subjectOf, wide, sessions, connectors, tickets >>

\* Variant: no such index.
NoIndex(a, subject) == TRUE

\* The partial unique index on fcihome_account_sub refuses a second account.
IndexAllows(a, subject) == \A b \in Admins \ {a} : subjectOf[b] /= subject

\* The UPDATE of a login that binds, which does not look again at the account's
\* subject, and its session; a refusal of the index rolls everything back.
CommitLogin(v) ==
  /\ visitors[v].op = "login"
  /\ LET a == visitors[v].admin IN
       \/ /\ visitors[v].binds => IndexAllows(a, visitors[v].subject)
          /\ Len(sessions) < SessionBound
          /\ roster' = Bootstrapped
          /\ subjectOf' = IF visitors[v].binds
                            THEN [subjectOf EXCEPT ![a] = visitors[v].subject] ELSE subjectOf
          /\ sessions' = Opened(a, "oidc")
       \/ /\ visitors[v].binds /\ ~IndexAllows(a, visitors[v].subject)
          /\ UNCHANGED << roster, subjectOf, sessions >>
  /\ visitors' = [visitors EXCEPT ![v] = Waiting]
  /\ UNCHANGED << wide, connectors, tickets >>

------------------------------------------------------------------------------
\* require_session admits a session that is open; the code is then exchanged for
\* the profile over the network.
Admits(i) == sessions[i].open

LinkBegin(v, subject) ==
  /\ visitors[v] = Waiting
  /\ \E i \in DOMAIN sessions :
       /\ Admits(i)
       /\ visitors' = [visitors EXCEPT ![v] =
            [op |-> "link", subject |-> subject, admin |-> sessions[i].admin, binds |-> TRUE]]
  /\ UNCHANGED << roster, subjectOf, wide, sessions, connectors, tickets >>

\* One UPDATE, with its NOT EXISTS: an address that is not the account's, or a
\* subject that is another's, changes nothing.
LinkOidc(v) ==
  /\ visitors[v].op = "link"
  /\ LET a == visitors[v].admin IN
       /\ a = InitialAdmin => InitialRowsFree
       /\ \/ /\ IndexAllows(a, visitors[v].subject)
             /\ subjectOf' = [subjectOf EXCEPT ![a] = visitors[v].subject]
          \/ UNCHANGED subjectOf
  /\ visitors' = [visitors EXCEPT ![v] = Waiting]
  /\ UNCHANGED << roster, wide, sessions, connectors, tickets >>

\* The replica or its connection is lost, and the transaction rolled back.
LoseVisitor(v) ==
  /\ visitors[v] /= Waiting
  /\ visitors' = [visitors EXCEPT ![v] = Waiting]
  /\ UNCHANGED << roster, subjectOf, wide, sessions, connectors, tickets >>

\* Logout, or eight hours.
EndSession ==
  /\ \E i \in DOMAIN sessions :
       sessions[i].open /\ sessions' = [sessions EXCEPT ![i].open = FALSE]
  /\ UNCHANGED << roster, subjectOf, wide, connectors, tickets, visitors >>

\* A second store of an organization (system administration, product import).
AddStore ==
  /\ \E i \in DOMAIN roster : wide' = wide \cup {roster[i]}
  /\ UNCHANGED << roster, subjectOf, sessions, connectors, tickets, visitors >>

------------------------------------------------------------------------------
\* A known connector is returned as it is, paused or not.
Provision(r, t) ==
  /\ connectors[r][t] = "none"
  /\ connectors' = [connectors EXCEPT ![r][t] = "active"]
  /\ UNCHANGED << roster, subjectOf, wide, sessions, tickets, visitors >>

PatchConnector(r, t, status) ==
  /\ connectors[r][t] /= "none"
  /\ connectors' = [connectors EXCEPT ![r][t] = status]
  /\ UNCHANGED << roster, subjectOf, wide, sessions, tickets, visitors >>

IssueTicket(r, t, k) ==
  /\ connectors[r][t] = "active"
  /\ tickets[k].state = "unissued"
  /\ tickets' = [tickets EXCEPT ![k] = [state |-> "live", tenant |-> t, replica |-> r]]
  /\ UNCHANGED << roster, subjectOf, wide, sessions, connectors, visitors >>

ExpireTicket(k) ==
  /\ tickets[k].state = "live"
  /\ tickets' = [tickets EXCEPT ![k].state = "expired"]
  /\ UNCHANGED << roster, subjectOf, wide, sessions, connectors, visitors >>

\* login_launch, up to its commit.
LoginLaunch(k) ==
  /\ Len(sessions) < SessionBound
  /\ roster' = Launched(tickets[k].tenant)
  /\ sessions' = Opened(tickets[k].tenant, k)

\* Variant: the ticket is marked once the answer is complete.
ExchangeMarksLast(k) ==
  /\ tickets[k].state = "live"
  /\ LoginLaunch(k)
  /\ \/ tickets' = [tickets EXCEPT ![k].state = "consumed"]
     \/ UNCHANGED tickets
  /\ UNCHANGED << subjectOf, wide, connectors, visitors >>

Consume(k) ==
  /\ tickets[k].state = "live"
  /\ tickets' = [tickets EXCEPT ![k].state = "consumed"]

\* The exchange marks the ticket before it logs in.  The login may fail, before
\* its commit or, in the reads that build the answer, after it: the visitor sees
\* an error either way and may send the token again.  Elsewhere it is unknown.
ExchangeTicket(k) ==
  /\ Consume(k)
  /\ LoginLaunch(k) \/ UNCHANGED << roster, sessions >>
  /\ UNCHANGED << subjectOf, wide, connectors, visitors >>

\* A replica restarts and has forgotten its connectors and tickets.
Restart(r) ==
  /\ connectors' = [connectors EXCEPT ![r] = [t \in Tenants |-> "none"]]
  /\ tickets' = [k \in Tickets |->
       IF tickets[k].state /= "unissued" /\ tickets[k].replica = r
         THEN [tickets[k] EXCEPT !.state = "forgotten"] ELSE tickets[k]]
  /\ UNCHANGED << roster, subjectOf, wide, sessions, visitors >>

AccountsNext ==
  \/ Login \/ EndSession \/ AddStore
  \/ \E v \in Visitors :
       \/ CommitLogin(v) \/ LinkOidc(v) \/ LoseVisitor(v)
       \/ \E s \in Subjects : LinkBegin(v, s)
       \/ \E profile \in Profiles : LoginOidc(v, profile)
  \/ \E r \in Replicas :
       \/ Restart(r)
       \/ \E t \in Tenants :
            \/ Provision(r, t) \/ \E k \in Tickets : IssueTicket(r, t, k)
            \/ \E status \in {"active", "paused", "revoked"} : PatchConnector(r, t, status)
  \/ \E k \in Tickets : ExpireTicket(k) \/ ExchangeTicket(k)

AccountsSpec == AccountsInit /\ [][AccountsNext]_accountsVars

------------------------------------------------------------------------------
SessionRow == [admin : Admins, via : {"password", "oidc"} \cup Tickets, open : BOOLEAN]

TicketRow ==
  [state : {"unissued"}]
    \cup [state : {"live", "expired", "consumed", "forgotten"}, tenant : Tenants,
          replica : Replicas]

VisitOf ==
  {Waiting} \cup [op : {"login", "link"}, subject : Subjects, admin : Admins, binds : BOOLEAN]

\* Types of the tables, of a replica's memory and of the threads' records.
AccountsTypeOK ==
  /\ roster \in Seq(Admins)
  /\ subjectOf \in [Admins -> Subjects \cup {NoSubject}]
  /\ wide \subseteq Admins
  /\ sessions \in Seq(SessionRow)
  /\ connectors \in [Replicas -> [Tenants -> {"none", "active", "paused", "revoked"}]]
  /\ tickets \in [Tickets -> TicketRow]
  /\ visitors \in [Visitors -> VisitOf]

\* One subject is one account, although a login by e-mail and a manual link each
\* look for the subject first and write it later.
SubjectNamesOneAccount ==
  \A a, b \in Admins : subjectOf[a] /= NoSubject /\ subjectOf[a] = subjectOf[b] => a = b

\* A ticket opens at most one session, also when the exchange fails after it has
\* committed the session and is sent again, and its session is its tenant's.
TicketOpensOneSession ==
  \A i, j \in DOMAIN sessions :
    sessions[i].via \in Tickets =>
      /\ sessions[i].admin = tickets[sessions[i].via].tenant
      /\ sessions[j].via = sessions[i].via => i = j
=============================================================================
