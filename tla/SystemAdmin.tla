----------------------------- MODULE SystemAdmin -----------------------------
(***************************************************************************)
(* Platform operators (services/system_admin.py and the system sessions of *)
(* services/admin_auth.py, on PostgreSQL) sign in and create each other,   *)
(* organizations and stores under idempotency keys.  The audit log is also *)
(* the memory of the keys, by a unique index on action and key.            *)
(*                                                                         *)
(* A call is a record in ops: what it has upserted and not committed, whose*)
(* row it has locked.                                                      *)
(***************************************************************************)
EXTENDS Integers

CONSTANTS
  Operators,      \* e-mail addresses of system administrators
  Root,           \* the one that a login creates when it is missing
  Organizations, Stores,
  CreateKeys,
  NoKey,          \* a call without an idempotency key
  OpThreads       \* the event loops of the replicas: a creation blocks its own

ASSUME OperatorsAssumption ==
  /\ Root \in Operators /\ NoKey \notin CreateKeys
  /\ Operators \cap (Organizations \cup Stores) = {}

VARIABLES
  roleOf,      \* system_admin_user.role
  signedIn,    \* the operators with an open session
  created,     \* the organizations and stores there are
  creations,   \* the rows of system_admin_audit_log that have a key
  ops          \* the call of each thread

systemVars == << roleOf, signedIn, created, creations, ops >>

\* Roles that the guards below tell apart; "none": no such user.
OperatorRoles == {"super_admin", "platform_operator", "technical_support"}

NoOp == [op |-> "none"]

SystemInit ==
  /\ roleOf = [o \in Operators |-> "none"]
  /\ signedIn = {}
  /\ created = {}
  /\ creations = {}
  /\ ops = [c \in OpThreads |-> NoOp]

Row(action, key, object) == [action |-> action, key |-> key, object |-> object]

\* _find_idempotency: the committed row of the key.
Replayed(action, key) == \E row \in creations : row.action = action /\ row.key = key

\* Variant: no index on action and key.
AdmitsAll(row) == TRUE

\* The index refuses a second row; the statement waits for one in flight.
IndexAdmits(row) == row.key = NoKey \/ ~Replayed(row.action, row.key)

------------------------------------------------------------------------------
\* The root operator is a super_admin when a login creates it, and keeps the
\* role it was given since.
RootSeeded == [roleOf EXCEPT ![Root] = IF @ = "none" THEN "super_admin" ELSE @]

SignIn(o) ==
  /\ roleOf' = RootSeeded
  /\ roleOf'[o] /= "none"
  /\ signedIn' = signedIn \cup {o}
  /\ UNCHANGED << created, creations, ops >>

SignOut(o) ==
  /\ o \in signedIn
  /\ signedIn' = signedIn \ {o}
  /\ UNCHANGED << roleOf, created, creations, ops >>

\* require_session: the role of a request is the one the user has when it comes.
Admitted(roles) == \E o \in signedIn : roleOf[o] \in roles

------------------------------------------------------------------------------
\* The rows that calls in flight have upserted.
RowLocked(object) == \E c \in OpThreads : ops[c].op = "create" /\ ops[c].row.object = object

\* A creation up to its upsert: a key already used replays, whatever it carries.
Create(c, action, object, roles, role) ==
  /\ ops[c] = NoOp
  /\ Admitted(roles)
  /\ ~RowLocked(object)
  /\ \E key \in CreateKeys \cup {NoKey} :
       /\ key = NoKey \/ ~Replayed(action, key)
       /\ ops' = [ops EXCEPT ![c] =
            [op |-> "create", row |-> Row(action, key, object), role |-> role]]
  /\ UNCHANGED << roleOf, signedIn, created, creations >>

CreateUser(c, o, role) == Create(c, "user.create", o, {"super_admin"}, role)

CreateOrganization(c, g) ==
  Create(c, "organization.create", g, {"super_admin", "platform_operator"}, "none")

CreateStore(c, s) ==
  /\ created \cap Organizations /= {}
  /\ Create(c, "store.create", s, {"super_admin", "platform_operator"}, "none")

\* Its audit row and the commit of what it upserted, or the index's refusal.
Audit(c) ==
  /\ ops[c].op = "create"
  /\ LET row == ops[c].row IN
       \/ /\ IndexAdmits(row)
          /\ creations' = IF row.key = NoKey THEN creations ELSE creations \cup {row}
          /\ roleOf' = [o \in Operators |-> IF o = row.object THEN ops[c].role ELSE roleOf[o]]
          /\ created' = created \cup ({row.object} \ Operators)
       \/ ~IndexAdmits(row) /\ UNCHANGED << creations, roleOf, created >>
  /\ ops' = [ops EXCEPT ![c] = NoOp]
  /\ UNCHANGED signedIn

\* The replica or its connection is lost, and with it the transaction.
LoseCall(c) ==
  /\ ops[c] /= NoOp
  /\ ops' = [ops EXCEPT ![c] = NoOp]
  /\ UNCHANGED << roleOf, signedIn, created, creations >>

SystemNext ==
  \/ \E o \in Operators : SignIn(o) \/ SignOut(o)
  \/ \E c \in OpThreads :
       \/ \E o \in Operators, role \in OperatorRoles : CreateUser(c, o, role)
       \/ \E g \in Organizations : CreateOrganization(c, g)
       \/ \E s \in Stores : CreateStore(c, s)
       \/ Audit(c) \/ LoseCall(c)

SystemSpec == SystemInit /\ [][SystemNext]_systemVars

------------------------------------------------------------------------------
Actions == {"user.create", "organization.create", "store.create"}

Objects == Operators \cup Organizations \cup Stores

\* Types of the tables and of the calls' records.
SystemTypeOK ==
  /\ roleOf \in [Operators -> OperatorRoles \cup {"none"}]
  /\ signedIn \subseteq Operators
  /\ created \subseteq Organizations \cup Stores
  /\ creations \subseteq [action : Actions, key : CreateKeys, object : Objects]
  /\ ops \in [OpThreads -> {NoOp} \cup
       [op : {"create"}, row : [action : Actions, key : CreateKeys \cup {NoKey}, object : Objects],
        role : OperatorRoles \cup {"none"}]]

\* An idempotency key creates one object, although creations look it up without
\* a lock: of two that overlap only one commits, and what it made is there.
OneCreationPerKey ==
  /\ \A a, b \in creations : a.key = b.key /\ a.action = b.action => a = b
  /\ \A a \in creations :
       a.object \in created \/ (a.object \in Operators /\ roleOf[a.object] /= "none")
=============================================================================
