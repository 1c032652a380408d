------------------------------ MODULE Accounts -----------------------------
(***************************************************************************)
(* Users, tenants and memberships in MySQL: registration, which writes the *)
(* user in one transaction and the private tenant in another, and the      *)
(* choice of the default tenant.                                           *)
(*                                                                         *)
(* One action is one SQL statement.  What a transaction wrote is its own   *)
(* (cleared, draft) until Commit; UPDATE ... WHERE user_id = ? locks the   *)
(* user's membership rows and the gaps between them until the transaction  *)
(* ends.                                                                   *)
(* A user is named by the username, which is unique and never deleted.     *)
(***************************************************************************)
EXTENDS Naturals

CONSTANTS
  Usernames,   \* names that may register
  LongNames,   \* those for which "PRIVATE_" + name is wider than the tag column
  Teams,       \* tags of tenants that administrators made
  Reqs,        \* slots for requests in flight
  None         \* no request, no name, no tag

Private(u) == <<"PRIVATE", u>>

PrivateTags == {Private(u) : u \in Usernames}

Tags == Teams \cup PrivateTags

ASSUME LongNamesAssumption == LongNames \subseteq Usernames
ASSUME TeamsAssumption == Teams \cap PrivateTags = {}
ASSUME NoneAssumption == None \notin Reqs /\ None \notin Usernames /\ None \notin Tags

VARIABLES
  users,     \* the names with a row in users
  member,    \* per user, the tags of the committed membership rows
  primary,   \* per user, the tags of those with is_primary set
  locked,    \* per user, the request whose transaction locked the rows
  cleared,   \* per request, the tags whose is_primary its transaction cleared
  draft,     \* per request, the tags whose is_primary it set after that
  pc, call,  \* per request, the statement it executes next, and its arguments
  told       \* history: the requests answered with success

vars == <<users, member, primary, locked, cleared, draft, pc, call, told>>

----------------------------------------------------------------------------
At == {"idle", "createUser", "insertTenant", "selectMembership",
       "clearPrimary", "insertMember", "markPrimary", "commit"}

Call == [op : {"none", "register", "setPrimary"},
         user : Usernames \cup {None}, tag : Tags \cup {None}]

NoCall == [op |-> "none", user |-> None, tag |-> None]

Init ==
  /\ users = {}
  /\ member = [u \in Usernames |-> {}]
  /\ primary = [u \in Usernames |-> {}]
  /\ locked = [u \in Usernames |-> None]
  /\ cleared = [r \in Reqs |-> {}]
  /\ draft = [r \in Reqs |-> {}]
  /\ pc = [r \in Reqs |-> "idle"]
  /\ call = [r \in Reqs |-> NoCall]
  /\ told = {}

Accept(r, at, c) ==
  /\ pc[r] = "idle"
  /\ pc' = [pc EXCEPT ![r] = at]
  /\ call' = [call EXCEPT ![r] = c]
  /\ UNCHANGED <<users, member, primary, locked, cleared, draft, told>>

Goto(r, at) == pc' = [pc EXCEPT ![r] = at] /\ UNCHANGED call

\* The request ends; its transaction, if it has one, is over.
Finish(r) ==
  /\ pc' = [pc EXCEPT ![r] = "idle"]
  /\ call' = [call EXCEPT ![r] = NoCall]
  /\ cleared' = [cleared EXCEPT ![r] = {}]
  /\ draft' = [draft EXCEPT ![r] = {}]
  /\ locked' = [u \in Usernames |-> IF locked[u] = r THEN None ELSE locked[u]]

\* GetPrimaryTag finds a row, so that an upload without a tenant tag has one.
HasPrimary(u) == primary[u] # {}

\* The name and the tag of the request's answer.
Answer(r) == <<call[r].op, call[r].user, call[r].tag>>

----------------------------------------------------------------------------
(* Register: the row in users, committed at once; then CreateWithMembership. *)

\* Mutant of Register: the tag is left empty.
RegisterTagless(r, u) ==
  Accept(r, "createUser", [op |-> "register", user |-> u, tag |-> None])

Register(r, u) ==
  Accept(r, "createUser", [op |-> "register", user |-> u, tag |-> Private(u)])

\* Mutant of CreateUser: the answer does not wait for the tenant.
CreateUserAnswers(r) ==
  /\ pc[r] = "createUser"
  /\ call[r].user \notin users
  /\ users' = users \cup {call[r].user}
  /\ told' = told \cup {Answer(r)}
  /\ Goto(r, "insertTenant")
  /\ UNCHANGED <<member, primary, locked, cleared, draft>>

CreateUser(r) ==
  /\ pc[r] = "createUser"
  /\ call[r].user \notin users
  /\ users' = users \cup {call[r].user}
  /\ Goto(r, "insertTenant")
  /\ UNCHANGED <<member, primary, locked, cleared, draft, told>>

CreateUserConflict(r) ==
  /\ pc[r] = "createUser"
  /\ call[r].user \in users
  /\ Finish(r)
  /\ UNCHANGED <<users, member, primary, told>>

\* The tag is new: Register comes here once per name.
InsertTenant(r) ==
  /\ pc[r] = "insertTenant"
  /\ call[r].user \notin LongNames
  /\ Goto(r, "clearPrimary")
  /\ UNCHANGED <<users, member, primary, locked, cleared, draft, told>>

\* The tag column has 64 characters, a name may have as many.
InsertTenantTooLong(r) ==
  /\ pc[r] = "insertTenant"
  /\ call[r].user \in LongNames
  /\ Finish(r)
  /\ UNCHANGED <<users, member, primary, told>>

InsertMember(r) ==
  /\ pc[r] = "insertMember"
  /\ draft' = [draft EXCEPT ![r] = @ \cup {call[r].tag}]
  /\ Goto(r, "commit")
  /\ UNCHANGED <<users, member, primary, locked, cleared, told>>

(* UpdatePrimaryTenant: SetPrimary.                                        *)

UpdatePrimaryTenant(r, u, tag) ==
  /\ u \in users
  /\ Accept(r, "selectMembership", [op |-> "setPrimary", user |-> u, tag |-> tag])

\* Mutant of SelectMembership: the row is not looked for.
SelectMembershipSkipped(r) ==
  /\ pc[r] = "selectMembership"
  /\ Goto(r, "clearPrimary")
  /\ UNCHANGED <<users, member, primary, locked, cleared, draft, told>>

SelectMembership(r) ==
  /\ pc[r] = "selectMembership"
  /\ call[r].tag \in member[call[r].user]
  /\ Goto(r, "clearPrimary")
  /\ UNCHANGED <<users, member, primary, locked, cleared, draft, told>>

NoMembership(r) ==
  /\ pc[r] = "selectMembership"
  /\ call[r].tag \notin member[call[r].user]
  /\ Finish(r)
  /\ UNCHANGED <<users, member, primary, told>>

\* The UPDATE sets the flag of the row it finds.
MarkPrimary(r) ==
  /\ pc[r] = "markPrimary"
  /\ draft' = [draft EXCEPT ![r] = @ \cup ({call[r].tag} \cap member[call[r].user])]
  /\ Goto(r, "commit")
  /\ UNCHANGED <<users, member, primary, locked, cleared, told>>

(* Statements of both transactions.                                        *)

AfterClear(r) == IF call[r].op = "register" THEN "insertMember" ELSE "markPrimary"

\* Mutant of ClearPrimary: it runs on the connection pool, outside the
\* transaction.
ClearPrimaryOutside(r) ==
  /\ pc[r] = "clearPrimary"
  /\ locked[call[r].user] = None
  /\ primary' = [primary EXCEPT ![call[r].user] = {}]
  /\ Goto(r, AfterClear(r))
  /\ UNCHANGED <<users, member, locked, cleared, draft, told>>

ClearPrimary(r) ==
  /\ pc[r] = "clearPrimary"
  /\ locked[call[r].user] = None
  /\ locked' = [locked EXCEPT ![call[r].user] = r]
  /\ cleared' = [cleared EXCEPT ![r] = member[call[r].user]]
  /\ Goto(r, AfterClear(r))
  /\ UNCHANGED <<users, member, primary, draft, told>>

\* The transaction's rows become the table's rows.
Install(r) ==
  /\ member' = [member EXCEPT ![call[r].user] =
                   IF call[r].op = "register" THEN @ \cup {call[r].tag} ELSE @]
  /\ primary' = [primary EXCEPT ![call[r].user] = (@ \ cleared[r]) \cup draft[r]]

Commit(r) ==
  /\ pc[r] = "commit"
  /\ Install(r)
  /\ told' = told \cup {Answer(r)}
  /\ Finish(r)
  /\ UNCHANGED users

----------------------------------------------------------------------------
(* Faults, and what other programs do.                                     *)

\* The commit happened, the request saw an error.
CommitUnacked(r) ==
  /\ pc[r] = "commit"
  /\ Install(r)
  /\ Finish(r)
  /\ UNCHANGED <<users, told>>

\* Mutant of Abandon: the connection goes back with its transaction open.
AbandonKeepsLock(r) ==
  /\ pc[r] # "idle"
  /\ pc' = [pc EXCEPT ![r] = "idle"]
  /\ call' = [call EXCEPT ![r] = NoCall]
  /\ cleared' = [cleared EXCEPT ![r] = {}]
  /\ draft' = [draft EXCEPT ![r] = {}]
  /\ UNCHANGED <<users, member, primary, locked, told>>

\* A statement fails, the caller's context is cancelled, or the process dies:
\* an open transaction is rolled back.
Abandon(r) ==
  /\ pc[r] # "idle"
  /\ Finish(r)
  /\ UNCHANGED <<users, member, primary, told>>

\* An administrator makes a user a member of a team.
Join(u, tag) ==
  /\ u \in users
  /\ locked[u] = None
  /\ tag \notin member[u]
  /\ member' = [member EXCEPT ![u] = @ \cup {tag}]
  /\ UNCHANGED <<users, primary, locked, cleared, draft, pc, call, told>>

----------------------------------------------------------------------------
NewRequest ==
  \E r \in Reqs, u \in Usernames :
    Register(r, u) \/ \E tag \in Tags : UpdatePrimaryTenant(r, u, tag)

Step(r) ==
  \/ CreateUser(r) \/ CreateUserConflict(r)
  \/ InsertTenant(r) \/ InsertTenantTooLong(r)
  \/ InsertMember(r)
  \/ SelectMembership(r) \/ NoMembership(r)
  \/ ClearPrimary(r)
  \/ MarkPrimary(r)
  \/ Commit(r)

Fault == \E r \in Reqs : Abandon(r) \/ CommitUnacked(r)

Administration == \E u \in Usernames, tag \in Teams : Join(u, tag)

Next == NewRequest \/ (\E r \in Reqs : Step(r)) \/ Fault \/ Administration

Spec == Init /\ [][Next]_vars

\* Fairness: a request runs in a goroutine of its own, and InnoDB grants a lock
\* in the order of the waits, so that a waiting statement is not passed over
\* for ever.
FairSpec == Spec /\ \A r \in Reqs : SF_vars(Step(r))

\* Without faults.
ReliableSpec ==
  Init /\ [][NewRequest \/ (\E r \in Reqs : Step(r)) \/ Administration]_vars

----------------------------------------------------------------------------
(* The promise these statements implement together.                        *)

\* What GetPrimaryTag finds.
Default(u) == IF HasPrimary(u) THEN CHOOSE tag \in primary[u] : TRUE ELSE None

Promise == INSTANCE DefaultTenant WITH
  Users    <- Usernames,
  chosen   <- [u \in Usernames |-> Default(u)],
  answered <- told

\* Through row locks, rollbacks, lost answers and requests that stop half way,
\* a user's default tenant is one value that changes at once, as DefaultTenant
\* says, although it is kept as a flag per membership and moved by two UPDATEs.
DefaultSpec == Promise!Spec

----------------------------------------------------------------------------
(* Properties.                                                             *)

\* Every variable keeps its shape, and a request's tag is a tenant's.
TypeOK ==
  /\ users \subseteq Usernames
  /\ member \in [Usernames -> SUBSET Tags]
  /\ primary \in [Usernames -> SUBSET Tags]
  /\ locked \in [Usernames -> Reqs \cup {None}]
  /\ cleared \in [Reqs -> SUBSET Tags]
  /\ draft \in [Reqs -> SUBSET Tags]
  /\ pc \in [Reqs -> At]
  /\ call \in [Reqs -> Call]
  /\ told \subseteq {"register", "setPrimary"} \X Usernames \X Tags

\* However registrations and changes of the default run side by side or stop
\* half way, a user never has two default tenants: which one an upload goes to
\* is not left to the order of rows.
OnePrimary ==
  \A u \in Usernames : \A s, t \in primary[u] : s = t

\* A registration that was answered with success left the private tenant and a
\* default: the user's uploads without a tenant tag are never refused.
RegisteredIsWhole ==
  \A u \in Usernames :
    <<"register", u, Private(u)>> \in told => Private(u) \in member[u] /\ HasPrimary(u)

\* A user who has a default tenant has one at every moment after, between the
\* two UPDATEs of a change too.
PrimaryKept ==
  [][\A u \in Usernames : HasPrimary(u) => HasPrimary(u)']_vars

\* A user has a default tenant, or is being registered.
UserHasTenant ==
  \A u \in users :
    HasPrimary(u) \/ \E r \in Reqs : call[r].op = "register" /\ call[r].user = u

\* Every request is answered: no row stays locked by a request that is gone.
RequestsEnd == \A r \in Reqs : (pc[r] # "idle") ~> (pc[r] = "idle")
=============================================================================
