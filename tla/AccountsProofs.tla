--------------------------- MODULE AccountsProofs --------------------------
(* Theorems of Accounts, for every set of names, tenants and requests.     *)
EXTENDS Accounts, TLAPS

\* What a request in flight remembers, and what its transaction has written,
\* fits the statement it executes next.
CallOK ==
  \A r \in Reqs :
    /\ pc[r] # "idle" => /\ call[r].op \in {"register", "setPrimary"}
                         /\ call[r].user \in Usernames
                         /\ call[r].tag \in Tags
    /\ pc[r] \in {"createUser", "insertTenant", "insertMember"} => call[r].op = "register"
    /\ pc[r] \in {"selectMembership", "markPrimary"} => call[r].op = "setPrimary"
    /\ pc[r] \in {"clearPrimary", "markPrimary", "commit"} /\ call[r].op = "setPrimary" =>
         call[r].tag \in member[call[r].user]
    /\ pc[r] # "commit" => draft[r] = {}
    /\ pc[r] = "commit" => draft[r] = {call[r].tag}

\* A default is a membership.
Members == \A u \in Usernames : primary[u] \subseteq member[u]

\* A request past ClearPrimary has its user's rows to itself, and has cleared
\* every default they hold.
Locking ==
  \A r \in Reqs :
    pc[r] \in {"insertMember", "markPrimary", "commit"} =>
      /\ locked[call[r].user] = r
      /\ primary[call[r].user] \subseteq cleared[r]

Shape == TypeOK /\ CallOK /\ Members /\ Locking

\* The promises about default tenants.
Promises == OnePrimary /\ RegisteredIsWhole

Inv == Shape /\ Promises

USE DEF At, HasPrimary

\* The initial state satisfies the inductive invariant.
LEMMA InitInv == Init => Inv
  <1> SUFFICES ASSUME Init PROVE Inv
    OBVIOUS
  <1>1. TypeOK
    BY DEF Init, TypeOK, NoCall, Call
  <1>2. CallOK
    BY DEF Init, CallOK
  <1>3. OnePrimary /\ RegisteredIsWhole
    BY DEF Init, OnePrimary, RegisteredIsWhole
  <1>4. Members /\ Locking
    BY DEF Init, Members, Locking
  <1> QED BY <1>1, <1>2, <1>3, <1>4 DEF Inv, Shape, Promises

\* The helpers every action ends in keep pc, call, draft and locked in shape.
LEMMA FinishType ==
  ASSUME TypeOK, CallOK, NEW r \in Reqs, Finish(r),
         \A u \in Usernames : member[u] \subseteq member'[u]
  PROVE  /\ pc' \in [Reqs -> At]
         /\ call' \in [Reqs -> Call]
         /\ cleared' \in [Reqs -> SUBSET Tags]
         /\ draft' \in [Reqs -> SUBSET Tags]
         /\ locked' \in [Usernames -> Reqs \cup {None}]
         /\ CallOK'
  <1>1. NoCall \in Call
    BY DEF NoCall, Call
  <1>2. pc' \in [Reqs -> At] /\ call' \in [Reqs -> Call]
    BY <1>1 DEF Finish, TypeOK
  <1>3. /\ cleared' \in [Reqs -> SUBSET Tags]
        /\ draft' \in [Reqs -> SUBSET Tags]
        /\ locked' \in [Usernames -> Reqs \cup {None}]
    BY DEF Finish, TypeOK
  <1>4. CallOK'
    BY DEF Finish, TypeOK, CallOK
  <1> QED BY <1>2, <1>3, <1>4

\* A request that ends releases its own lock and no other.  The rows it leaves
\* changed, if any, are those it had locked.
LEMMA FinishLocking ==
  ASSUME Shape, NEW r \in Reqs, pc[r] # "idle", Finish(r),
         NEW w \in Usernames, w = call[r].user,
         \A u \in Usernames \ {w} : primary'[u] = primary[u],
         primary'[w] = primary[w] \/ locked[w] = r
  PROVE  Locking'
  <1> TypeOK /\ CallOK /\ Locking
    BY DEF Shape
  <1> SUFFICES ASSUME NEW q \in Reqs, pc'[q] \in {"insertMember", "markPrimary", "commit"}
               PROVE  /\ locked'[call'[q].user] = q
                      /\ primary'[call'[q].user] \subseteq cleared'[q]
    BY DEF Locking
  <1>1. q # r /\ pc'[q] = pc[q] /\ call'[q] = call[q] /\ cleared'[q] = cleared[q]
    BY DEF Finish, TypeOK
  <1>2. PICK v \in Usernames : v = call[q].user
    BY <1>1 DEF CallOK
  <1>3. locked[v] = q /\ primary[v] \subseteq cleared[q]
    BY <1>1, <1>2 DEF Locking
  <1>4. locked'[v] = q
    BY <1>1, <1>3 DEF Finish
  <1>5. primary'[v] = primary[v]
    BY <1>1, <1>3
  <1> QED BY <1>1, <1>2, <1>3, <1>4, <1>5

\* Accepting a request keeps the shape.
LEMMA AcceptShape ==
  ASSUME Shape, NEW r \in Reqs,
         NEW at \in {"createUser", "selectMembership"},
         NEW op \in {"register", "setPrimary"}, NEW u \in Usernames, NEW tag \in Tags,
         (at = "createUser") <=> (op = "register"),
         Accept(r, at, [op |-> op, user |-> u, tag |-> tag])
  PROVE  Shape'
  <1> DEFINE c == [op |-> op, user |-> u, tag |-> tag]
  <1>1. c \in Call /\ c.op = op /\ c.user = u /\ c.tag = tag
    BY DEF Call
  <1>2. TypeOK'
    BY <1>1 DEF Accept, Shape, TypeOK
  <1>3. CallOK'
    BY <1>1 DEF Accept, Shape, TypeOK, CallOK
  <1>4. Members' /\ Locking'
    BY <1>1 DEF Accept, Shape, TypeOK, Members, Locking
  <1> QED BY <1>2, <1>3, <1>4 DEF Shape

\* A commit writes the user's only default tenant.
LEMMA InstallStep ==
  ASSUME Inv, NEW r \in Reqs, pc[r] = "commit", Install(r), Finish(r), UNCHANGED users,
         told' \in {told, told \cup {Answer(r)}}
  PROVE  /\ Inv'
         /\ \A u \in Usernames : HasPrimary(u) => HasPrimary(u)'
  <1> Shape /\ TypeOK /\ CallOK /\ Members /\ Locking /\ OnePrimary /\ RegisteredIsWhole
    BY DEF Inv, Shape, Promises
  <1>1. PICK w \in Usernames, t \in Tags : w = call[r].user /\ t = call[r].tag
    BY DEF CallOK
  <1> DEFINE rows == IF call[r].op = "register" THEN member[w] \cup {t} ELSE member[w]
  <1>2. /\ member' = [member EXCEPT ![w] = rows]
        /\ primary' = [primary EXCEPT ![w] = {t}]
        /\ rows \in SUBSET Tags /\ member[w] \subseteq rows /\ t \in rows
    <2>1. primary[w] \subseteq cleared[r] /\ draft[r] = {t}
      BY <1>1 DEF Locking, CallOK
    <2>2. (primary[w] \ cleared[r]) \cup draft[r] = {t}
      BY <2>1
    <2>3. primary' = [primary EXCEPT ![w] = {t}]
      BY <1>1, <2>2 DEF Install
    <2>4. member' = [member EXCEPT ![w] = rows]
      BY <1>1 DEF Install
    <2>5. rows \in SUBSET Tags /\ member[w] \subseteq rows /\ t \in rows
      BY <1>1 DEF CallOK, TypeOK
    <2> QED BY <2>3, <2>4, <2>5
  <1>3. \A u \in Usernames : member[u] \subseteq member'[u]
    BY <1>2 DEF TypeOK
  <1>4. Answer(r) \in {"register", "setPrimary"} \X Usernames \X Tags
    BY DEF Answer, CallOK
  <1>5. TypeOK'
    <2>1. member' \in [Usernames -> SUBSET Tags] /\ primary' \in [Usernames -> SUBSET Tags]
      BY <1>2 DEF TypeOK
    <2>2. told' \subseteq {"register", "setPrimary"} \X Usernames \X Tags
      BY <1>4 DEF TypeOK
    <2> QED BY <1>3, <2>1, <2>2, FinishType DEF TypeOK
  <1>6. OnePrimary'
    BY <1>2 DEF OnePrimary, TypeOK
  <1>7. \A u \in Usernames : HasPrimary(u) => HasPrimary(u)'
    BY <1>2 DEF TypeOK
  <1>8. RegisteredIsWhole'
    <2> SUFFICES ASSUME NEW u \in Usernames, <<"register", u, Private(u)>> \in told'
                 PROVE  Private(u) \in member'[u] /\ HasPrimary(u)'
      BY DEF RegisteredIsWhole, Private
    <2>1. CASE <<"register", u, Private(u)>> \in told
      BY <1>2, <1>7, <2>1 DEF RegisteredIsWhole, TypeOK
    <2>2. CASE <<"register", u, Private(u)>> = Answer(r)
      <3>1. u = w /\ t = Private(u) /\ call[r].op = "register"
        BY <1>1, <2>2 DEF Answer
      <3> QED BY <1>2, <3>1 DEF TypeOK
    <2> QED BY <2>1, <2>2
  <1>9. Members'
    BY <1>2 DEF Members, TypeOK
  <1>10. Locking'
    <2>1. locked[w] = r
      BY <1>1 DEF Locking
    <2>2. \A u \in Usernames \ {w} : primary'[u] = primary[u]
      BY <1>2 DEF TypeOK
    <2> QED BY <1>1, <2>1, <2>2, FinishLocking
  <1> QED BY <1>3, <1>5, <1>6, <1>7, <1>8, <1>9, <1>10, FinishType DEF Inv, Shape, Promises

\* A step other than a commit keeps the promises, whatever else it writes.
LEMMA KeepPromises ==
  ASSUME Promises, UNCHANGED <<primary, told>>,
         \A u \in Usernames : member[u] \subseteq member'[u]
  PROVE  /\ Promises'
         /\ \A u \in Usernames : HasPrimary(u) => HasPrimary(u)'
  BY DEF Promises, OnePrimary, RegisteredIsWhole, Private

\* One step keeps the inductive invariant and takes nobody's default away.
LEMMA InvStep ==
  Inv /\ [Next]_vars => Inv' /\ \A u \in Usernames : HasPrimary(u) => HasPrimary(u)'
  <1> DEFINE Kept == \A u \in Usernames : HasPrimary(u) => HasPrimary(u)'
  <1> SUFFICES ASSUME Inv, [Next]_vars PROVE Inv' /\ Kept
    OBVIOUS
  <1> Shape /\ TypeOK /\ CallOK /\ Members /\ Locking /\ Promises
    BY DEF Inv, Shape
  <1>1. ASSUME UNCHANGED <<member, primary, told>>, Shape' PROVE Inv' /\ Kept
    BY <1>1, KeepPromises DEF Inv
  <1>2. ASSUME NEW r \in Reqs, NEW u \in Usernames, Register(r, u) PROVE Inv' /\ Kept
    <2>1. Private(u) \in Tags
      BY DEF Tags, PrivateTags
    <2>2. Shape'
      BY <1>2, <2>1, AcceptShape DEF Register
    <2> QED BY <1>1, <1>2, <2>2 DEF Register, Accept
  <1>3. ASSUME NEW r \in Reqs, NEW u \in Usernames, NEW tag \in Tags,
               UpdatePrimaryTenant(r, u, tag)
        PROVE  Inv' /\ Kept
    <2>1. Shape'
      BY <1>3, AcceptShape DEF UpdatePrimaryTenant
    <2> QED BY <1>1, <1>3, <2>1 DEF UpdatePrimaryTenant, Accept
  <1>4. ASSUME NEW r \in Reqs,
               CreateUserConflict(r) \/ InsertTenantTooLong(r) \/ NoMembership(r) \/ Abandon(r)
        PROVE  Inv' /\ Kept
    <2>1. Finish(r) /\ UNCHANGED <<users, member, primary, told>>
      BY <1>4 DEF CreateUserConflict, InsertTenantTooLong, NoMembership, Abandon
    <2>2. TypeOK' /\ CallOK' /\ Members'
      BY <2>1, FinishType DEF TypeOK, Members
    <2>3. pc[r] # "idle"
      BY <1>4 DEF CreateUserConflict, InsertTenantTooLong, NoMembership, Abandon
    <2>4. PICK w \in Usernames : w = call[r].user
      BY <2>3 DEF CallOK
    <2>5. Locking'
      BY <2>1, <2>3, <2>4, FinishLocking
    <2> QED BY <1>1, <2>1, <2>2, <2>5 DEF Shape
  <1>5. ASSUME NEW r \in Reqs, CreateUser(r) PROVE Inv' /\ Kept
    <2>1. TypeOK'
      BY <1>5 DEF CreateUser, Goto, TypeOK, CallOK
    <2>2. CallOK'
      BY <1>5 DEF CreateUser, Goto, TypeOK, CallOK
    <2>3. Members' /\ Locking'
      BY <1>5 DEF CreateUser, Goto, TypeOK, Members, Locking
    <2> QED BY <1>1, <1>5, <2>1, <2>2, <2>3 DEF CreateUser, Shape
  <1>6. ASSUME NEW r \in Reqs, InsertTenant(r) \/ SelectMembership(r) PROVE Inv' /\ Kept
    <2>1. TypeOK'
      BY <1>6 DEF InsertTenant, SelectMembership, Goto, TypeOK
    <2>2. CallOK'
      BY <1>6 DEF InsertTenant, SelectMembership, Goto, TypeOK, CallOK
    <2>3. Members' /\ Locking'
      BY <1>6 DEF InsertTenant, SelectMembership, Goto, TypeOK, Members, Locking
    <2> QED BY <1>1, <1>6, <2>1, <2>2, <2>3 DEF InsertTenant, SelectMembership, Shape
  <1>7. ASSUME NEW r \in Reqs, ClearPrimary(r) PROVE Inv' /\ Kept
    <2>1. /\ AfterClear(r) \in {"insertMember", "markPrimary"}
          /\ AfterClear(r) = "insertMember" <=> call[r].op = "register"
      BY DEF AfterClear
    <2>2. TypeOK'
      BY <1>7, <2>1 DEF ClearPrimary, Goto, TypeOK, CallOK
    <2>3. CallOK'
      BY <1>7, <2>1 DEF ClearPrimary, Goto, TypeOK, CallOK
    <2>4. Members'
      BY <1>7 DEF ClearPrimary, Members
    <2>5. Locking'
      <3> SUFFICES ASSUME NEW q \in Reqs, pc'[q] \in {"insertMember", "markPrimary", "commit"}
                   PROVE  /\ locked'[call'[q].user] = q
                          /\ primary'[call'[q].user] \subseteq cleared'[q]
        BY DEF Locking
      <3>1. PICK w \in Usernames : w = call[r].user
        BY <1>7 DEF ClearPrimary, CallOK
      <3>2. /\ call' = call /\ primary' = primary /\ locked[w] = None
            /\ locked' = [locked EXCEPT ![w] = r]
            /\ cleared' = [cleared EXCEPT ![r] = member[w]]
        BY <1>7, <3>1 DEF ClearPrimary, Goto
      <3>3. CASE q = r
        BY <3>1, <3>2, <3>3 DEF Members, TypeOK
      <3>4. CASE q # r
        <4>1. pc'[q] = pc[q] /\ cleared'[q] = cleared[q]
          BY <1>7, <3>2, <3>4 DEF ClearPrimary, Goto, TypeOK
        <4>2. PICK v \in Usernames : v = call[q].user
          BY <4>1 DEF CallOK
        <4>3. locked[v] = q /\ primary[v] \subseteq cleared[q]
          BY <4>1, <4>2 DEF Locking
        <4>4. v # w
          BY <3>2, <4>3, NoneAssumption
        <4> QED BY <3>2, <4>1, <4>2, <4>3, <4>4 DEF TypeOK
      <3> QED BY <3>3, <3>4
    <2> QED BY <1>1, <1>7, <2>2, <2>3, <2>4, <2>5 DEF ClearPrimary, Shape
  <1>8. ASSUME NEW r \in Reqs, InsertMember(r) \/ MarkPrimary(r) PROVE Inv' /\ Kept
    <2>1. /\ draft[r] = {} /\ call[r].tag \in Tags
          /\ pc[r] = "markPrimary" => call[r].tag \in member[call[r].user]
      BY <1>8 DEF InsertMember, MarkPrimary, CallOK
    <2>2. draft' = [draft EXCEPT ![r] = {call[r].tag}]
      BY <1>8, <2>1 DEF InsertMember, MarkPrimary, TypeOK
    <2>3. TypeOK'
      BY <1>8, <2>1, <2>2 DEF InsertMember, MarkPrimary, Goto, TypeOK
    <2>4. CallOK'
      BY <1>8, <2>2 DEF InsertMember, MarkPrimary, Goto, TypeOK, CallOK
    <2>5. Members' /\ Locking'
      BY <1>8 DEF InsertMember, MarkPrimary, Goto, TypeOK, Members, Locking
    <2> QED BY <1>1, <1>8, <2>3, <2>4, <2>5 DEF InsertMember, MarkPrimary, Shape
  <1>9. ASSUME NEW r \in Reqs, Commit(r) \/ CommitUnacked(r) PROVE Inv' /\ Kept
    BY <1>9, InstallStep DEF Commit, CommitUnacked
  <1>10. ASSUME NEW u \in Usernames, NEW tag \in Teams, Join(u, tag) PROVE Inv' /\ Kept
    <2>1. member' = [member EXCEPT ![u] = member[u] \cup {tag}] /\ tag \in Tags
      BY <1>10 DEF Join, Tags
    <2>2. TypeOK' /\ CallOK'
      BY <1>10, <2>1 DEF Join, TypeOK, CallOK
    <2>3. \A v \in Usernames : member[v] \subseteq member'[v]
      BY <2>1 DEF TypeOK
    <2>4. Members' /\ Locking'
      BY <1>10, <2>3 DEF Join, Members, Locking
    <2> QED BY <1>10, <2>2, <2>3, <2>4, KeepPromises DEF Join, Inv, Shape
  <1>11. CASE UNCHANGED vars
    <2>1. TypeOK' /\ CallOK' /\ Members' /\ Locking'
      BY <1>11 DEF vars, TypeOK, CallOK, Members, Locking
    <2> QED BY <1>1, <1>11, <2>1 DEF vars, Shape
  <1>12. ASSUME NEW r \in Reqs, Step(r) PROVE Inv' /\ Kept
    BY <1>4, <1>5, <1>6, <1>7, <1>8, <1>9, <1>12 DEF Step
  <1>13. CASE NewRequest
    BY <1>2, <1>3, <1>13 DEF NewRequest
  <1>14. CASE Fault \/ Administration
    BY <1>4, <1>9, <1>10, <1>14 DEF Fault, Administration
  <1> QED BY <1>11, <1>12, <1>13, <1>14 DEF Next

\* The inductive invariant.
THEOREM Invariance == Spec => []Inv
  BY InitInv, InvStep, PTL DEF Spec

\* Every variable keeps its shape.
THEOREM TypeCorrect == Spec => []TypeOK
  <1>1. Inv => TypeOK
    BY DEF Inv, Shape
  <1> QED BY <1>1, Invariance, PTL

\* No user ever has two default tenants.
THEOREM OneDefaultTenant == Spec => []OnePrimary
  <1>1. Inv => OnePrimary
    BY DEF Inv, Promises
  <1> QED BY <1>1, Invariance, PTL

\* A registration that was answered with success is whole, for ever.
THEOREM RegistrationIsWhole == Spec => []RegisteredIsWhole
  <1>1. Inv => RegisteredIsWhole
    BY DEF Inv, Promises
  <1> QED BY <1>1, Invariance, PTL

\* Nobody's default tenant goes away, not even between two statements.
THEOREM DefaultIsKept == Spec => PrimaryKept
  <1>1. Inv /\ [Next]_vars => [\A u \in Usernames : HasPrimary(u) => HasPrimary(u)']_vars
    BY InvStep
  <1> QED BY <1>1, Invariance, PTL DEF Spec, PrimaryKept

----------------------------------------------------------------------------
(* Accounts implements DefaultTenant.                                      *)

Chosen == [u \in Usernames |-> Default(u)]

\* The default of a user whose flags did not change did not change.
LEMMA DefaultStays ==
  ASSUME UNCHANGED primary
  PROVE  Chosen' = Chosen
  BY DEF Chosen, Default

\* A commit moves the default of its user to the tenant of the request.
LEMMA CommitSettles ==
  ASSUME Inv, NEW r \in Reqs, pc[r] = "commit", Install(r),
         told' \in {told, told \cup {Answer(r)}}
  PROVE  Promise!Next
  <1> Shape /\ TypeOK /\ CallOK /\ Members /\ Locking
    BY DEF Inv, Shape
  <1>1. PICK w \in Usernames, t \in Tags : w = call[r].user /\ t = call[r].tag
    BY DEF CallOK
  <1>2. primary' = [primary EXCEPT ![w] = {t}]
    <2>1. primary[w] \subseteq cleared[r] /\ draft[r] = {t}
      BY <1>1 DEF Locking, CallOK
    <2>2. (primary[w] \ cleared[r]) \cup draft[r] = {t}
      BY <2>1
    <2> QED BY <1>1, <2>2 DEF Install
  <1>3. Chosen' = [Chosen EXCEPT ![w] = t]
    <2>1. ASSUME NEW u \in Usernames PROVE Default(u)' = IF u = w THEN t ELSE Default(u)
      <3>1. CASE u = w
        <4>1. primary'[u] = {t}
          BY <1>2, <3>1 DEF TypeOK
        <4>2. (CHOOSE tag \in {t} : TRUE) = t
          OBVIOUS
        <4> QED BY <3>1, <4>1, <4>2 DEF Default
      <3>2. CASE u # w
        <4>1. primary'[u] = primary[u]
          BY <1>2, <3>2 DEF TypeOK
        <4> QED BY <3>2, <4>1 DEF Default
      <3> QED BY <3>1, <3>2
    <2>2. Chosen' = [u \in Usernames |-> IF u = w THEN t ELSE Default(u)]
      BY <2>1 DEF Chosen
    <2> QED BY <2>2 DEF Chosen
  <1>4. CASE call[r].op = "register"
    <2>1. member' = [member EXCEPT ![w] = member[w] \cup {t}]
      BY <1>1, <1>4 DEF Install
    <2>2. told' \in {told, told \cup {<<"register", w, t>>}}
      BY <1>1, <1>4 DEF Answer
    <2>3. Promise!Open(w, t)
      BY <1>3, <2>1, <2>2 DEF Promise!Open, Promise!Settle, Chosen
    <2> QED BY <2>3 DEF Promise!Next
  <1>5. CASE call[r].op = "setPrimary"
    <2>1. member' = member
      BY <1>1, <1>5 DEF Install, TypeOK
    <2>2. told' \in {told, told \cup {<<"setPrimary", w, t>>}} /\ t \in member[w]
      BY <1>1, <1>5 DEF Answer, CallOK
    <2>3. Promise!Choose(w, t)
      BY <1>3, <2>1, <2>2 DEF Promise!Choose, Promise!Settle, Chosen
    <2> QED BY <2>3 DEF Promise!Next
  <1> QED BY <1>4, <1>5 DEF CallOK

\* Every statement but a commit leaves the default alone.
LEMMA PromiseStep == Inv /\ [Next]_vars => [Promise!Next]_(Promise!vars)
  <1> SUFFICES ASSUME Inv, [Next]_vars PROVE Promise!Next \/ UNCHANGED Promise!vars
    OBVIOUS
  <1>1. ASSUME UNCHANGED <<member, primary, told>> PROVE UNCHANGED Promise!vars
    BY <1>1, DefaultStays DEF Promise!vars, Chosen
  <1>2. ASSUME NEW r \in Reqs, Commit(r) \/ CommitUnacked(r) PROVE Promise!Next
    BY <1>2, CommitSettles DEF Commit, CommitUnacked
  <1>3. ASSUME NEW u \in Usernames, NEW tag \in Teams, Join(u, tag) PROVE Promise!Next
    <2>1. Promise!Join(u, tag)
      BY <1>3, DefaultStays DEF Join, Promise!Join, Chosen
    <2> QED BY <2>1 DEF Promise!Next, Tags
  <1>4. ASSUME NEW r \in Reqs, Step(r) PROVE Promise!Next \/ UNCHANGED Promise!vars
    BY <1>1, <1>2, <1>4 DEF Step, CreateUser, CreateUserConflict, InsertTenant,
       InsertTenantTooLong, InsertMember, SelectMembership, NoMembership, ClearPrimary, MarkPrimary
  <1>5. CASE NewRequest
    BY <1>1, <1>5 DEF NewRequest, Register, UpdatePrimaryTenant, Accept
  <1>6. CASE Fault
    BY <1>1, <1>2, <1>6 DEF Fault, Abandon
  <1>7. CASE Administration
    BY <1>3, <1>7 DEF Administration
  <1>8. CASE UNCHANGED vars
    BY <1>1, <1>8 DEF vars
  <1> QED BY <1>4, <1>5, <1>6, <1>7, <1>8 DEF Next

\* The statements of registrations and changes of the default implement
\* DefaultTenant: one default, always a tenant of the user's, changed at once.
THEOREM ImplementsDefault == Spec => DefaultSpec
  <1>1. Init => Promise!Init
    BY DEF Init, Promise!Init, Default
  <1> QED BY <1>1, Invariance, PromiseStep, PTL DEF Spec, DefaultSpec, Promise!Spec

----------------------------------------------------------------------------
(* What a request waits for, and for how long.                             *)

InTransaction == {"insertMember", "markPrimary", "commit"}

\* A lock is held in the middle of a transaction on that user's rows.
Locks ==
  \A u \in Usernames :
    locked[u] # None => /\ pc[locked[u]] \in InTransaction
                        /\ call[locked[u]].user = u

\* q wants the rows that r has locked.
Waits(q, r) == pc[q] = "clearPrimary" /\ locked[call[q].user] = r

\* Nobody waits for a request that waits itself, and nobody has the rows of two
\* users locked: a waiting statement waits for the end of one transaction.
WaitsAreShort ==
  /\ \A q, r, s \in Reqs : ~(Waits(q, r) /\ Waits(r, s))
  /\ \A u, v \in Usernames : locked[u] # None /\ locked[u] = locked[v] => u = v

\* A request takes the lock of its user's rows on its way into the
\* transaction, and gives it back when it ends.
LEMMA LocksStep == TypeOK /\ CallOK /\ Locks /\ [Next]_vars => Locks'
  <1> SUFFICES ASSUME TypeOK, CallOK, Locks, [Next]_vars,
                      NEW u \in Usernames, locked'[u] # None
               PROVE  pc'[locked'[u]] \in InTransaction /\ call'[locked'[u]].user = u
    BY DEF Locks
  <1> DEFINE Kept == pc'[locked'[u]] \in InTransaction /\ call'[locked'[u]].user = u
  <1>1. ASSUME locked'[u] = locked[u],
               /\ pc'[locked[u]] = pc[locked[u]] \/ pc'[locked[u]] \in InTransaction
               /\ call'[locked[u]] = call[locked[u]]
        PROVE  Kept
    BY <1>1 DEF Locks
  <1>2. locked[u] # None => locked[u] \in Reqs /\ pc[locked[u]] \in InTransaction
    BY DEF TypeOK, Locks
  <1>3. ASSUME NEW r \in Reqs, Finish(r) PROVE Kept
    <2>1. locked'[u] = locked[u] /\ locked[u] # r /\ locked[u] \in Reqs
      BY <1>2, <1>3 DEF Finish
    <2>2. pc'[locked[u]] = pc[locked[u]] /\ call'[locked[u]] = call[locked[u]]
      BY <1>3, <2>1 DEF Finish, TypeOK
    <2> QED BY <1>1, <2>1, <2>2
  <1>4. ASSUME NEW r \in Reqs, NEW at \in At, Goto(r, at), UNCHANGED locked,
               pc[r] \in InTransaction => at \in InTransaction
        PROVE  Kept
    <2>1. locked[u] \in Reqs /\ pc[locked[u]] \in InTransaction
      BY <1>2, <1>4
    <2>2. pc'[locked[u]] = pc[locked[u]] \/ pc'[locked[u]] \in InTransaction
      BY <1>4, <2>1 DEF Goto, TypeOK
    <2> QED BY <1>1, <1>4, <2>1, <2>2 DEF Goto
  <1>5. ASSUME NEW r \in Reqs, ClearPrimary(r) PROVE Kept
    <2>1. AfterClear(r) \in InTransaction
      BY DEF AfterClear, InTransaction
    <2>2. PICK w \in Usernames : w = call[r].user
      BY <1>5 DEF ClearPrimary, CallOK
    <2>3. /\ locked' = [locked EXCEPT ![w] = r] /\ call' = call
          /\ pc' = [pc EXCEPT ![r] = AfterClear(r)]
      BY <1>5, <2>2 DEF ClearPrimary, Goto
    <2>4. CASE u = w
      BY <2>1, <2>2, <2>3, <2>4 DEF TypeOK
    <2>5. CASE u # w
      <3>1. locked'[u] = locked[u] /\ locked[u] \in Reqs
        BY <1>2, <2>3, <2>5 DEF TypeOK
      <3> QED BY <1>1, <2>1, <2>3, <3>1 DEF TypeOK
    <2> QED BY <2>4, <2>5
  <1>6. ASSUME NEW r \in Reqs, Step(r) PROVE Kept
    <2>1. CASE \/ CreateUserConflict(r) \/ InsertTenantTooLong(r)
               \/ NoMembership(r) \/ Commit(r)
      BY <1>3, <2>1 DEF CreateUserConflict, InsertTenantTooLong, NoMembership, Commit
    <2>2. CASE \/ CreateUser(r) \/ InsertTenant(r) \/ SelectMembership(r)
               \/ InsertMember(r) \/ MarkPrimary(r)
      BY <1>4, <2>2
      DEF InTransaction, CreateUser, InsertTenant, SelectMembership, InsertMember, MarkPrimary
    <2> QED BY <1>5, <1>6, <2>1, <2>2 DEF Step
  <1>7. CASE NewRequest
    <2>1. PICK r \in Reqs : pc[r] = "idle" /\ UNCHANGED locked
                            /\ (\E at : pc' = [pc EXCEPT ![r] = at])
                            /\ (\E c : call' = [call EXCEPT ![r] = c])
      BY <1>7 DEF NewRequest, Register, UpdatePrimaryTenant, Accept
    <2>2. locked[u] \in Reqs /\ locked[u] # r
      BY <1>2, <2>1 DEF InTransaction
    <2> QED BY <1>1, <2>1, <2>2 DEF TypeOK
  <1>8. CASE Fault
    BY <1>3, <1>8 DEF Fault, Abandon, CommitUnacked
  <1>9. CASE Administration \/ UNCHANGED vars
    BY <1>1, <1>9 DEF Administration, Join, vars
  <1> QED BY <1>6, <1>7, <1>8, <1>9 DEF Next

\* A statement that waits for a row lock waits for a request that has all the
\* locks it will ever need: registrations and changes of the default cannot
\* wait for each other in a circle.
THEOREM NoCircularWait == Spec => []WaitsAreShort
  <1>1. Init => Locks
    BY DEF Init, Locks
  <1>2. Inv => TypeOK /\ CallOK
    BY DEF Inv, Shape
  <1>3. CallOK /\ Locks => WaitsAreShort
    <2> SUFFICES ASSUME CallOK, Locks PROVE WaitsAreShort
      OBVIOUS
    <2>1. ASSUME NEW q \in Reqs, NEW r \in Reqs, NEW s \in Reqs, Waits(q, r), Waits(r, s)
          PROVE  FALSE
      <3>1. call[q].user \in Usernames /\ locked[call[q].user] = r /\ pc[r] = "clearPrimary"
        BY <2>1 DEF Waits, CallOK
      <3>2. pc[r] \in InTransaction
        BY <3>1, NoneAssumption DEF Locks
      <3> QED BY <3>1, <3>2 DEF InTransaction
    <2> QED BY <2>1 DEF Locks, WaitsAreShort
  <1> QED BY <1>1, <1>2, <1>3, Invariance, LocksStep, PTL DEF Spec

\* The statements a request has left at most, a lost answer not counted.
Left(r) ==
  CASE pc[r] = "createUser"       -> 5
    [] pc[r] = "insertTenant"     -> 4
    [] pc[r] = "selectMembership" -> 4
    [] pc[r] = "clearPrimary"     -> 3
    [] pc[r] = "insertMember"     -> 2
    [] pc[r] = "markPrimary"      -> 2
    [] pc[r] = "commit"           -> 1
    [] pc[r] = "idle"             -> 0

\* Every statement brings its request nearer to its end, and nothing anybody
\* does takes a request further away from it.
StatementsRunOut ==
  [][\A r \in Reqs : /\ Step(r) => Left(r)' < Left(r)
                     /\ pc[r] # "idle" => Left(r)' <= Left(r)]_vars

\* Statements of a request do not come back to one that was executed: there is
\* no loop in a registration or in a change of the default, and a request
\* executes at most five statements whatever the others do.
THEOREM StatementsAreFew == Spec => StatementsRunOut
  <1> DEFINE Nearer == \A r \in Reqs : /\ Step(r) => Left(r)' < Left(r)
                                       /\ pc[r] # "idle" => Left(r)' <= Left(r)
  <1>1. Inv => TypeOK
    BY DEF Inv, Shape
  <1>2. TypeOK /\ TypeOK' /\ [Next]_vars => [Nearer]_vars
    <2> SUFFICES ASSUME TypeOK, TypeOK', [Next]_vars, NEW q \in Reqs
                 PROVE  /\ Step(q) => Left(q)' < Left(q)
                        /\ pc[q] # "idle" => Left(q)' <= Left(q)
      OBVIOUS
    <2>1. pc[q] \in At
      BY DEF TypeOK
    <2>2. Left(q) \in 0..5
      BY <2>1 DEF Left
    <2>3. Step(q) => Left(q)' < Left(q)
      <3> SUFFICES ASSUME Step(q) PROVE Left(q)' < Left(q)
        OBVIOUS
      <3>1. CASE CreateUserConflict(q) \/ InsertTenantTooLong(q) \/ NoMembership(q) \/ Commit(q)
        <4>1. pc[q] # "idle" /\ pc'[q] = "idle"
          BY <3>1 DEF CreateUserConflict, InsertTenantTooLong, NoMembership, Commit, Finish, TypeOK
        <4> QED BY <2>1, <4>1 DEF Left
      <3>2. CASE CreateUser(q) \/ InsertTenant(q) \/ InsertMember(q) \/ SelectMembership(q)
                 \/ ClearPrimary(q) \/ MarkPrimary(q)
        <4>1. \/ pc[q] = "createUser" /\ pc'[q] = "insertTenant"
              \/ pc[q] \in {"insertTenant", "selectMembership"} /\ pc'[q] = "clearPrimary"
              \/ pc[q] \in {"insertMember", "markPrimary"} /\ pc'[q] = "commit"
              \/ pc[q] = "clearPrimary" /\ pc'[q] \in {"insertMember", "markPrimary"}
          BY <3>2 DEF CreateUser, InsertTenant, InsertMember, SelectMembership, ClearPrimary,
                      MarkPrimary, Goto, AfterClear, TypeOK
        <4> QED BY <4>1 DEF Left
      <3> QED BY <3>1, <3>2 DEF Step
    <2>4. pc'[q] = pc[q] => Left(q)' = Left(q)
      BY DEF Left
    <2>5. pc'[q] = "idle" => Left(q)' = 0
      BY DEF Left
    <2>6. pc[q] = "idle" \/ pc'[q] = "idle" \/ pc'[q] = pc[q] \/ Step(q)
      <3>1. ASSUME NEW r \in Reqs, Step(r), r # q PROVE pc'[q] = pc[q]
        BY <3>1 DEF Step, CreateUser, CreateUserConflict, InsertTenant, InsertTenantTooLong,
             InsertMember, SelectMembership, NoMembership, ClearPrimary, MarkPrimary, Commit,
             Goto, Finish, TypeOK
      <3>2. CASE NewRequest
        BY <3>2 DEF NewRequest, Register, UpdatePrimaryTenant, Accept, TypeOK
      <3>3. CASE Fault
        BY <3>3 DEF Fault, Abandon, CommitUnacked, Finish, TypeOK
      <3>4. CASE Administration \/ UNCHANGED vars
        BY <3>4 DEF Administration, Join, vars
      <3> QED BY <3>1, <3>2, <3>3, <3>4 DEF Next
    <2>7. 0 <= Left(q) /\ (Left(q)' < Left(q) => Left(q)' <= Left(q)) /\ Left(q) <= Left(q)
      <3>1. pc'[q] \in At => Left(q)' \in 0..5
        BY DEF Left
      <3>2. pc'[q] \in At
        BY DEF TypeOK
      <3> QED BY <2>2, <3>1, <3>2
    <2> QED BY <2>3, <2>4, <2>5, <2>6, <2>7
  <1> QED BY <1>1, <1>2, Invariance, PTL DEF Spec, StatementsRunOut

----------------------------------------------------------------------------
(* A user's tenant, where the finding ends.                                *)

\* A registration that created its user, and did not end yet.
Registering(u) ==
  \E r \in Reqs : /\ call[r].op = "register" /\ call[r].user = u
                  /\ pc[r] \in {"insertTenant", "clearPrimary", "insertMember", "commit"}

TenantComes == \A u \in users : HasPrimary(u) \/ Registering(u)

\* A user that was created has the default tenant, or the request that
\* created it goes on.
LEMMA TenantStep ==
  LongNames = {} =>
    (Inv /\ TenantComes /\ [NewRequest \/ (\E r \in Reqs : Step(r)) \/ Administration]_vars
      => TenantComes')
  <1> SUFFICES ASSUME LongNames = {}, Inv, TenantComes,
                      [NewRequest \/ (\E r \in Reqs : Step(r)) \/ Administration]_vars,
                      NEW u \in users'
               PROVE  HasPrimary(u)' \/ Registering(u)'
    BY DEF TenantComes
  <1> TypeOK /\ CallOK
    BY DEF Inv, Shape
  <1> DEFINE going == {"insertTenant", "clearPrimary", "insertMember", "commit"}
  <1>1. [Next]_vars
    BY DEF Next
  <1>2. u \in Usernames
    BY <1>1, InvStep DEF Inv, Shape, TypeOK
  <1>3. CASE HasPrimary(u)
    BY <1>1, <1>2, <1>3, InvStep
  <1>4. ASSUME NEW q \in Reqs, call[q].op = "register", call[q].user = u, pc[q] \in going,
               call'[q] = call[q], pc'[q] \in going
        PROVE  Registering(u)'
    BY <1>4 DEF Registering
  <1>5. CASE Registering(u)
    <2>1. PICK q \in Reqs : call[q].op = "register" /\ call[q].user = u /\ pc[q] \in going
      BY <1>5 DEF Registering
    <2>2. CASE call'[q] = call[q] /\ pc'[q] = pc[q]
      BY <1>4, <2>1, <2>2
    <2>3. CASE NewRequest
      <3>1. call'[q] = call[q] /\ pc'[q] = pc[q]
        BY <2>1, <2>3 DEF NewRequest, Register, UpdatePrimaryTenant, Accept, TypeOK
      <3> QED BY <2>2, <3>1
    <2>4. ASSUME NEW r \in Reqs, Step(r), r # q
          PROVE  HasPrimary(u)' \/ Registering(u)'
      <3>1. call'[q] = call[q] /\ pc'[q] = pc[q]
        BY <2>4 DEF Step, CreateUser, CreateUserConflict, InsertTenant, InsertTenantTooLong,
             InsertMember, SelectMembership, NoMembership, ClearPrimary, MarkPrimary, Commit,
             Goto, Finish, TypeOK
      <3> QED BY <2>2, <3>1
    <2>5. CASE Step(q)
      <3>1. CASE InsertTenant(q) \/ ClearPrimary(q) \/ InsertMember(q)
        BY <1>4, <2>1, <3>1 DEF InsertTenant, ClearPrimary, InsertMember, Goto, AfterClear, TypeOK
      <3>2. CASE Commit(q)
        <4>1. draft[q] # {}
          BY <2>1, <3>2 DEF Commit, CallOK
        <4> QED BY <1>2, <2>1, <3>2, <4>1 DEF Commit, Install, TypeOK
      <3>3. ~ (\/ CreateUser(q) \/ CreateUserConflict(q) \/ InsertTenantTooLong(q)
               \/ SelectMembership(q) \/ NoMembership(q) \/ MarkPrimary(q))
        BY <2>1 DEF CreateUser, CreateUserConflict, InsertTenantTooLong, SelectMembership,
                    NoMembership, MarkPrimary
      <3> QED BY <2>5, <3>1, <3>2, <3>3 DEF Step
    <2>6. CASE Administration \/ UNCHANGED vars
      BY <2>2, <2>6 DEF Administration, Join, vars
    <2> QED BY <2>3, <2>4, <2>5, <2>6
  <1>6. CASE u \notin users
    <2>1. PICK r \in Reqs : CreateUser(r) /\ u = call[r].user
      <3>1. ~NewRequest /\ ~Administration /\ ~UNCHANGED vars
        BY <1>6 DEF NewRequest, Register, UpdatePrimaryTenant, Accept, Administration, Join, vars
      <3>2. PICK r \in Reqs : Step(r)
        BY <3>1
      <3>3. ~ (\/ CreateUserConflict(r) \/ InsertTenant(r) \/ InsertTenantTooLong(r)
               \/ InsertMember(r) \/ SelectMembership(r) \/ NoMembership(r) \/ ClearPrimary(r)
               \/ MarkPrimary(r) \/ Commit(r))
        BY <1>6 DEF CreateUserConflict, InsertTenant, InsertTenantTooLong, InsertMember,
             SelectMembership, NoMembership, ClearPrimary, MarkPrimary, Commit
      <3>4. CreateUser(r)
        BY <3>2, <3>3 DEF Step
      <3> QED BY <1>6, <3>4 DEF CreateUser
    <2>2. call[r].op = "register" /\ pc'[r] = "insertTenant" /\ call'[r] = call[r]
      BY <2>1 DEF CreateUser, CallOK, Goto, TypeOK
    <2> QED BY <2>1, <2>2 DEF Registering
  <1> QED BY <1>3, <1>5, <1>6 DEF TenantComes

\* The finding of the long names is the only one of its kind: when no call
\* fails and every name fits its tag, no user is left without a tenant.
THEOREM EveryUserHasTenant == LongNames = {} => (ReliableSpec => []UserHasTenant)
  <1> SUFFICES ASSUME LongNames = {} PROVE ReliableSpec => []UserHasTenant
    OBVIOUS
  <1>1. Init => TenantComes
    BY DEF Init, TenantComes
  <1>2. Inv /\ TenantComes
        /\ [NewRequest \/ (\E r \in Reqs : Step(r)) \/ Administration]_vars => TenantComes'
    BY TenantStep
  <1>3. TenantComes => UserHasTenant
    BY DEF TenantComes, Registering, UserHasTenant
  <1>4. [NewRequest \/ (\E r \in Reqs : Step(r)) \/ Administration]_vars => [Next]_vars
    BY DEF Next
  <1>5. ReliableSpec => []Inv
    BY <1>4, Invariance, PTL DEF ReliableSpec, Spec
  <1> QED BY <1>1, <1>2, <1>3, <1>5, PTL DEF ReliableSpec
=============================================================================
