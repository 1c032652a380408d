--------------------------- MODULE SessionsProofs --------------------------
(* Theorems of Sessions, for every set of sessions and requests and every  *)
(* pair of lifetimes.                                                      *)
EXTENDS Sessions, TLAPS

\* A request is at a call of its own operation.  A login works at a session of
\* its own that no client knows; a refresh that came too late never gets past
\* the look for the key.
CallOK ==
  \A r \in Reqs :
    /\ pc[r] = "save" <=> call[r].op = "login"
    /\ pc[r] \in {"exists", "sign"} <=> call[r].op = "refresh"
    /\ pc[r] = "revoke" <=> call[r].op = "logout"
    /\ call[r].op # "none" => call[r].sess \in Sessions
    /\ call[r].op = "login" =>
         /\ call[r].sess \in used \ given
         /\ \A q \in Reqs \ {r} : call[q].op = "login" => call[q].sess # call[r].sess
    /\ call[r].op \in {"refresh", "logout"} => call[r].sess \in given
    /\ call[r].op = "refresh" /\ call[r].late => pc[r] = "exists" /\ key[call[r].sess] = 0

\* Only the client of an answered login has tokens, and can log out.
OnlyGiven ==
  /\ given \subseteq used
  /\ loggedOut \subseteq given
  /\ \A j \in Sessions \ given : refresh[j] = 0 /\ access[j] = {}

\* quiet runs only when no refresh is left that may still sign, and every
\* access token has at most the rest of a lifetime.
Waning ==
  \A j \in Sessions :
    /\ j \notin loggedOut \/ EarlyRefresh(j) => quiet[j] = 0
    /\ \A a \in access[j] : a + quiet[j] <= AccessTTL

Shape == TypeOK /\ CallOK /\ OnlyGiven

Inv == Shape /\ LogoutFinal /\ HonouredUntilExpiry /\ Waning

USE AccessTTLAssumption, RefreshTTLAssumption DEF At

\* The initial state satisfies the inductive invariant.
LEMMA InitInv == Init => Inv
  <1> SUFFICES ASSUME Init PROVE Inv
    OBVIOUS
  <1>1. TypeOK
    BY DEF Init, TypeOK, NoCall, Call
  <1>2. CallOK /\ OnlyGiven
    BY DEF Init, CallOK, OnlyGiven, NoCall
  <1>3. LogoutFinal /\ HonouredUntilExpiry
    BY DEF Init, LogoutFinal, HonouredUntilExpiry, RefreshParses
  <1>4. Waning
    BY DEF Init, Waning, EarlyRefresh, NoCall
  <1> QED BY <1>1, <1>2, <1>3, <1>4 DEF Inv, Shape

\* A request that ends leaves the other requests as they are.
LEMMA FinishCalls ==
  ASSUME Shape, NEW r \in Reqs, Finish(r)
  PROVE  /\ pc' \in [Reqs -> At] /\ call' \in [Reqs -> Call]
         /\ pc'[r] = "idle" /\ call'[r].op = "none"
         /\ \A q \in Reqs \ {r} : pc'[q] = pc[q] /\ call'[q] = call[q]
  <1>1. NoCall \in Call /\ NoCall.op = "none"
    BY DEF NoCall, Call
  <1> QED BY <1>1 DEF Finish, Shape, TypeOK

\* A request that ends without a new token or a new answer keeps the
\* invariant, whatever keys are gone with it.
LEMMA EndInv ==
  ASSUME Inv, NEW r \in Reqs, Finish(r), UNCHANGED <<refresh, access, used, given, quiet>>,
         NEW j \in Sessions,
         \/ key' = key /\ gone' = gone
         \/ key' = [key EXCEPT ![j] = 0] /\ gone' = gone \cup {j}
         \/ key' = [key EXCEPT ![j] = RefreshTTL] /\ gone' = gone /\ j \notin given,
         \/ loggedOut' = loggedOut
         \/ loggedOut' = loggedOut \cup {j} /\ j \in given /\ key'[j] = 0
            /\ quiet[j] = 0
  PROVE  Inv'
  <1> Shape /\ TypeOK /\ CallOK /\ OnlyGiven /\ LogoutFinal /\ HonouredUntilExpiry /\ Waning
    BY DEF Inv, Shape
  <1>1. /\ pc' \in [Reqs -> At] /\ call' \in [Reqs -> Call]
        /\ pc'[r] = "idle" /\ call'[r].op = "none"
        /\ \A q \in Reqs \ {r} : pc'[q] = pc[q] /\ call'[q] = call[q]
    BY FinishCalls
  <1>2. TypeOK'
    BY <1>1 DEF TypeOK
  <1>3. \A q \in Reqs \ {r} : (call[q].op = "refresh" /\ key[call[q].sess] = 0) => key'[call[q].sess] = 0
    BY DEF TypeOK, CallOK
  <1>4. CallOK'
    BY <1>1, <1>3 DEF CallOK
  <1>5. OnlyGiven'
    BY DEF OnlyGiven
  <1>6. LogoutFinal'
    BY DEF LogoutFinal, RefreshParses, TypeOK, OnlyGiven
  <1>7. HonouredUntilExpiry'
    BY DEF HonouredUntilExpiry, TypeOK
  <1>8. \A i \in Sessions : EarlyRefresh(i)' => EarlyRefresh(i)
    BY <1>1 DEF EarlyRefresh
  <1>9. Waning'
    BY <1>8 DEF Waning, TypeOK
  <1> QED BY <1>2, <1>4, <1>5, <1>6, <1>7, <1>9 DEF Inv, Shape

\* A refresh or a logout that is accepted knows a session of an answered login.
LEMMA AcceptInv ==
  ASSUME Inv, NEW r \in Reqs, NEW j \in Sessions, RefreshParses(j),
         NEW at \in {"exists", "revoke"}, NEW op \in {"refresh", "logout"},
         (at = "exists") <=> (op = "refresh"),
         Accept(r, at, op, j),
         UNCHANGED <<key, refresh, access, used, given, loggedOut, gone, quiet>>
  PROVE  Inv'
  <1> Shape /\ TypeOK /\ CallOK /\ OnlyGiven /\ LogoutFinal /\ HonouredUntilExpiry /\ Waning
    BY DEF Inv, Shape
  <1> DEFINE c == [op |-> op, sess |-> j, access |-> 0, refresh |-> 0, late |-> j \in loggedOut]
  <1>1. c \in Call /\ c.op = op /\ c.sess = j /\ c.late = (j \in loggedOut)
    BY DEF Call
  <1>2. /\ pc[r] = "idle" /\ pc'[r] = at /\ call'[r] = c
        /\ pc' \in [Reqs -> At] /\ call' \in [Reqs -> Call]
        /\ \A q \in Reqs \ {r} : pc'[q] = pc[q] /\ call'[q] = call[q]
    BY <1>1 DEF Accept, TypeOK
  <1>3. TypeOK'
    BY <1>2 DEF TypeOK
  <1>4. j \in given /\ (j \in loggedOut => key[j] = 0)
    BY DEF RefreshParses, OnlyGiven, LogoutFinal, TypeOK
  <1>5. CallOK'
    <2>1. /\ call'[r].op = op /\ call'[r].sess = j
          /\ call'[r].late = (j \in loggedOut)
      BY <1>1, <1>2
    <2> HIDE DEF c
    <2>3. call'[r].late => key[j] = 0
      <3>1. CASE j \in loggedOut
        BY <1>4, <3>1
      <3>2. CASE j \notin loggedOut
        <4>1. (j \in loggedOut) = FALSE
          BY <3>2
        <4> QED BY <2>1, <4>1
      <3> QED BY <3>1, <3>2
    <2>2. \A q \in Reqs \ {r} : call[q].op = "login" => call'[q].sess = call[q].sess /\ call'[r].op # "login"
      BY <1>2, <2>1
    <2> QED BY <1>2, <1>4, <2>1, <2>2, <2>3 DEF CallOK
  <1>6. OnlyGiven'
    BY DEF OnlyGiven
  <1>7. LogoutFinal' /\ HonouredUntilExpiry'
    BY DEF LogoutFinal, HonouredUntilExpiry, RefreshParses
  <1>8. \A i \in Sessions : EarlyRefresh(i)' => EarlyRefresh(i) \/ i \notin loggedOut
    BY <1>1, <1>2 DEF EarlyRefresh
  <1>9. Waning'
    BY <1>8 DEF Waning
  <1> QED BY <1>3, <1>5, <1>6, <1>7, <1>9 DEF Inv, Shape

\* Login works at a session nobody has seen.
LEMMA LoginInv ==
  ASSUME Inv, NEW r \in Reqs, NEW j \in Sessions, Login(r, j)
  PROVE  Inv'
  <1> Shape /\ TypeOK /\ CallOK /\ OnlyGiven /\ LogoutFinal /\ HonouredUntilExpiry /\ Waning
    BY DEF Inv, Shape
  <1> DEFINE c == [op |-> "login", sess |-> j, access |-> AccessTTL,
                   refresh |-> RefreshTTL, late |-> FALSE]
  <1>1. c \in Call /\ c.op = "login" /\ c.sess = j
    BY DEF Call
  <1>2. /\ pc[r] = "idle" /\ pc'[r] = "save" /\ call'[r] = c
        /\ pc' \in [Reqs -> At] /\ call' \in [Reqs -> Call]
        /\ \A q \in Reqs \ {r} : pc'[q] = pc[q] /\ call'[q] = call[q]
    BY <1>1 DEF Login, TypeOK
  <1>3. TypeOK'
    BY <1>2 DEF TypeOK, Login
  <1>4. /\ j \notin used /\ used' = used \cup {j}
        /\ UNCHANGED <<key, refresh, access, given, loggedOut, gone, quiet>>
    BY DEF Login
  <1>5. \A q \in Reqs : call[q].op = "login" => call[q].sess # j
    BY <1>4 DEF CallOK
  <1>6. j \notin given
    BY <1>4 DEF OnlyGiven
  <1>7. CallOK'
    BY <1>1, <1>2, <1>4, <1>5, <1>6 DEF CallOK
  <1>8. OnlyGiven'
    BY <1>4 DEF OnlyGiven
  <1>9. LogoutFinal' /\ HonouredUntilExpiry'
    BY <1>4 DEF LogoutFinal, HonouredUntilExpiry, RefreshParses
  <1>10. \A i \in Sessions : EarlyRefresh(i)' => EarlyRefresh(i)
    BY <1>1, <1>2 DEF EarlyRefresh
  <1>11. Waning'
    BY <1>4, <1>10 DEF Waning
  <1> QED BY <1>3, <1>7, <1>8, <1>9, <1>11 DEF Inv, Shape

\* The answered login leaves a key that outlives its token.
LEMMA SaveInv ==
  ASSUME Inv, NEW r \in Reqs, Save(r)
  PROVE  Inv'
  <1> Shape /\ TypeOK /\ CallOK /\ OnlyGiven /\ LogoutFinal /\ HonouredUntilExpiry /\ Waning
    BY DEF Inv, Shape
  <1>1. /\ pc' \in [Reqs -> At] /\ call' \in [Reqs -> Call]
        /\ pc'[r] = "idle" /\ call'[r].op = "none"
        /\ \A q \in Reqs \ {r} : pc'[q] = pc[q] /\ call'[q] = call[q]
    BY FinishCalls DEF Save
  <1>2. PICK j \in Sessions : j = call[r].sess
    BY DEF Save, CallOK
  <1>3. /\ call[r].op = "login" /\ j \in used \ given /\ j \notin loggedOut
        /\ \A q \in Reqs \ {r} : call[q].op = "login" => call[q].sess # j
    BY <1>2 DEF Save, CallOK, OnlyGiven
  <1>4. PICK a \in 0..AccessTTL, b \in 0..RefreshTTL : a = call[r].access /\ b = call[r].refresh
    BY DEF TypeOK, Call
  <1>5. /\ key' = [key EXCEPT ![j] = RefreshTTL]
        /\ refresh' = [refresh EXCEPT ![j] = b]
        /\ access' = [access EXCEPT ![j] = {a} \ {0}]
        /\ given' = given \cup {j}
        /\ UNCHANGED <<used, loggedOut, gone, quiet>>
    BY <1>2, <1>4 DEF Save, Hand
  <1>6. TypeOK'
    <2>1. {a} \ {0} \subseteq 1..AccessTTL
      OBVIOUS
    <2>2. key' \in [Sessions -> 0..RefreshTTL] /\ refresh' \in [Sessions -> 0..RefreshTTL]
      BY <1>5 DEF TypeOK
    <2>3. access' \in [Sessions -> SUBSET (1..AccessTTL)]
      BY <1>5, <2>1 DEF TypeOK
    <2> QED BY <1>1, <1>5, <2>2, <2>3 DEF TypeOK
  <1>7. CallOK'
    <2>1. \A q \in Reqs \ {r} : call[q].op = "refresh" => call[q].sess # j
      BY <1>3 DEF CallOK
    <2> QED BY <1>1, <1>3, <1>5, <2>1 DEF CallOK, TypeOK
  <1>8. OnlyGiven'
    BY <1>3, <1>5 DEF OnlyGiven, TypeOK
  <1>9. LogoutFinal' /\ HonouredUntilExpiry'
    BY <1>3, <1>5 DEF LogoutFinal, HonouredUntilExpiry, RefreshParses, TypeOK, OnlyGiven
  <1>10. \A i \in Sessions : EarlyRefresh(i)' => EarlyRefresh(i)
    BY <1>1 DEF EarlyRefresh
  <1>11. Waning'
    BY <1>3, <1>5, <1>10 DEF Waning, TypeOK
  <1> QED BY <1>6, <1>7, <1>8, <1>9, <1>11 DEF Inv, Shape

\* A refresh that may sign came before the logout, so that quiet has not begun.
LEMMA SignAccessInv ==
  ASSUME Inv, NEW r \in Reqs, SignAccess(r)
  PROVE  Inv'
  <1> Shape /\ TypeOK /\ CallOK /\ OnlyGiven /\ LogoutFinal /\ HonouredUntilExpiry /\ Waning
    BY DEF Inv, Shape
  <1>1. /\ pc' \in [Reqs -> At] /\ call' \in [Reqs -> Call]
        /\ pc'[r] = "idle" /\ call'[r].op = "none"
        /\ \A q \in Reqs \ {r} : pc'[q] = pc[q] /\ call'[q] = call[q]
    BY FinishCalls DEF SignAccess
  <1>2. PICK j \in Sessions : j = call[r].sess
    BY DEF SignAccess, CallOK
  <1>3. j \in given /\ call[r].op = "refresh" /\ ~call[r].late
    BY <1>2 DEF SignAccess, CallOK
  <1>4. quiet[j] = 0
    BY <1>2, <1>3 DEF EarlyRefresh, Waning
  <1>5. /\ access' = [access EXCEPT ![j] = access[j] \cup {AccessTTL}]
        /\ UNCHANGED <<key, refresh, used, given, loggedOut, gone, quiet>>
    BY <1>2 DEF SignAccess
  <1>6. TypeOK'
    BY <1>1, <1>5 DEF TypeOK
  <1>7. CallOK'
    BY <1>1, <1>5 DEF CallOK
  <1>8. OnlyGiven'
    BY <1>3, <1>5 DEF OnlyGiven, TypeOK
  <1>9. LogoutFinal' /\ HonouredUntilExpiry'
    BY <1>5 DEF LogoutFinal, HonouredUntilExpiry, RefreshParses
  <1>10. \A i \in Sessions : EarlyRefresh(i)' => EarlyRefresh(i)
    BY <1>1 DEF EarlyRefresh
  <1>11. Waning'
    BY <1>4, <1>5, <1>10 DEF Waning, TypeOK
  <1> QED BY <1>6, <1>7, <1>8, <1>9, <1>11 DEF Inv, Shape

\* Time takes from tokens and keys alike, and adds to quiet only when nothing
\* is left that could sign.
LEMMA TickInv == Inv /\ Tick => Inv'
  <1> SUFFICES ASSUME Inv, Tick PROVE Inv'
    OBVIOUS
  <1> Shape /\ TypeOK /\ CallOK /\ OnlyGiven /\ LogoutFinal /\ HonouredUntilExpiry /\ Waning
    BY DEF Inv, Shape
  <1>1. \A n \in Nat : Less(n) \in Nat /\ Less(n) <= n /\ (n = 0 => Less(n) = 0)
                       /\ (\A k \in Nat : k <= n => Less(k) <= Less(n))
    BY DEF Less
  <1>2. \A r \in Reqs :
          /\ call'[r] \in Call /\ call'[r].op = call[r].op
          /\ call'[r].sess = call[r].sess /\ call'[r].late = call[r].late
    <2> SUFFICES ASSUME NEW r \in Reqs
                 PROVE  /\ call'[r] \in Call /\ call'[r].op = call[r].op
                        /\ call'[r].sess = call[r].sess /\ call'[r].late = call[r].late
      OBVIOUS
    <2>1. call[r] \in Call
      BY DEF TypeOK
    <2>2. Less(call[r].access) \in 0..AccessTTL /\ Less(call[r].refresh) \in 0..RefreshTTL
      BY <1>1, <2>1 DEF Call
    <2> QED BY <2>1, <2>2 DEF Tick, Call
  <1>3. \A j \in Sessions :
          /\ key'[j] = Less(key[j]) /\ refresh'[j] = Less(refresh[j])
          /\ access'[j] = {a - 1 : a \in access[j] \ {1}}
    BY DEF Tick
  <1>4. \A j \in Sessions :
          /\ quiet'[j] \in 0..AccessTTL
          /\ j \notin loggedOut \/ EarlyRefresh(j) => quiet'[j] = 0
          /\ quiet'[j] <= quiet[j] + 1
    <2> SUFFICES ASSUME NEW j \in Sessions
                 PROVE  /\ quiet'[j] \in 0..AccessTTL
                        /\ j \notin loggedOut \/ EarlyRefresh(j) => quiet'[j] = 0
                        /\ quiet'[j] <= quiet[j] + 1
      OBVIOUS
    <2>1. quiet[j] \in 0..AccessTTL
      BY DEF TypeOK
    <2>2. CASE j \notin loggedOut \/ EarlyRefresh(j)
      <3>1. quiet'[j] = 0
        BY <2>2, Zenon DEF Tick
      <3> QED BY <2>1, <2>2, <3>1
    <2>3. CASE ~(j \notin loggedOut \/ EarlyRefresh(j))
      <3>1. quiet'[j] = IF quiet[j] < AccessTTL THEN quiet[j] + 1 ELSE AccessTTL
        BY <2>3, Zenon DEF Tick
      <3> QED BY <2>1, <2>3, <3>1
    <2> QED BY <2>2, <2>3
  <1>5. TypeOK'
    <2>1. \A j \in Sessions : key'[j] \in 0..RefreshTTL /\ refresh'[j] \in 0..RefreshTTL
      BY <1>1, <1>3 DEF TypeOK
    <2>2. \A j \in Sessions : access'[j] \subseteq 1..AccessTTL
      BY <1>3 DEF TypeOK
    <2>3. key' \in [Sessions -> 0..RefreshTTL] /\ refresh' \in [Sessions -> 0..RefreshTTL]
      BY <2>1 DEF Tick
    <2>4. access' \in [Sessions -> SUBSET (1..AccessTTL)]
      BY <2>2 DEF Tick
    <2>5. call' \in [Reqs -> Call]
      BY <1>2 DEF Tick
    <2>6. quiet' \in [Sessions -> 0..AccessTTL]
      BY <1>4 DEF Tick
    <2> QED BY <2>3, <2>4, <2>5, <2>6 DEF Tick, TypeOK
  <1>6. CallOK'
    <2>1. \A j \in Sessions : key[j] = 0 => key'[j] = 0
      BY <1>3 DEF Less
    <2>2. UNCHANGED <<used, given, pc>>
      BY DEF Tick
    <2> QED BY <1>2, <2>1, <2>2 DEF CallOK
  <1>7. OnlyGiven'
    BY <1>3 DEF OnlyGiven, Tick, Less
  <1>8. LogoutFinal'
    <2> SUFFICES ASSUME NEW j \in loggedOut PROVE ~(refresh'[j] > 0 /\ key'[j] > 0)
      BY DEF LogoutFinal, RefreshParses, Tick
    <2>1. j \in Sessions /\ key[j] \in Nat /\ refresh[j] \in Nat
      BY DEF TypeOK
    <2>2. key[j] = 0 \/ refresh[j] = 0
      BY <2>1 DEF LogoutFinal, RefreshParses
    <2> QED BY <1>3, <2>1, <2>2 DEF Less
  <1>9. HonouredUntilExpiry'
    <2>1. \A j \in Sessions : key[j] \in Nat /\ refresh[j] \in Nat
      BY DEF TypeOK
    <2> QED BY <1>1, <1>3, <2>1 DEF HonouredUntilExpiry, Tick
  <1>10. \A j \in Sessions : EarlyRefresh(j)' <=> EarlyRefresh(j)
    BY <1>2 DEF EarlyRefresh
  <1>11. Waning'
    <2> SUFFICES ASSUME NEW j \in Sessions
                 PROVE  /\ (j \notin loggedOut \/ EarlyRefresh(j))' => quiet'[j] = 0
                        /\ \A a \in access'[j] : a + quiet'[j] <= AccessTTL
      BY DEF Waning
    <2>1. (j \notin loggedOut \/ EarlyRefresh(j))' => quiet'[j] = 0
      BY <1>4, <1>10 DEF Tick
    <2>2. ASSUME NEW a \in access[j] PROVE a - 1 + quiet'[j] <= AccessTTL
      BY <1>4 DEF Waning, TypeOK
    <2> QED BY <1>3, <2>1, <2>2
  <1> QED BY <1>5, <1>6, <1>7, <1>8, <1>9, <1>11 DEF Inv, Shape

\* Every step preserves the inductive invariant.
LEMMA NextInv == Inv /\ [Next]_vars => Inv'
  <1> SUFFICES ASSUME Inv, [Next]_vars PROVE Inv'
    OBVIOUS
  <1> Shape /\ TypeOK /\ CallOK /\ OnlyGiven /\ LogoutFinal /\ HonouredUntilExpiry /\ Waning
    BY DEF Inv, Shape
  <1>1. ASSUME NEW j \in Sessions, LogoutExpired(j) PROVE Inv'
    <2>1. /\ j \in given /\ ~RefreshParses(j) /\ loggedOut' = loggedOut \cup {j}
          /\ UNCHANGED <<key, refresh, access, used, given, pc, call, gone, quiet>>
      BY <1>1 DEF LogoutExpired
    <2>2. TypeOK' /\ CallOK' /\ OnlyGiven'
      BY <2>1 DEF TypeOK, CallOK, OnlyGiven
    <2>3. LogoutFinal' /\ HonouredUntilExpiry'
      BY <2>1 DEF LogoutFinal, HonouredUntilExpiry, RefreshParses
    <2>4. \A i \in Sessions : EarlyRefresh(i)' <=> EarlyRefresh(i)
      BY <2>1 DEF EarlyRefresh
    <2>5. Waning'
      BY <2>1, <2>4 DEF Waning
    <2> QED BY <2>2, <2>3, <2>5 DEF Inv, Shape
  <1>2. ASSUME NEW r \in Reqs, NEW j \in Sessions, Login(r, j) PROVE Inv'
    BY <1>2, LoginInv
  <1>3. ASSUME NEW r \in Reqs, NEW j \in Sessions, Refresh(r, j) PROVE Inv'
    BY <1>3, AcceptInv DEF Refresh
  <1>4. ASSUME NEW r \in Reqs, NEW j \in Sessions, Logout(r, j) PROVE Inv'
    BY <1>4, AcceptInv DEF Logout
  <1>5. ASSUME NEW r \in Reqs, Save(r) PROVE Inv'
    BY <1>5, SaveInv
  <1>6. ASSUME NEW r \in Reqs, KeyExists(r) PROVE Inv'
    <2>1. pc[r] = "exists" /\ call[r].sess \in Sessions /\ key[call[r].sess] > 0
      BY <1>6 DEF KeyExists, CallOK
    <2>2. /\ pc' = [pc EXCEPT ![r] = "sign"]
          /\ UNCHANGED <<key, refresh, access, used, given, call, loggedOut, gone, quiet>>
      BY <1>6 DEF KeyExists
    <2>3. TypeOK' /\ OnlyGiven'
      BY <2>2 DEF TypeOK, OnlyGiven
    <2>4. CallOK'
      BY <2>1, <2>2 DEF CallOK, TypeOK
    <2>5. LogoutFinal' /\ HonouredUntilExpiry'
      BY <2>2 DEF LogoutFinal, HonouredUntilExpiry, RefreshParses
    <2>6. Waning'
      BY <2>2 DEF Waning, EarlyRefresh
    <2> QED BY <2>3, <2>4, <2>5, <2>6 DEF Inv, Shape
  <1>7. ASSUME NEW r \in Reqs, KeyMissing(r) \/ Abandon(r) PROVE Inv'
    <2>1. /\ Finish(r)
          /\ UNCHANGED <<key, refresh, access, used, given, loggedOut, gone, quiet>>
      BY <1>7 DEF KeyMissing, Abandon
    <2>2. PICK j \in Sessions : j = call[r].sess
      BY <1>7 DEF KeyMissing, Abandon, CallOK, TypeOK
    <2> QED BY <2>1, <2>2, EndInv
  <1>8. ASSUME NEW r \in Reqs, SignAccess(r) PROVE Inv'
    BY <1>8, SignAccessInv
  <1>9. ASSUME NEW r \in Reqs, Revoke(r) PROVE Inv'
    <2>1. PICK j \in Sessions : j = call[r].sess /\ j \in given
      BY <1>9 DEF Revoke, CallOK
    <2>2. /\ Finish(r) /\ UNCHANGED <<refresh, access, used, given, quiet>>
          /\ key' = [key EXCEPT ![j] = 0] /\ gone' = gone \cup {j}
          /\ loggedOut' = loggedOut \cup {j}
      BY <1>9, <2>1 DEF Revoke
    <2>3. key'[j] = 0
      BY <2>2 DEF TypeOK
    <2>4. loggedOut' = loggedOut \/ quiet[j] = 0
      BY <2>2 DEF Waning
    <2> QED BY <2>1, <2>2, <2>3, <2>4, EndInv
  <1>10. ASSUME NEW r \in Reqs, SaveUnacked(r) PROVE Inv'
    <2>1. PICK j \in Sessions : j = call[r].sess /\ j \notin given
      BY <1>10 DEF SaveUnacked, CallOK
    <2>2. /\ Finish(r) /\ UNCHANGED <<refresh, access, used, given, quiet>>
          /\ key' = [key EXCEPT ![j] = RefreshTTL] /\ gone' = gone
          /\ loggedOut' = loggedOut
      BY <1>10, <2>1 DEF SaveUnacked
    <2> QED BY <2>1, <2>2, EndInv
  <1>11. ASSUME NEW r \in Reqs, RevokeUnacked(r) PROVE Inv'
    <2>1. PICK j \in Sessions : j = call[r].sess
      BY <1>11 DEF RevokeUnacked, CallOK
    <2>2. /\ Finish(r) /\ UNCHANGED <<refresh, access, used, given, quiet>>
          /\ key' = [key EXCEPT ![j] = 0] /\ gone' = gone \cup {j}
          /\ loggedOut' = loggedOut
      BY <1>11, <2>1 DEF RevokeUnacked
    <2> QED BY <2>1, <2>2, EndInv
  <1>12. ASSUME NEW j \in Sessions, Lose(j) PROVE Inv'
    <2>1. /\ key' = [key EXCEPT ![j] = 0] /\ gone' = gone \cup {j}
          /\ UNCHANGED <<refresh, access, used, given, pc, call, loggedOut, quiet>>
      BY <1>12 DEF Lose
    <2>2. TypeOK' /\ OnlyGiven'
      BY <2>1 DEF TypeOK, OnlyGiven
    <2>3. CallOK'
      BY <2>1 DEF CallOK, TypeOK
    <2>4. LogoutFinal' /\ HonouredUntilExpiry'
      BY <2>1 DEF LogoutFinal, HonouredUntilExpiry, RefreshParses, TypeOK
    <2>5. Waning'
      BY <2>1 DEF Waning, EarlyRefresh
    <2> QED BY <2>2, <2>3, <2>4, <2>5 DEF Inv, Shape
  <1>13. CASE Tick
    BY <1>13, TickInv
  <1>14. CASE UNCHANGED vars
    <2>1. UNCHANGED <<key, refresh, access, used, given, pc, call, loggedOut, gone, quiet>>
      BY <1>14 DEF vars
    <2>2. TypeOK' /\ OnlyGiven' /\ CallOK'
      BY <2>1 DEF TypeOK, OnlyGiven, CallOK
    <2>3. LogoutFinal' /\ HonouredUntilExpiry' /\ Waning'
      BY <2>1 DEF LogoutFinal, HonouredUntilExpiry, RefreshParses, Waning, EarlyRefresh
    <2> QED BY <2>2, <2>3 DEF Inv, Shape
  <1> QED BY <1>1, <1>2, <1>3, <1>4, <1>5, <1>6, <1>7, <1>8, <1>9, <1>10, <1>11, <1>12,
             <1>13, <1>14 DEF Next, NewRequest, Step, Fault

----------------------------------------------------------------------------
\* The inductive invariant holds in every behaviour of the three endpoints.
THEOREM SessionsAreSound == Spec => []Inv
  BY InitInv, NextInv, PTL DEF Spec

\* Every variable of the sessions keeps its shape: no token outlives the
\* lifetime of its kind, whoever holds it.
THEOREM TypeCorrect == Spec => []TypeOK
  <1>1. Inv => TypeOK
    BY DEF Inv, Shape
  <1> QED BY SessionsAreSound, <1>1, PTL

\* A logout that was answered is final, for any number of sessions, requests,
\* racing refreshes, lost answers and lost keys.
THEOREM LogoutIsFinal == Spec => []LogoutFinal
  <1>1. Inv => LogoutFinal
    BY DEF Inv
  <1> QED BY SessionsAreSound, <1>1, PTL

\* One access token lifetime after the logout was answered, and the refreshes
\* that came before it have ended, nobody is let in for the session.
THEOREM AccessEndsAfterLogout == Spec => []AccessBounded
  <1>1. Inv => AccessBounded
    <2> SUFFICES ASSUME Inv, NEW j \in loggedOut, quiet[j] = AccessTTL, NEW a \in access[j]
                 PROVE  FALSE
      BY DEF AccessBounded, Authorized
    <2>1. j \in Sessions /\ a \in 1..AccessTTL
      BY DEF Inv, Shape, TypeOK
    <2>2. a + quiet[j] <= AccessTTL
      BY <2>1 DEF Inv, Waning
    <2> QED BY <2>1, <2>2
  <1> QED BY SessionsAreSound, <1>1, PTL

\* A refresh token that was answered is honoured until it expires, unless this
\* very session was logged out or Redis lost its key.
THEOREM TokensAreHonoured == Spec => []HonouredUntilExpiry
  <1>1. Inv => HonouredUntilExpiry
    BY DEF Inv
  <1> QED BY SessionsAreSound, <1>1, PTL

----------------------------------------------------------------------------
(* The safety half of SessionsEnd, and the end of requests: what is left   *)
(* for fairness is that time, and every request, goes on.                  *)

\* The calls a request has in front of it at most.
Left(r) ==
  CASE pc[r] = "idle" -> 0
    [] pc[r] = "exists" -> 2
    [] pc[r] \in {"save", "sign", "revoke"} -> 1

\* Every call brings a request nearer to its end, time takes no part in it, and
\* only an idle slot is given new work: a login and a logout make one call to
\* Redis, a refresh one and a signature, whatever happens around them.
CallsRunOut ==
  [][\A r \in Reqs :
       /\ Step(r) => Left(r)' < Left(r)
       /\ Left(r) > 0 => Left(r)' <= Left(r)]_vars

\* The refresh token has run out and no refresh is on its way.
Closed(j) ==
  /\ j \in given /\ ~RefreshParses(j)
  /\ \A r \in Reqs : ~(call[r].op = "refresh" /\ call[r].sess = j)

\* A client's refresh token never gets time back.  From the moment it has run out
\* and the refreshes that were on their way have ended nothing opens the session
\* again: nobody gets a new access token for it, and time takes from each of
\* those that are left.
SessionsFade ==
  [][\A j \in given :
       /\ refresh'[j] <= refresh[j]
       /\ Tick /\ RefreshParses(j) => refresh'[j] < refresh[j]
       /\ Closed(j) =>
            /\ Closed(j)'
            /\ \A a \in access'[j] : \E b \in access[j] : IF Tick THEN a < b ELSE a = b]_vars

\* Every step but the passing of time changes the calls of one request at most,
\* and touches no refresh token and no access token of a closed session.
LEMMA FadeWithoutTime ==
  ASSUME Inv, Next, ~Tick, NEW j \in given
  PROVE  /\ refresh'[j] = refresh[j]
         /\ j \in given'
         /\ Closed(j) => Closed(j)' /\ access'[j] = access[j]
  <1> TypeOK /\ CallOK /\ OnlyGiven /\ Shape
    BY DEF Inv, Shape
  <1>1. j \in Sessions
    BY DEF TypeOK
  <1>2. ASSUME NEW r \in Reqs, Finish(r), refresh'[j] = refresh[j], j \in given',
               call[r].sess # j => access'[j] = access[j],
               call[r].op # "refresh" => access'[j] = access[j]
        PROVE  /\ refresh'[j] = refresh[j]
               /\ j \in given'
               /\ Closed(j) => Closed(j)' /\ access'[j] = access[j]
    <2>1. /\ call'[r].op = "none"
          /\ \A q \in Reqs \ {r} : call'[q] = call[q]
      BY <1>2, FinishCalls
    <2> QED BY <1>2, <2>1 DEF Closed, RefreshParses
  <1>3. ASSUME NEW r \in Reqs, NEW i \in Sessions, Refresh(r, i) \/ Logout(r, i) \/ Login(r, i)
        PROVE  /\ refresh'[j] = refresh[j]
               /\ j \in given'
               /\ Closed(j) => Closed(j)' /\ access'[j] = access[j]
    <2>1. /\ UNCHANGED <<refresh, access, given>>
          /\ call'[r].sess = i /\ (call'[r].op = "refresh" => RefreshParses(i))
          /\ \A q \in Reqs \ {r} : call'[q] = call[q]
      BY <1>3 DEF Refresh, Logout, Login, Accept, TypeOK
    <2> QED BY <2>1 DEF Closed, RefreshParses
  <1>4. ASSUME UNCHANGED <<refresh, access, given, call>>
        PROVE  /\ refresh'[j] = refresh[j]
               /\ j \in given'
               /\ Closed(j) => Closed(j)' /\ access'[j] = access[j]
    BY <1>4 DEF Closed, RefreshParses
  <1>5. ASSUME NEW i \in Sessions, LogoutExpired(i) \/ Lose(i)
        PROVE  UNCHANGED <<refresh, access, given, call>>
    BY <1>5 DEF LogoutExpired, Lose
  <1>6. ASSUME NEW r \in Reqs, KeyExists(r)
        PROVE  UNCHANGED <<refresh, access, given, call>>
    BY <1>6 DEF KeyExists
  <1>7. ASSUME NEW r \in Reqs, Save(r)
        PROVE  /\ Finish(r) /\ refresh'[j] = refresh[j] /\ j \in given'
               /\ access'[j] = access[j]
    <2>1. call[r].sess # j
      BY <1>7 DEF Save, CallOK
    <2> QED BY <1>1, <1>7, <2>1 DEF Save, Hand, TypeOK
  <1>8. ASSUME NEW r \in Reqs, SignAccess(r)
        PROVE  /\ Finish(r) /\ refresh'[j] = refresh[j] /\ j \in given'
               /\ call[r].op = "refresh"
               /\ call[r].sess # j => access'[j] = access[j]
    BY <1>1, <1>8 DEF SignAccess, CallOK, TypeOK
  <1>9. ASSUME NEW r \in Reqs,
               KeyMissing(r) \/ Revoke(r) \/ Abandon(r) \/ SaveUnacked(r) \/ RevokeUnacked(r)
        PROVE  Finish(r) /\ UNCHANGED <<refresh, access, given>>
    BY <1>9 DEF KeyMissing, Revoke, Abandon, SaveUnacked, RevokeUnacked
  <1> QED BY <1>2, <1>3, <1>4, <1>5, <1>6, <1>7, <1>8, <1>9 DEF Next, NewRequest, Step, Fault

\* Time takes from every token.
LEMMA FadeWithTime ==
  ASSUME Inv, Tick, NEW j \in given
  PROVE  /\ refresh'[j] <= refresh[j]
         /\ RefreshParses(j) => refresh'[j] < refresh[j]
         /\ Closed(j) => Closed(j)'
         /\ \A a \in access'[j] : \E b \in access[j] : a < b
  <1>1. /\ j \in Sessions /\ j \in given'
        /\ refresh[j] \in Nat /\ access[j] \subseteq Nat
    <2>1. TypeOK /\ given' = given
      BY DEF Inv, Shape, Tick
    <2>2. j \in Sessions /\ j \in given'
      BY <2>1 DEF TypeOK
    <2>3. refresh[j] \in 0..RefreshTTL /\ access[j] \subseteq 1..AccessTTL
      BY <2>1, <2>2 DEF TypeOK
    <2> QED BY <2>2, <2>3
  <1>2. /\ refresh'[j] = Less(refresh[j])
        /\ access'[j] = {a - 1 : a \in access[j] \ {1}}
    BY <1>1 DEF Tick
  <1>3. \A r \in Reqs : call'[r].op = call[r].op /\ call'[r].sess = call[r].sess
    <2> SUFFICES ASSUME NEW r \in Reqs
                 PROVE  call'[r].op = call[r].op /\ call'[r].sess = call[r].sess
      OBVIOUS
    <2>1. call[r] \in Call
      BY DEF Inv, Shape, TypeOK
    <2> QED BY <2>1 DEF Tick, Call
  <1>4. /\ refresh'[j] <= refresh[j]
        /\ RefreshParses(j) => refresh'[j] < refresh[j]
        /\ ~RefreshParses(j) => ~RefreshParses(j)'
    BY <1>1, <1>2 DEF Less, RefreshParses
  <1>5. Closed(j) => Closed(j)'
    BY <1>1, <1>3, <1>4 DEF Closed
  <1>6. ASSUME NEW a \in access'[j] PROVE \E b \in access[j] : a < b
    <2>1. PICK b \in access[j] : a = b - 1
      BY <1>2
    <2>2. a < b
      BY <1>1, <2>1
    <2> QED BY <2>2
  <1> QED BY <1>4, <1>5, <1>6

\* A session fades: no step, of any request and through any fault, gives a
\* refresh token time back, and once it has run out nothing opens the session
\* again.
THEOREM NothingProlongsASession == Spec => SessionsFade
  <1> DEFINE Fades(j) ==
        /\ refresh'[j] <= refresh[j]
        /\ Tick /\ RefreshParses(j) => refresh'[j] < refresh[j]
        /\ Closed(j) =>
             /\ Closed(j)'
             /\ \A a \in access'[j] : \E b \in access[j] : IF Tick THEN a < b ELSE a = b
  <1>1. Inv /\ [Next]_vars => [\A j \in given : Fades(j)]_vars
    <2> SUFFICES ASSUME Inv, [Next]_vars, NEW j \in given PROVE Fades(j)
      OBVIOUS
    <2>1. refresh[j] \in Nat
      BY DEF Inv, Shape, TypeOK
    <2>2. CASE Tick
      BY <2>2, FadeWithTime
    <2>3. CASE ~Tick /\ Next
      BY <2>1, <2>3, FadeWithoutTime
    <2>4. CASE ~Tick /\ UNCHANGED vars
      BY <2>1, <2>4 DEF vars, Closed, RefreshParses
    <2> QED BY <2>2, <2>3, <2>4
  <1> QED BY SessionsAreSound, <1>1, PTL DEF Spec, SessionsFade

\* A request makes two calls at most, in any interleaving and through any fault.
THEOREM RequestsRunOut == Spec => CallsRunOut
  <1> DEFINE Nearer == \A r \in Reqs : /\ Step(r) => Left(r)' < Left(r)
                                       /\ Left(r) > 0 => Left(r)' <= Left(r)
  <1>1. Inv /\ [Next]_vars => [Nearer]_vars
    <2> SUFFICES ASSUME Inv, [Next]_vars, NEW r \in Reqs
                 PROVE  /\ Step(r) => Left(r)' < Left(r)
                        /\ Left(r) > 0 => Left(r)' <= Left(r)
      OBVIOUS
    <2> TypeOK /\ pc[r] \in At
      BY DEF Inv, Shape, TypeOK
    <2>1. Step(r) => Left(r)' < Left(r)
      <3>1. CASE KeyExists(r)
        BY <3>1 DEF KeyExists, Left, TypeOK
      <3>2. CASE Save(r) \/ KeyMissing(r) \/ SignAccess(r) \/ Revoke(r)
        <4>1. pc'[r] = "idle" /\ pc[r] \in At \ {"idle"}
          BY <3>2 DEF Save, KeyMissing, SignAccess, Revoke, Finish, TypeOK
        <4> QED BY <4>1 DEF Left
      <3> QED BY <3>1, <3>2 DEF Step
    <2>2. pc[r] # "idle" => pc'[r] \in {pc[r], "idle"} \/ (pc[r] = "exists" /\ pc'[r] = "sign")
      <3>1. ASSUME NEW q \in Reqs, NEW j \in Sessions, Login(q, j) \/ Refresh(q, j) \/ Logout(q, j)
            PROVE  pc[r] # "idle" => pc'[r] = pc[r]
        BY <3>1 DEF Login, Refresh, Logout, Accept, TypeOK
      <3>2. ASSUME NEW q \in Reqs, Step(q) \/ Abandon(q) \/ SaveUnacked(q) \/ RevokeUnacked(q)
            PROVE  pc'[r] \in {pc[r], "idle"} \/ (pc[r] = "exists" /\ pc'[r] = "sign")
        BY <3>2 DEF Step, Save, KeyExists, KeyMissing, SignAccess, Revoke, Abandon,
                    SaveUnacked, RevokeUnacked, Finish, TypeOK
      <3>3. ASSUME NEW j \in Sessions, LogoutExpired(j) \/ Lose(j) PROVE pc' = pc
        BY <3>3 DEF LogoutExpired, Lose
      <3>4. Tick \/ UNCHANGED vars => pc' = pc
        BY DEF Tick, vars
      <3> QED BY <3>1, <3>2, <3>3, <3>4 DEF Next, NewRequest, Fault
    <2>3. Left(r) > 0 => Left(r)' <= Left(r)
      BY <2>2 DEF Left
    <2> QED BY <2>1, <2>3
  <1> QED BY SessionsAreSound, <1>1, PTL DEF Spec, CallsRunOut
=============================================================================
