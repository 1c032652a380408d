------------------------------ MODULE Sessions -----------------------------
(***************************************************************************)
(* Login, refresh and logout: two signed tokens that nobody can take back, *)
(* and a key in Redis that can be deleted.                                 *)
(*                                                                         *)
(* A session is one login, named by the jti of its refresh token.  Tokens  *)
(* and keys are known by the time they have left, which Tick takes away    *)
(* from all of them at once; one action is one call to Redis, and time may *)
(* pass between any two.                                                   *)
(*                                                                         *)
(* A request that is refused before it reaches Redis (no such user, wrong  *)
(* password, a token that does not parse) changes nothing and is a         *)
(* stuttering step.                                                        *)
(***************************************************************************)
EXTENDS Naturals

CONSTANTS
  Sessions,     \* jtis; each is a fresh UUID, used once
  Reqs,         \* slots for requests in flight
  AccessTTL,    \* lifetime of an access token
  RefreshTTL,   \* lifetime of a refresh token
  None          \* no session

ASSUME AccessTTLAssumption == AccessTTL \in Nat \ {0}
ASSUME RefreshTTLAssumption == RefreshTTL \in Nat \ {0}
ASSUME NoneAssumption == None \notin Sessions

VARIABLES
  key,         \* per session, what the Redis key has left; 0: there is none
  refresh,     \* per session, what the client's refresh token has left
  access,      \* per session, what the clients' valid access tokens have left
  used,        \* the jtis generated
  given,       \* the sessions whose login was answered
  pc, call,    \* per request, the call it makes next, and what it remembers
  loggedOut,   \* history: the sessions whose logout was answered with success
  gone,        \* history: the sessions whose key was deleted or lost
  quiet        \* history: time since a logout was answered and the last refresh
               \* that came before it has ended; it stops at AccessTTL

vars == <<key, refresh, access, used, given, pc, call, loggedOut, gone, quiet>>

----------------------------------------------------------------------------
At == {"idle", "save", "exists", "sign", "revoke"}

\* late: the request came after the logout of its session was answered.
Call == [op : {"none", "login", "refresh", "logout"}, sess : Sessions \cup {None},
         access : 0..AccessTTL, refresh : 0..RefreshTTL, late : BOOLEAN]

NoCall == [op |-> "none", sess |-> None, access |-> 0, refresh |-> 0, late |-> FALSE]

Init ==
  /\ key = [j \in Sessions |-> 0]
  /\ refresh = [j \in Sessions |-> 0]
  /\ access = [j \in Sessions |-> {}]
  /\ used = {}
  /\ given = {}
  /\ pc = [r \in Reqs |-> "idle"]
  /\ call = [r \in Reqs |-> NoCall]
  /\ loggedOut = {}
  /\ gone = {}
  /\ quiet = [j \in Sessions |-> 0]

Accept(r, at, op, j) ==
  /\ pc[r] = "idle"
  /\ pc' = [pc EXCEPT ![r] = at]
  /\ call' = [call EXCEPT ![r] = [op |-> op, sess |-> j, access |-> 0, refresh |-> 0,
                                  late |-> j \in loggedOut]]

Finish(r) ==
  /\ pc' = [pc EXCEPT ![r] = "idle"]
  /\ call' = [call EXCEPT ![r] = NoCall]

\* parse: a token is accepted as long as it has time left.
RefreshParses(j) == refresh[j] > 0

\* JWTAuth: some access token of the session is accepted.  Redis is not asked.
Authorized(j) == access[j] # {}

----------------------------------------------------------------------------
(* Login: sign both tokens, save the key, answer.                          *)

\* Mutant of Login: the two lifetimes are swapped.
LoginSwapsLifetimes(r, j) ==
  /\ pc[r] = "idle"
  /\ j \notin used
  /\ used' = used \cup {j}
  /\ pc' = [pc EXCEPT ![r] = "save"]
  /\ call' = [call EXCEPT ![r] = [op |-> "login", sess |-> j, access |-> RefreshTTL,
                                  refresh |-> AccessTTL, late |-> FALSE]]
  /\ UNCHANGED <<key, refresh, access, given, loggedOut, gone, quiet>>

Login(r, j) ==
  /\ pc[r] = "idle"
  /\ j \notin used
  /\ used' = used \cup {j}
  /\ pc' = [pc EXCEPT ![r] = "save"]
  /\ call' = [call EXCEPT ![r] = [op |-> "login", sess |-> j, access |-> AccessTTL,
                                  refresh |-> RefreshTTL, late |-> FALSE]]
  /\ UNCHANGED <<key, refresh, access, given, loggedOut, gone, quiet>>

\* The answer: the client has both tokens, as much as is left of them.
Hand(r) ==
  LET j == call[r].sess
  IN  /\ given' = given \cup {j}
      /\ refresh' = [refresh EXCEPT ![j] = call[r].refresh]
      /\ access' = [access EXCEPT ![j] = {call[r].access} \ {0}]

\* Mutant of Save: the key gets the access token's lifetime.
SaveForAccessTTL(r) ==
  /\ pc[r] = "save"
  /\ key' = [key EXCEPT ![call[r].sess] = AccessTTL]
  /\ Hand(r)
  /\ Finish(r)
  /\ UNCHANGED <<used, loggedOut, gone, quiet>>

\* The key's time starts here, after the token's.
Save(r) ==
  /\ pc[r] = "save"
  /\ key' = [key EXCEPT ![call[r].sess] = RefreshTTL]
  /\ Hand(r)
  /\ Finish(r)
  /\ UNCHANGED <<used, loggedOut, gone, quiet>>

(* Refresh: parse, look for the key, sign another access token.  The       *)
(* refresh token stays as it is.                                           *)

Refresh(r, j) ==
  /\ RefreshParses(j)
  /\ Accept(r, "exists", "refresh", j)
  /\ UNCHANGED <<key, refresh, access, used, given, loggedOut, gone, quiet>>

\* Mutant of KeyExists: an answer from Redis is taken for the key.
KeyExistsUnchecked(r) ==
  /\ pc[r] = "exists"
  /\ pc' = [pc EXCEPT ![r] = "sign"]
  /\ UNCHANGED <<key, refresh, access, used, given, call, loggedOut, gone, quiet>>

KeyExists(r) ==
  /\ pc[r] = "exists"
  /\ key[call[r].sess] > 0
  /\ pc' = [pc EXCEPT ![r] = "sign"]
  /\ UNCHANGED <<key, refresh, access, used, given, call, loggedOut, gone, quiet>>

KeyMissing(r) ==
  /\ pc[r] = "exists"
  /\ key[call[r].sess] = 0
  /\ Finish(r)
  /\ UNCHANGED <<key, refresh, access, used, given, loggedOut, gone, quiet>>

\* Mutant of SignAccess: the session slides, token and key start again.
SignAccessSlides(r) ==
  /\ pc[r] = "sign"
  /\ access' = [access EXCEPT ![call[r].sess] = @ \cup {AccessTTL}]
  /\ refresh' = [refresh EXCEPT ![call[r].sess] = RefreshTTL]
  /\ key' = [key EXCEPT ![call[r].sess] = RefreshTTL]
  /\ Finish(r)
  /\ UNCHANGED <<used, given, loggedOut, gone, quiet>>

\* Neither the key nor the refresh token is looked at again.
SignAccess(r) ==
  /\ pc[r] = "sign"
  /\ access' = [access EXCEPT ![call[r].sess] = @ \cup {AccessTTL}]
  /\ Finish(r)
  /\ UNCHANGED <<key, refresh, used, given, loggedOut, gone, quiet>>

(* Logout: parse, delete the key.                                          *)

Logout(r, j) ==
  /\ RefreshParses(j)
  /\ Accept(r, "revoke", "logout", j)
  /\ UNCHANGED <<key, refresh, access, used, given, loggedOut, gone, quiet>>

\* A token that does not parse any more is answered with success; its key, if
\* it is still there, stays.
LogoutExpired(j) ==
  /\ j \in given
  /\ ~RefreshParses(j)
  /\ loggedOut' = loggedOut \cup {j}
  /\ UNCHANGED <<key, refresh, access, used, given, pc, call, gone, quiet>>

\* Mutant of Revoke: the error of Del is dropped.
RevokeDropsError(r) ==
  /\ pc[r] = "revoke"
  /\ loggedOut' = loggedOut \cup {call[r].sess}
  /\ Finish(r)
  /\ UNCHANGED <<key, refresh, access, used, given, gone, quiet>>

Revoke(r) ==
  /\ pc[r] = "revoke"
  /\ key' = [key EXCEPT ![call[r].sess] = 0]
  /\ gone' = gone \cup {call[r].sess}
  /\ loggedOut' = loggedOut \cup {call[r].sess}
  /\ Finish(r)
  /\ UNCHANGED <<refresh, access, used, given, quiet>>

----------------------------------------------------------------------------
(* Faults.                                                                 *)

\* A call to Redis fails, the caller is gone, or the process dies.
Abandon(r) ==
  /\ pc[r] # "idle"
  /\ Finish(r)
  /\ UNCHANGED <<key, refresh, access, used, given, loggedOut, gone, quiet>>

\* Redis has the key, the login saw an error: nobody has its tokens.
SaveUnacked(r) ==
  /\ pc[r] = "save"
  /\ key' = [key EXCEPT ![call[r].sess] = RefreshTTL]
  /\ Finish(r)
  /\ UNCHANGED <<refresh, access, used, given, loggedOut, gone, quiet>>

\* Redis deleted the key, the logout saw an error.
RevokeUnacked(r) ==
  /\ pc[r] = "revoke"
  /\ key' = [key EXCEPT ![call[r].sess] = 0]
  /\ gone' = gone \cup {call[r].sess}
  /\ Finish(r)
  /\ UNCHANGED <<refresh, access, used, given, loggedOut, quiet>>

\* Redis loses a key: it restarts, or evicts.
Lose(j) ==
  /\ key[j] > 0
  /\ key' = [key EXCEPT ![j] = 0]
  /\ gone' = gone \cup {j}
  /\ UNCHANGED <<refresh, access, used, given, pc, call, loggedOut, quiet>>

----------------------------------------------------------------------------
Less(n) == IF n = 0 THEN 0 ELSE n - 1

\* A refresh of the session is in flight that came before the logout's answer.
EarlyRefresh(j) ==
  \E r \in Reqs : call[r].op = "refresh" /\ call[r].sess = j /\ ~call[r].late

\* A unit of time passes.
Tick ==
  /\ key' = [j \in Sessions |-> Less(key[j])]
  /\ refresh' = [j \in Sessions |-> Less(refresh[j])]
  /\ access' = [j \in Sessions |-> {a - 1 : a \in access[j] \ {1}}]
  /\ call' = [r \in Reqs |-> [call[r] EXCEPT !.access = Less(@), !.refresh = Less(@)]]
  /\ quiet' = [j \in Sessions |->
                 IF j \notin loggedOut \/ EarlyRefresh(j) THEN 0
                 ELSE IF quiet[j] < AccessTTL THEN quiet[j] + 1 ELSE AccessTTL]
  /\ UNCHANGED <<used, given, pc, loggedOut, gone>>

NewRequest ==
  \E j \in Sessions :
    \/ LogoutExpired(j)
    \/ \E r \in Reqs : Login(r, j) \/ Refresh(r, j) \/ Logout(r, j)

Step(r) ==
  \/ Save(r)
  \/ KeyExists(r) \/ KeyMissing(r)
  \/ SignAccess(r)
  \/ Revoke(r)

Fault ==
  \/ \E r \in Reqs : Abandon(r) \/ SaveUnacked(r) \/ RevokeUnacked(r)
  \/ \E j \in Sessions : Lose(j)

Next == NewRequest \/ (\E r \in Reqs : Step(r)) \/ Fault \/ Tick

Spec == Init /\ [][Next]_vars

\* Fairness: time goes on, and so does every request, in a goroutine of its own.
FairSpec == Spec /\ WF_vars(Tick) /\ \A r \in Reqs : WF_vars(Step(r))

----------------------------------------------------------------------------
(* Properties.                                                             *)

\* Every variable keeps its shape: no token outlives the lifetime of its kind.
TypeOK ==
  /\ key \in [Sessions -> 0..RefreshTTL]
  /\ refresh \in [Sessions -> 0..RefreshTTL]
  /\ access \in [Sessions -> SUBSET (1..AccessTTL)]
  /\ used \subseteq Sessions
  /\ given \subseteq Sessions
  /\ pc \in [Reqs -> At]
  /\ call \in [Reqs -> Call]
  /\ loggedOut \subseteq Sessions
  /\ gone \subseteq Sessions
  /\ quiet \in [Sessions -> 0..AccessTTL]

\* Once a logout was answered with success no refresh that comes later finds
\* both its token and its key, through lost answers, racing refreshes and the
\* early answer to an expired token: nothing brings a session back.
LogoutFinal ==
  \A j \in loggedOut : ~(RefreshParses(j) /\ key[j] > 0)

\* JWTAuth never asks Redis, and a refresh that looked for the key just before
\* the logout still signs a token after it.  All the same, one access token
\* lifetime after the logout was answered and the refreshes that came before it
\* have ended, no access token of the session is accepted any more.
AccessBounded ==
  \A j \in loggedOut : quiet[j] = AccessTTL => ~Authorized(j)

\* The key is there as long as the token is, unless it was deleted by a logout
\* of this very session or lost by Redis: a client that was answered is never
\* logged out by the clock, or by a logout of another session.
HonouredUntilExpiry ==
  \A j \in Sessions : refresh[j] <= key[j] \/ j \in gone

\* A refresh does not prolong the session: every login comes to an end, however
\* often its token is used and whether or not there is a logout.
SessionsEnd ==
  \A j \in Sessions : (j \in given) ~> [](~RefreshParses(j) /\ ~Authorized(j))
=============================================================================
