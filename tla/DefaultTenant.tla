---------------------------- MODULE DefaultTenant --------------------------
(***************************************************************************)
(* What accounts promise about a user's default tenant, where uploads go   *)
(* that name none, and nothing about rows, flags and transactions: there   *)
(* is none at first, then always exactly one, one the user is a member of. *)
(* It changes at once, and a caller is told so only after it happened.     *)
(***************************************************************************)
CONSTANTS Users, Tags, None

VARIABLES member,    \* per user, the tenants the user belongs to
          chosen,    \* per user, the default among them
          answered   \* <<call, user, tenant>> answered with success

vars == <<member, chosen, answered>>

Init ==
  /\ member = [u \in Users |-> {}]
  /\ chosen = [u \in Users |-> None]
  /\ answered = {}

Settle(u, t, op) ==
  /\ chosen' = [chosen EXCEPT ![u] = t]
  /\ answered' \in {answered, answered \cup {<<op, u, t>>}}

\* The user gets a tenant of his own, for the default.
Open(u, t) ==
  /\ member' = [member EXCEPT ![u] = @ \cup {t}]
  /\ Settle(u, t, "register")

Choose(u, t) ==
  /\ t \in member[u]
  /\ Settle(u, t, "setPrimary")
  /\ UNCHANGED member

Join(u, t) ==
  /\ member' = [member EXCEPT ![u] = @ \cup {t}]
  /\ UNCHANGED <<chosen, answered>>

Next == \E u \in Users, t \in Tags : Open(u, t) \/ Choose(u, t) \/ Join(u, t)

Spec == Init /\ [][Next]_vars
=============================================================================
