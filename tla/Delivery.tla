------------------------------ MODULE Delivery -----------------------------
(***************************************************************************)
(* What the worker promises about the messages of the topic: none is       *)
(* passed over, and within a partition none is settled (handled, or put    *)
(* aside on the dead letter topic) before the ones published ahead of it.  *)
(* A message may be settled again.                                         *)
(***************************************************************************)
EXTENDS Integers

CONSTANT Partitions

VARIABLES published,   \* per partition, how many messages it has had
          settled,     \* <<partition, offset>> handled or dead-lettered
          committed    \* per partition, the offset reading resumes from

vars == <<published, settled, committed>>

Init ==
  /\ published = [p \in Partitions |-> 0]
  /\ settled = {}
  /\ committed = [p \in Partitions |-> 0]

Publish(p) ==
  /\ published' = [published EXCEPT ![p] = @ + 1]
  /\ UNCHANGED <<settled, committed>>

Settle(p, k) ==
  /\ k < published[p]
  /\ \A j \in 0..(k - 1) : <<p, j>> \in settled
  /\ settled' = settled \cup {<<p, k>>}
  /\ UNCHANGED <<published, committed>>

\* It may go back: an offset committed late by a reader that lost the partition.
Commit(p, k) ==
  /\ k < published[p]
  /\ \A j \in 0..k : <<p, j>> \in settled
  /\ committed' = [committed EXCEPT ![p] = k + 1]
  /\ UNCHANGED <<published, settled>>

Next ==
  \E p \in Partitions :
    \/ Publish(p)
    \/ \E k \in 0..(published[p] - 1) : Settle(p, k) \/ Commit(p, k)

Spec == Init /\ [][Next]_vars
=============================================================================
