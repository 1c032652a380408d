--------------------------- MODULE DocumentLife ----------------------------
(***************************************************************************)
(* What the document service promises about the life of one document, and  *)
(* nothing about the stores it keeps it in.  A document begins, is merged  *)
(* at most once, may be removed at any point and never comes back.  An     *)
(* ingest is asked for only once the file is whole, a cleanup only once    *)
(* the document is gone, and a caller is told so only after it happened.   *)
(***************************************************************************)
CONSTANT DocIds

VARIABLES phase,     \* absent, uploading or merged
          gone,      \* removed from the users' sight
          ingest,    \* the documents an ingest was asked for
          cleanup,   \* the documents an index cleanup was asked for
          answered   \* <<call, document>> answered with success

vars == <<phase, gone, ingest, cleanup, answered>>

Init ==
  /\ phase = [d \in DocIds |-> "absent"]
  /\ gone = {}
  /\ ingest = {}
  /\ cleanup = {}
  /\ answered = {}

Begin(d) ==
  /\ phase[d] = "absent"
  /\ phase' = [phase EXCEPT ![d] = "uploading"]
  /\ UNCHANGED <<gone, ingest, cleanup, answered>>

Merge(d) ==
  /\ phase[d] = "uploading"
  /\ phase' = [phase EXCEPT ![d] = "merged"]
  /\ UNCHANGED <<gone, ingest, cleanup, answered>>

Remove(d) ==
  /\ phase[d] # "absent"
  /\ gone' = gone \cup {d}
  /\ UNCHANGED <<phase, ingest, cleanup, answered>>

\* The caller may be answered by the same step, or never.
AskIngest(d) ==
  /\ phase[d] = "merged"
  /\ ingest' = ingest \cup {d}
  /\ answered' \in {answered, answered \cup {<<"complete", d>>}}
  /\ UNCHANGED <<phase, gone, cleanup>>

AskCleanup(d) ==
  /\ d \in gone
  /\ cleanup' = cleanup \cup {d}
  /\ answered' \in {answered, answered \cup {<<"delete", d>>}}
  /\ UNCHANGED <<phase, gone, ingest>>

\* A completed upload is answered again, as long as it is in sight.
AnswerMerged(d) ==
  /\ phase[d] = "merged"
  /\ d \notin gone
  /\ answered' = answered \cup {<<"complete", d>>}
  /\ UNCHANGED <<phase, gone, ingest, cleanup>>

Next ==
  \E d \in DocIds :
    Begin(d) \/ Merge(d) \/ Remove(d) \/ AskIngest(d) \/ AskCleanup(d) \/ AnswerMerged(d)

Spec == Init /\ [][Next]_vars
=============================================================================
