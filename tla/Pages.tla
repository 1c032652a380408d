-------------------------------- MODULE Pages ------------------------------
(***************************************************************************)
(* The list of a user's documents, read page by page while documents are   *)
(* created and deleted.                                                    *)
(*                                                                         *)
(* ListByOwner is two queries without a transaction: it counts, then takes *)
(* a slice of the rows ordered by created_at, newest first.  The column    *)
(* holds whole seconds, and rows of one second come in any order, another  *)
(* one in each query.  The client is not in the repository: it asks for    *)
(* page after page until an answer holds fewer items than the size the     *)
(* answer states, or none.                                                 *)
(***************************************************************************)
EXTENDS Integers, FiniteSets

CONSTANTS
  DocIds,        \* documents of the user
  AskSizes,      \* sizes a client asks for
  DefaultSize,   \* 20 in the code
  MaxSize,       \* 100 in the code
  MaxSecond      \* bound: the clock

ASSUME SizesAssumption ==
  /\ DefaultSize \in Nat \ {0} /\ MaxSize \in Nat \ {0} /\ DefaultSize <= MaxSize
  /\ AskSizes \subseteq Int
ASSUME DocIdsAssumption == IsFiniteSet(DocIds)
ASSUME MaxSecondAssumption == MaxSecond \in Nat \ {0}

VARIABLES
  second,    \* the clock
  created,   \* per document, created_at; 0: there is no row yet
  live,      \* the rows with deleted_at IS NULL
  at,        \* what the client's walk does next
  page,      \* the page asked for
  size,      \* the size asked for, which the answer repeats
  total,     \* the last answer's total
  items,     \* the last answer's items
  seen,      \* history: per document, on how many pages of this walk it was, to 2
  stayed,    \* history: the documents live since the walk began
  made,      \* history: the documents created during the walk
  removed,   \* history: the documents deleted during the walk
  drift      \* history: rows that came, less those that went, between the last
             \* answer's two queries

rows == <<second, created, live>>
client == <<at, page, size, total, items, seen>>
vars == <<second, created, live, at, page, size, total, items, seen,
          stayed, made, removed, drift>>

----------------------------------------------------------------------------
Least(m, n) == IF m < n THEN m ELSE n

\* Mutant of NormalPage: pages count from 0.
NormalPageFromZero(p) == IF p < 0 THEN 1 ELSE p + 1

\* Mutant of NormalSize: no upper limit.
NormalSizeUnlimited(s) == IF s < 1 THEN DefaultSize ELSE s

\* ListDocuments puts its arguments right; the answer repeats them as they came.
NormalPage(p) == IF p < 1 THEN 1 ELSE p
NormalSize(s) == IF s < 1 \/ s > MaxSize THEN DefaultSize ELSE s

Offset == (NormalPage(page) - 1) * NormalSize(size)

\* Mutant of Front: no ORDER BY.
FrontUnordered(n) == {F \in SUBSET live : Cardinality(F) = Least(n, Cardinality(live))}

\* The first n rows, in any order that created_at DESC allows.
Front(n) ==
  {F \in SUBSET live :
     /\ Cardinality(F) = Least(n, Cardinality(live))
     /\ \A d \in F, e \in live \ F : created[d] >= created[e]}

Init ==
  /\ second = 1
  /\ created = [d \in DocIds |-> 0]
  /\ live = {}
  /\ at = "idle"
  /\ page = 1
  /\ size \in AskSizes
  /\ total = 0
  /\ items = {}
  /\ seen = [d \in DocIds |-> 0]
  /\ stayed = {}
  /\ made = {}
  /\ removed = {}
  /\ drift = 0

----------------------------------------------------------------------------
(* What other requests of the user do, and the clock.                      *)

Walking == at # "idle"

Drifts(n) == drift' = IF at = "find" THEN drift + n ELSE drift

\* created_at is set by the API when it builds the INSERT; the row is there
\* later.
Create(d, t) ==
  /\ created[d] = 0
  /\ created' = [created EXCEPT ![d] = t]
  /\ live' = live \cup {d}
  /\ made' = IF Walking THEN made \cup {d} ELSE made
  /\ Drifts(1)
  /\ UNCHANGED <<second, client, stayed, removed>>

SoftDelete(d) ==
  /\ d \in live
  /\ live' = live \ {d}
  /\ stayed' = stayed \ {d}
  /\ removed' = IF Walking THEN removed \cup {d} ELSE removed
  /\ Drifts(-1)
  /\ UNCHANGED <<second, created, client, made>>

Tick ==
  /\ second < MaxSecond
  /\ second' = second + 1
  /\ UNCHANGED <<created, live, client, stayed, made, removed, drift>>

----------------------------------------------------------------------------
(* A walk over the pages.                                                  *)

StartWalk ==
  /\ at = "idle"
  /\ at' = "count"
  /\ page' = 1
  /\ size' \in AskSizes
  /\ items' = {}
  /\ seen' = [d \in DocIds |-> 0]
  /\ stayed' = live
  /\ made' = {}
  /\ removed' = {}
  /\ UNCHANGED <<rows, total, drift>>

\* Mutant of Count: deleted rows are counted too.
CountAll ==
  /\ at = "count"
  /\ total' = Cardinality({d \in DocIds : created[d] # 0})
  /\ drift' = 0
  /\ at' = "find"
  /\ UNCHANGED <<rows, page, size, items, seen, stayed, made, removed>>

Count ==
  /\ at = "count"
  /\ total' = Cardinality(live)
  /\ drift' = 0
  /\ at' = "find"
  /\ UNCHANGED <<rows, page, size, items, seen, stayed, made, removed>>

Find ==
  /\ at = "find"
  /\ \E skipped \in Front(Offset), reached \in Front(Offset + NormalSize(size)) :
       /\ skipped \subseteq reached
       /\ items' = reached \ skipped
  /\ seen' = [d \in DocIds |-> IF d \in items' THEN Least(seen[d] + 1, 2) ELSE seen[d]]
  /\ at' = "answer"
  /\ UNCHANGED <<rows, page, size, total, stayed, made, removed, drift>>

LastPage == items = {} \/ Cardinality(items) < size

NextPage ==
  /\ at = "answer"
  /\ ~LastPage
  /\ page' = page + 1
  /\ at' = "count"
  /\ UNCHANGED <<rows, size, total, items, seen, stayed, made, removed, drift>>

EndWalk ==
  /\ at = "answer"
  /\ LastPage
  /\ at' = "done"
  /\ UNCHANGED <<rows, page, size, total, items, seen, stayed, made, removed, drift>>

Leave ==
  /\ at = "done"
  /\ at' = "idle"
  /\ UNCHANGED <<rows, page, size, total, items, seen, stayed, made, removed, drift>>

Next ==
  \/ \E d \in DocIds : SoftDelete(d) \/ \E t \in 1..second : Create(d, t)
  \/ Tick
  \/ StartWalk \/ Count \/ Find \/ NextPage \/ EndWalk \/ Leave

Spec == Init /\ [][Next]_vars

----------------------------------------------------------------------------
(* Properties.                                                             *)

\* Every variable keeps its shape, and no answer holds more than MaxSize items.
TypeOK ==
  /\ second \in 1..MaxSecond
  /\ created \in [DocIds -> 0..MaxSecond]
  /\ live \subseteq {d \in DocIds : created[d] # 0}
  /\ at \in {"idle", "count", "find", "answer", "done"}
  /\ page \in 1..(Cardinality(DocIds) + 1)
  /\ size \in AskSizes
  /\ total \in 0..Cardinality(DocIds)
  /\ items \subseteq DocIds /\ Cardinality(items) <= MaxSize
  /\ seen \in [DocIds -> 0..2]
  /\ stayed \subseteq live
  /\ made \subseteq DocIds
  /\ removed \subseteq DocIds
  /\ drift \in Int

\* Another document of the same second, whose place among the pages changes
\* from query to query.
Tied(d) == \E e \in DocIds \ {d} : created[e] = created[d]

\* A document that was there during the whole walk is missed for three reasons
\* only: a newer one was deleted meanwhile and the pages moved up, it shares its
\* second with another one, or the client asked for more than MaxSize, got
\* DefaultSize, and was told in the answer that its size was used.
MissedOnlyWhenShifted ==
  at = "done" =>
    \A d \in stayed :
      seen[d] = 0 =>
        \/ \E e \in removed : created[e] > created[d]
        \/ Tied(d)
        \/ size > MaxSize

\* A document is on two pages of a walk for two reasons only: a newer one was
\* created meanwhile and the pages moved down, or it shares its second.
RepeatedOnlyWhenShifted ==
  \A d \in DocIds :
    seen[d] = 2 =>
      \/ \E e \in made : created[e] > created[d]
      \/ Tied(d)

\* An answer's total and its items may disagree by the rows that came and went
\* between the two queries, and by nothing else: corrected for them, the total
\* says to the row how many items the page has.
TotalMatchesItems ==
  at = "answer" =>
    LET found == total + drift
    IN  IF found <= Offset THEN items = {}
        ELSE Cardinality(items) = Least(NormalSize(size), found - Offset)
=============================================================================
