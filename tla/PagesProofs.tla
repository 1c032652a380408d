----------------------------- MODULE PagesProofs ---------------------------
(* Theorems of Pages, for any finite set of documents, any sizes and any   *)
(* number of seconds.                                                      *)
EXTENDS Pages, FiniteSetTheorems, TLAPS

\* The rows that come before a document, whichever order a query picks.
Newer(d) == {e \in live : created[e] > created[d]}
Ahead(d) == Cardinality(Newer(d))

\* What excuses that a document is missed, and that it is repeated.
MovedUp(d) == (\E e \in removed : created[e] > created[d]) \/ Tied(d)
MovedDown(d) == (\E e \in made : created[e] > created[d]) \/ Tied(d)

\* How many rows there are up to the end of the page asked for.
End == Offset + NormalSize(size)

\* A document that was there all the time and not on a page yet lies behind the
\* pages the client has, and a client that has such a document in front of it
\* goes on, unless it misreads the size.
NotYet(d) ==
  /\ at \in {"count", "find"} => Ahead(d) >= Offset
  /\ at = "answer" => Ahead(d) >= End /\ Cardinality(items) = NormalSize(size)
  /\ at = "done" => size > MaxSize

MissedInv == \A d \in stayed : seen[d] = 0 => MovedUp(d) \/ NotYet(d)

\* A document that was on a page lies before the pages to come.
Past(d) ==
  /\ seen[d] = 1
  /\ at \in {"count", "find"} => Ahead(d) < Offset
  /\ at = "answer" => Ahead(d) < End

RepeatedInv ==
  \A d \in DocIds : seen[d] # 0 => created[d] # 0 /\ (MovedDown(d) \/ Past(d))

\* The total is what it was counted to be, and the drift what came of it; only a page that is not behind the
\* last row holds items.
AnswerInv ==
  /\ at = "find" => total + drift = Cardinality(live)
  /\ TotalMatchesItems
  /\ at = "answer" /\ items # {} => page <= Cardinality(DocIds)

Inv == TypeOK /\ AnswerInv /\ MissedInv /\ RepeatedInv

USE SizesAssumption, DocIdsAssumption, MaxSecondAssumption

----------------------------------------------------------------------------
(* Rows, fronts and offsets.                                               *)

\* Any set of documents is finite and has at most as many as there are.
LEMMA DocSets ==
  ASSUME NEW S \in SUBSET DocIds
  PROVE  IsFiniteSet(S) /\ Cardinality(S) \in 0..Cardinality(DocIds)
  <1>1. IsFiniteSet(S) /\ Cardinality(S) <= Cardinality(DocIds)
    BY FS_Subset
  <1>2. Cardinality(S) \in Nat /\ Cardinality(DocIds) \in Nat
    BY <1>1, FS_CardinalityType
  <1> QED BY <1>1, <1>2

\* The size ListDocuments uses is a positive one up to the largest.
LEMMA SizeUsed == ASSUME TypeOK PROVE NormalSize(size) \in 1..MaxSize
  BY DEF TypeOK, NormalSize

\* Offsets count rows, and the end of a page is the offset of the next.
LEMMA Offsets ==
  ASSUME TypeOK
  PROVE  /\ Offset \in Nat /\ End \in Nat /\ Offset >= page - 1
         /\ page * NormalSize(size) = End
  <1>1. page \in Nat \ {0} /\ NormalPage(page) = page
    BY DocSets DEF TypeOK, NormalPage
  <1>2. NormalSize(size) \in Nat \ {0}
    BY SizeUsed
  <1>3. \A m \in Nat, n \in Nat \ {0} : m * n \in Nat /\ m * n >= m
    OBVIOUS
  <1>4. \A m \in Nat \ {0}, n \in Nat : m * n = (m - 1) * n + n
    OBVIOUS
  <1>5. page - 1 \in Nat /\ Offset = (page - 1) * NormalSize(size)
    BY <1>1 DEF Offset
  <1>6. Offset \in Nat /\ Offset >= page - 1
    BY <1>2, <1>3, <1>5
  <1>7. page * NormalSize(size) = Offset + NormalSize(size)
    BY <1>1, <1>2, <1>4, <1>5
  <1> QED BY <1>2, <1>6, <1>7 DEF End

\* A front has as many rows as it was asked for, unless it has them all.
LEMMA FrontSize ==
  ASSUME TypeOK, NEW n \in Nat, NEW F \in Front(n)
  PROVE  /\ F \subseteq live /\ F \subseteq DocIds
         /\ Cardinality(F) = Least(n, Cardinality(live))
         /\ Cardinality(F) \in Nat /\ Cardinality(F) <= n
         /\ F # live => Cardinality(F) = n
  <1>1. live \in SUBSET DocIds /\ F \in SUBSET live
    BY DEF TypeOK, Front
  <1>2. Cardinality(live) \in Nat /\ Cardinality(F) \in Nat /\ IsFiniteSet(live)
    BY <1>1, DocSets
  <1>3. Cardinality(F) = Least(n, Cardinality(live))
    BY DEF Front
  <1>4. Cardinality(live) = Cardinality(F) => live = F
    BY <1>1, <1>2, FS_Subset
  <1> QED BY <1>1, <1>2, <1>3, <1>4 DEF Least

\* Without a tie, a document in a front has fewer rows ahead than the front has.
LEMMA InFront ==
  ASSUME TypeOK, NEW n \in Nat, NEW F \in Front(n), NEW d \in F, ~Tied(d)
  PROVE  Ahead(d) < n
  <1>1. F \in SUBSET live /\ F \in SUBSET DocIds /\ Cardinality(F) \in Nat /\ Cardinality(F) <= n
    BY FrontSize
  <1>2. \A e \in Newer(d) : e \in F
    BY <1>1 DEF Newer, Front, TypeOK
  <1>3. d \notin Newer(d)
    BY <1>1 DEF Newer, TypeOK
  <1>4. Newer(d) \in SUBSET DocIds
    BY <1>1, <1>2
  <1>5. Cardinality(Newer(d) \cup {d}) = Ahead(d) + 1
    BY <1>3, <1>4, DocSets, FS_AddElement DEF Ahead
  <1>6. Newer(d) \cup {d} \in SUBSET F
    BY <1>2
  <1>7. Cardinality(Newer(d) \cup {d}) <= Cardinality(F)
    BY <1>1, <1>6, DocSets, FS_Subset
  <1>8. Ahead(d) \in Nat
    BY <1>4, DocSets DEF Ahead
  <1> QED BY <1>1, <1>5, <1>7, <1>8

\* Without a tie, a row outside a front has the whole front ahead.
LEMMA OutOfFront ==
  ASSUME TypeOK, NEW n \in Nat, NEW F \in Front(n), NEW d \in live \ F, ~Tied(d)
  PROVE  Ahead(d) >= n
  <1>1. F \in SUBSET live /\ F \in SUBSET DocIds /\ Cardinality(F) = n
    BY FrontSize
  <1>2. live \in SUBSET DocIds /\ d \in DocIds
    BY DEF TypeOK
  <1>3. \A e \in F : e \in Newer(d)
    <2> SUFFICES ASSUME NEW e \in F PROVE e \in Newer(d)
      OBVIOUS
    <2>1. created[e] >= created[d] /\ e # d
      BY DEF Front
    <2>2. created[e] # created[d]
      BY <1>1, <1>2, <2>1 DEF Tied
    <2>3. created[e] \in Nat /\ created[d] \in Nat
      BY <1>1, <1>2 DEF TypeOK
    <2> QED BY <1>1, <2>1, <2>2, <2>3 DEF Newer
  <1>4. Newer(d) \in SUBSET DocIds
    BY <1>2 DEF Newer
  <1>5. IsFiniteSet(Newer(d)) /\ Ahead(d) \in Nat
    BY <1>4, DocSets DEF Ahead
  <1> QED BY <1>1, <1>3, <1>5, FS_Subset DEF Ahead

\* How many rows are ahead is a number.
LEMMA AheadType == ASSUME TypeOK, NEW d PROVE Ahead(d) \in Nat
  <1>1. Newer(d) \in SUBSET DocIds
    BY DEF Newer, TypeOK
  <1> QED BY <1>1, DocSets DEF Ahead

----------------------------------------------------------------------------
(* Init and the steps.                                                     *)

\* The initial state satisfies the inductive invariant.
LEMMA InitInv == Init => Inv
  <1> SUFFICES ASSUME Init PROVE Inv
    OBVIOUS
  <1>1. Cardinality({}) = 0 /\ Cardinality(DocIds) \in Nat
    BY FS_EmptySet, DocSets
  <1>2. TypeOK
    <2>1. Cardinality(items) <= MaxSize
      BY <1>1 DEF Init
    <2>2. second \in 1..MaxSecond /\ page \in 1..(Cardinality(DocIds) + 1) /\ total \in 0..Cardinality(DocIds)
      BY <1>1 DEF Init
    <2>3. created \in [DocIds -> 0..MaxSecond] /\ seen \in [DocIds -> 0..2]
      BY DEF Init
    <2>4. /\ live \subseteq {d \in DocIds : created[d] # 0} /\ items \subseteq DocIds
          /\ stayed \subseteq live /\ made \subseteq DocIds /\ removed \subseteq DocIds
      BY DEF Init
    <2> QED BY <2>1, <2>2, <2>3, <2>4 DEF Init, TypeOK
  <1>3. AnswerInv /\ MissedInv /\ RepeatedInv
    BY DEF Init, AnswerInv, TotalMatchesItems, MissedInv, RepeatedInv
  <1> QED BY <1>2, <1>3 DEF Inv

\* What the second query returns: the rows of the page, as many as there are.
LEMMA FindItems ==
  ASSUME TypeOK, Find
  PROVE  \E skipped \in Front(Offset), reached \in Front(End) :
           /\ skipped \subseteq reached /\ items' = reached \ skipped
           /\ Cardinality(items') = Cardinality(reached) - Cardinality(skipped)
           /\ Cardinality(reached) = Least(End, Cardinality(live))
           /\ Cardinality(skipped) = Least(Offset, Cardinality(live))
  <1>1. PICK skipped \in Front(Offset), reached \in Front(End) :
          skipped \subseteq reached /\ items' = reached \ skipped
    BY DEF Find, End
  <1>2. /\ reached \in SUBSET DocIds /\ skipped \in SUBSET DocIds
        /\ Cardinality(reached) = Least(End, Cardinality(live))
        /\ Cardinality(skipped) = Least(Offset, Cardinality(live))
    BY Offsets, FrontSize
  <1>3. items' \in SUBSET DocIds /\ items' \cap skipped = {} /\ items' \cup skipped = reached
    BY <1>1, <1>2
  <1>4. /\ Cardinality(reached) = Cardinality(items') + Cardinality(skipped) - Cardinality({})
        /\ Cardinality({}) = 0
    BY <1>2, <1>3, DocSets, FS_Union, FS_EmptySet
  <1>5. Cardinality(items') \in Nat /\ Cardinality(skipped) \in Nat
    BY <1>2, <1>3, DocSets
  <1> QED BY <1>1, <1>2, <1>4, <1>5

\* A page has at most NormalSize items, and items only before the last row.
LEMMA FindBounds ==
  ASSUME TypeOK, Find
  PROVE  /\ items' \in SUBSET DocIds /\ Cardinality(items') <= NormalSize(size)
         /\ items' # {} => Offset < Cardinality(live)
         /\ IF Cardinality(live) <= Offset THEN items' = {}
            ELSE Cardinality(items') = Least(NormalSize(size), Cardinality(live) - Offset)
  <1>1. PICK skipped \in Front(Offset), reached \in Front(End) :
           /\ skipped \subseteq reached /\ items' = reached \ skipped
           /\ Cardinality(items') = Cardinality(reached) - Cardinality(skipped)
           /\ Cardinality(reached) = Least(End, Cardinality(live))
           /\ Cardinality(skipped) = Least(Offset, Cardinality(live))
    BY FindItems
  <1>2. items' \in SUBSET DocIds
    BY <1>1, FrontSize, Offsets
  <1>3. /\ IsFiniteSet(items') /\ Cardinality(items') \in Nat
        /\ Cardinality(items') = 0 <=> items' = {}
    BY <1>2, DocSets, FS_EmptySet
  <1>4. Cardinality(live) \in Nat
    BY DocSets DEF TypeOK
  <1>5. NormalSize(size) \in Nat /\ Offset \in Nat /\ End = Offset + NormalSize(size)
    BY SizeUsed, Offsets DEF End
  <1> DEFINE L == Cardinality(live)  N == NormalSize(size)  I == Cardinality(items')
  <1>6. I = Least(Offset + N, L) - Least(Offset, L)
    BY <1>1, <1>5
  <1> HIDE DEF L, N, I
  <1>7. L \in Nat /\ N \in Nat /\ Offset \in Nat /\ I \in Nat
    BY <1>3, <1>4, <1>5 DEF L, N, I
  <1>8. I <= N /\ IF L <= Offset THEN I = 0 ELSE I = Least(N, L - Offset)
    BY <1>6, <1>7 DEF Least
  <1>9. /\ I = 0 <=> items' = {}
    BY <1>3 DEF I
  <1>10. items' # {} => Offset < L
    BY <1>7, <1>8, <1>9
  <1> QED BY <1>2, <1>8, <1>9, <1>10 DEF L, N, I

\* A walk goes on only to a page that may hold a row.
LEMMA TypeStep == Inv /\ [Next]_vars => TypeOK'
  <1> SUFFICES ASSUME Inv, [Next]_vars PROVE TypeOK'
    OBVIOUS
  <1> TypeOK /\ AnswerInv
    BY DEF Inv
  <1> USE DEF TypeOK, rows, client
  <1>0. Cardinality(DocIds) \in Nat
    BY DocSets
  <1>1. ASSUME NEW d \in DocIds, SoftDelete(d) PROVE TypeOK'
    BY <1>1 DEF SoftDelete, Drifts
  <1>2. ASSUME NEW d \in DocIds, NEW t \in 1..second, Create(d, t) PROVE TypeOK'
    BY <1>2 DEF Create, Drifts
  <1>3. CASE Tick
    BY <1>3 DEF Tick
  <1>4. CASE StartWalk
    BY <1>0, <1>4, FS_EmptySet DEF StartWalk
  <1>5. CASE Count
    BY <1>5, DocSets DEF Count
  <1>6. CASE Find
    <2>1. items' \in SUBSET DocIds /\ Cardinality(items') <= MaxSize
      <3>1. Cardinality(items') \in Nat
        BY <1>6, FindBounds, DocSets
      <3> QED BY <1>6, <3>1, FindBounds, SizeUsed
    <2>2. seen' \in [DocIds -> 0..2]
      BY <1>6 DEF Find, Least
    <2> QED BY <1>6, <2>1, <2>2 DEF Find
  <1>7. CASE NextPage
    <2>1. page <= Cardinality(DocIds)
      BY <1>7 DEF NextPage, LastPage, AnswerInv
    <2> QED BY <1>0, <1>7, <2>1 DEF NextPage
  <1>8. CASE EndWalk \/ Leave
    BY <1>8 DEF EndWalk, Leave
  <1>9. CASE UNCHANGED vars
    BY <1>9 DEF vars
  <1> QED BY <1>1, <1>2, <1>3, <1>4, <1>5, <1>6, <1>7, <1>8, <1>9 DEF Next

\* An answer is about the rows its first query counted.
LEMMA AnswerStep == Inv /\ [Next]_vars => AnswerInv'
  <1> SUFFICES ASSUME Inv, [Next]_vars PROVE AnswerInv'
    OBVIOUS
  <1> TypeOK /\ AnswerInv
    BY DEF Inv
  <1> USE DEF rows, client, AnswerInv
  <1>1. CASE Find
    <2>1. items' # {} => page <= Cardinality(DocIds)
      <3>1. Cardinality(live) \in 0..Cardinality(DocIds) /\ Cardinality(DocIds) \in Nat
        BY DocSets DEF TypeOK
      <3>2. page \in Nat
        BY <3>1 DEF TypeOK
      <3> QED BY <1>1, <3>1, <3>2, FindBounds, Offsets
    <2>2. /\ page' = page /\ size' = size /\ total' = total /\ drift' = drift
          /\ at = "find" /\ at' = "answer"
      BY <1>1 DEF Find
    <2>3. Offset' = Offset
      BY <2>2 DEF Offset
    <2>4. total' + drift' = Cardinality(live)
      BY <2>2
    <2>5. TotalMatchesItems'
      BY <1>1, <2>2, <2>3, <2>4, FindBounds DEF TotalMatchesItems
    <2> QED BY <2>1, <2>2, <2>5
  <1>2. CASE Count
    <2>1. at' = "find" /\ total' = Cardinality(live) /\ drift' = 0 /\ live' = live
      BY <1>2 DEF Count
    <2>2. Cardinality(live) \in Nat
      BY DocSets DEF TypeOK
    <2> QED BY <2>1, <2>2 DEF TotalMatchesItems
  <1>3. CASE StartWalk \/ NextPage \/ EndWalk \/ Leave
    BY <1>3 DEF StartWalk, NextPage, EndWalk, Leave, TotalMatchesItems
  <1>4. CASE UNCHANGED client /\ UNCHANGED drift /\ (UNCHANGED live \/ at # "find")
    BY <1>4 DEF TotalMatchesItems, Offset
  <1>5. ASSUME NEW d \in DocIds, NEW t \in 1..second, Create(d, t), at = "find"
        PROVE  AnswerInv'
    <2>1. UNCHANGED client /\ drift' = drift + 1 /\ live' = live \cup {d} /\ d \notin live
      BY <1>5 DEF Create, Drifts, TypeOK
    <2>2. Cardinality(live') = Cardinality(live) + 1 /\ Cardinality(live) \in Nat
      BY <2>1, DocSets, FS_AddElement DEF TypeOK
    <2>3. total \in Nat /\ drift \in Int
      BY DocSets DEF TypeOK
    <2> QED BY <1>5, <2>1, <2>2, <2>3 DEF TotalMatchesItems
  <1>6. ASSUME NEW d \in DocIds, SoftDelete(d), at = "find" PROVE AnswerInv'
    <2>1. UNCHANGED client /\ drift' = drift - 1 /\ live' = live \ {d} /\ d \in live
      BY <1>6 DEF SoftDelete, Drifts, TypeOK
    <2>2. Cardinality(live') = Cardinality(live) - 1 /\ Cardinality(live) \in Nat
      BY <2>1, DocSets, FS_RemoveElement DEF TypeOK
    <2>3. total \in Nat /\ drift \in Int
      BY DocSets DEF TypeOK
    <2> QED BY <1>6, <2>1, <2>2, <2>3 DEF TotalMatchesItems
  <1>7. CASE Tick \/ UNCHANGED vars
    BY <1>4, <1>7 DEF Tick, vars
  <1>8. ASSUME NEW d \in DocIds, SoftDelete(d) \/ \E t \in 1..second : Create(d, t), at # "find"
        PROVE  AnswerInv'
    BY <1>4, <1>8 DEF SoftDelete, Create, Drifts
  <1> QED BY <1>1, <1>2, <1>3, <1>5, <1>6, <1>7, <1>8 DEF Next

----------------------------------------------------------------------------
(* What creations and deletions do to the rows ahead.                      *)

\* A creation puts rows ahead of a document, and none that is not newer.
LEMMA CreateAhead ==
  ASSUME TypeOK, NEW x \in DocIds, NEW t \in 1..second, Create(x, t),
         NEW d \in DocIds, created[d] # 0
  PROVE  /\ created'[d] = created[d] /\ created'[x] = t
         /\ Tied(d) => Tied(d)'
         /\ \A e \in DocIds : created[e] > created[d] => created'[e] = created[e]
         /\ Ahead(d)' \in Nat /\ Ahead(d)' >= Ahead(d)
         /\ t <= created[d] => Ahead(d)' = Ahead(d)
  <1>1. /\ created'[x] = t /\ created[x] = 0 /\ live' = live \cup {x} /\ x # d
        /\ \A e \in DocIds \ {x} : created'[e] = created[e]
    BY DEF Create, TypeOK
  <1>2. created[d] \in Nat /\ t \in Nat /\ created[d] > 0 /\ live \in SUBSET DocIds
    BY DEF TypeOK
  <1>3. Newer(d) \subseteq Newer(d)' /\ Newer(d)' \in SUBSET DocIds
    BY <1>1, <1>2 DEF Newer
  <1>4. Ahead(d)' \in Nat /\ Ahead(d)' >= Ahead(d)
    BY <1>3, DocSets, FS_Subset DEF Ahead
  <1>5. t <= created[d] => Newer(d)' = Newer(d)
    BY <1>1, <1>2 DEF Newer
  <1>6. Tied(d) => Tied(d)'
    BY <1>1, <1>2 DEF Tied
  <1> QED BY <1>1, <1>2, <1>4, <1>5, <1>6 DEF Ahead

\* A deletion takes rows ahead of a document away, and only a newer one.
LEMMA DeleteAhead ==
  ASSUME TypeOK, NEW x \in DocIds, SoftDelete(x), NEW d \in DocIds
  PROVE  /\ Ahead(d)' \in Nat /\ Ahead(d)' <= Ahead(d)
         /\ ~(created[x] > created[d]) => Ahead(d)' = Ahead(d)
  <1>1. live' = live \ {x} /\ created' = created
    BY DEF SoftDelete
  <1>2. Newer(d)' \subseteq Newer(d) /\ Newer(d) \in SUBSET DocIds
    BY <1>1 DEF Newer, TypeOK
  <1>3. Ahead(d)' \in Nat /\ Ahead(d)' <= Ahead(d)
    BY <1>2, DocSets, FS_Subset DEF Ahead
  <1>4. ~(created[x] > created[d]) => Newer(d)' = Newer(d)
    BY <1>1 DEF Newer
  <1> QED BY <1>3, <1>4 DEF Ahead

\* A document missed so far and not moved up is on this page or behind a full one.
LEMMA FindMissed ==
  ASSUME TypeOK, Find, NEW d \in live, ~Tied(d), Ahead(d) >= Offset, d \notin items'
  PROVE  Ahead(d) >= End /\ Cardinality(items') = NormalSize(size)
  <1>1. PICK skipped \in Front(Offset), reached \in Front(End) :
           /\ skipped \subseteq reached /\ items' = reached \ skipped
           /\ Cardinality(items') = Cardinality(reached) - Cardinality(skipped)
    BY FindItems
  <1>2. Offset \in Nat /\ End \in Nat /\ Ahead(d) \in Nat /\ NormalSize(size) \in Nat
    BY Offsets, AheadType, SizeUsed
  <1>3. d \notin skipped
    BY <1>2, InFront
  <1>4. d \in live \ reached /\ d \in live \ skipped
    BY <1>1, <1>3
  <1>5. Cardinality(reached) = End /\ Cardinality(skipped) = Offset
    BY <1>2, <1>4, FrontSize
  <1>6. Ahead(d) >= End
    BY <1>2, <1>4, OutOfFront
  <1> QED BY <1>1, <1>2, <1>5, <1>6 DEF End

\* A page holds the rows between its offset and its end.
LEMMA FindHits ==
  ASSUME TypeOK, Find, NEW d \in items', ~Tied(d)
  PROVE  d \in live /\ Ahead(d) >= Offset /\ Ahead(d) < End
  <1>1. PICK skipped \in Front(Offset), reached \in Front(End) : items' = reached \ skipped
    BY FindItems
  <1>2. Offset \in Nat /\ End \in Nat
    BY Offsets
  <1>3. d \in live
    BY <1>1, <1>2, FrontSize
  <1> QED BY <1>1, <1>2, <1>3, InFront, OutOfFront

----------------------------------------------------------------------------
(* Missed and repeated documents.                                          *)

\* Whatever happens, a document not seen yet stays behind the pages read, or is
\* excused.
LEMMA MissedStep == Inv /\ [Next]_vars => MissedInv'
  <1> SUFFICES ASSUME Inv, [Next]_vars, NEW d \in stayed', seen'[d] = 0, ~MovedUp(d)'
               PROVE  NotYet(d)'
    BY DEF MissedInv
  <1> TypeOK /\ MissedInv
    BY DEF Inv
  <1> USE DEF rows, client
  <1>0. /\ Offset \in Nat /\ End \in Nat /\ NormalSize(size) \in 1..MaxSize
        /\ page * NormalSize(size) = End
    BY Offsets, SizeUsed
  <1>1. ASSUME NEW x \in DocIds, SoftDelete(x) PROVE NotYet(d)'
    <2>1. CASE at = "idle"
      BY <1>1, <2>1 DEF SoftDelete, NotYet
    <2>2. CASE at # "idle"
      <3>1. /\ d \in stayed /\ d \in DocIds /\ removed' = removed \cup {x}
            /\ created' = created /\ at' = at /\ page' = page /\ size' = size /\ items' = items
            /\ seen' = seen
        BY <1>1, <2>2 DEF SoftDelete, Walking, TypeOK
      <3>2. ~MovedUp(d) /\ ~(created[x] > created[d])
        BY <3>1 DEF MovedUp, Tied
      <3>3. Ahead(d)' = Ahead(d)
        BY <1>1, <3>1, <3>2, DeleteAhead
      <3>4. NotYet(d)
        BY <3>1, <3>2 DEF MissedInv
      <3> QED BY <3>1, <3>3, <3>4 DEF NotYet, Offset, End
    <2> QED BY <2>1, <2>2
  <1>2. ASSUME NEW x \in DocIds, NEW t \in 1..second, Create(x, t) PROVE NotYet(d)'
    <2>1. /\ d \in stayed /\ d \in DocIds /\ created[d] # 0 /\ removed' = removed
          /\ at' = at /\ page' = page /\ size' = size /\ items' = items /\ seen' = seen
      BY <1>2 DEF Create, TypeOK
    <2>2. /\ Ahead(d)' \in Nat /\ Ahead(d)' >= Ahead(d) /\ created'[d] = created[d]
          /\ Tied(d) => Tied(d)'
          /\ \A e \in DocIds : created[e] > created[d] => created'[e] = created[e]
      BY <1>2, <2>1, CreateAhead
    <2>3. ~MovedUp(d)
      BY <2>1, <2>2 DEF MovedUp, TypeOK
    <2>4. NotYet(d)
      BY <2>1, <2>3 DEF MissedInv
    <2>5. Ahead(d) \in Nat
      BY AheadType
    <2>6. Offset' = Offset /\ End' = End
      BY <2>1 DEF Offset, End
    <2> QED BY <1>0, <2>1, <2>2, <2>4, <2>5, <2>6 DEF NotYet
  <1>3. CASE StartWalk
    <2>1. TypeOK' /\ at' = "count" /\ page' = 1
      BY <1>3, TypeStep DEF StartWalk
    <2>2. Offset' = 0
      <3>1. NormalSize(size)' \in Int
        BY <2>1 DEF TypeOK, NormalSize
      <3>2. NormalPage(page)' = 1
        BY <2>1 DEF NormalPage
      <3>3. \A n \in Int : (1 - 1) * n = 0
        OBVIOUS
      <3> QED BY <3>1, <3>2, <3>3 DEF Offset
    <2>3. Ahead(d)' \in Nat
      <3>1. Newer(d)' \in SUBSET DocIds
        BY <2>1 DEF Newer, TypeOK
      <3> QED BY <3>1, DocSets DEF Ahead
    <2> QED BY <2>1, <2>2, <2>3 DEF NotYet
  <1>4. CASE Find
    <2>1. /\ d \in stayed /\ d \in DocIds /\ d \in live /\ at = "find" /\ at' = "answer"
          /\ removed' = removed /\ live' = live /\ created' = created
          /\ page' = page /\ size' = size
      BY <1>4 DEF Find, TypeOK
    <2>2. d \notin items' /\ seen[d] = 0
      BY <1>4, <2>1 DEF Find, TypeOK, Least
    <2>3. ~MovedUp(d) /\ ~Tied(d)
      BY <2>1 DEF MovedUp, Tied
    <2>4. Ahead(d) >= Offset
      BY <2>1, <2>2, <2>3 DEF MissedInv, NotYet
    <2>5. Ahead(d) >= End /\ Cardinality(items') = NormalSize(size)
      BY <1>4, <2>1, <2>2, <2>3, <2>4, FindMissed
    <2>6. Ahead(d)' = Ahead(d) /\ End' = End
      BY <2>1 DEF Ahead, Newer, End, Offset
    <2> QED BY <2>1, <2>5, <2>6 DEF NotYet
  <1>5. CASE Count \/ NextPage \/ EndWalk \/ Leave \/ Tick \/ UNCHANGED vars
    <2>1. /\ d \in stayed /\ removed' = removed /\ live' = live /\ created' = created
          /\ seen' = seen /\ size' = size /\ items' = items
      BY <1>5 DEF Count, NextPage, EndWalk, Leave, Tick, vars
    <2>2. ~MovedUp(d) /\ Ahead(d)' = Ahead(d)
      BY <2>1 DEF MovedUp, Tied, Ahead, Newer
    <2>3. NotYet(d)
      BY <2>1, <2>2 DEF MissedInv
    <2>4. CASE Count \/ Tick \/ UNCHANGED vars
      BY <2>1, <2>2, <2>3, <2>4 DEF Count, Tick, vars, NotYet, Offset, End
    <2>5. CASE NextPage
      <3>1. at = "answer" /\ at' = "count" /\ page' = page + 1
        BY <2>5 DEF NextPage
      <3>2. Offset' = End
        <4>1. page \in Nat /\ page + 1 >= 1
          BY DocSets DEF TypeOK
        <4>2. NormalPage(page)' = page + 1
          BY <3>1, <4>1 DEF NormalPage
        <4>3. NormalSize(size)' = NormalSize(size) /\ NormalSize(size) \in Nat
          BY <2>1, SizeUsed DEF NormalSize
        <4>4. Offset' = page * NormalSize(size)
          BY <4>1, <4>2, <4>3 DEF Offset
        <4> QED BY <1>0, <4>4
      <3> QED BY <2>2, <2>3, <3>1, <3>2 DEF NotYet
    <2>6. CASE EndWalk
      <3>1. at = "answer" /\ at' = "done" /\ LastPage
        BY <2>6 DEF EndWalk
      <3>2. Cardinality(items) = NormalSize(size) /\ Cardinality(items) # 0
        BY <1>0, <2>3, <3>1 DEF NotYet
      <3>3. NormalSize(size) < size
        BY <3>1, <3>2, FS_EmptySet DEF LastPage
      <3>4. size > MaxSize
        BY <1>0, <3>3 DEF NormalSize, TypeOK
      <3> QED BY <2>1, <3>1, <3>4 DEF NotYet
    <2>7. CASE Leave
      BY <2>7 DEF Leave, NotYet
    <2> QED BY <1>5, <2>4, <2>5, <2>6, <2>7
  <1> QED BY <1>1, <1>2, <1>3, <1>4, <1>5 DEF Next

\* Whatever happens, a document seen once stays before the pages to come, or is
\* excused.
LEMMA RepeatedStep == Inv /\ [Next]_vars => RepeatedInv'
  <1> SUFFICES ASSUME Inv, [Next]_vars, NEW d \in DocIds, seen'[d] # 0
               PROVE  created'[d] # 0 /\ (MovedDown(d)' \/ Past(d)')
    BY DEF RepeatedInv
  <1> TypeOK /\ RepeatedInv
    BY DEF Inv
  <1> USE DEF rows, client
  <1>0. Offset \in Nat /\ End \in Nat /\ page * NormalSize(size) = End
    BY Offsets
  <1>1. ASSUME NEW x \in DocIds, SoftDelete(x)
        PROVE  created'[d] # 0 /\ (MovedDown(d)' \/ Past(d)')
    <2>1. /\ created' = created /\ made' = made /\ at' = at /\ page' = page /\ size' = size
          /\ seen' = seen
      BY <1>1 DEF SoftDelete
    <2>2. Ahead(d)' \in Nat /\ Ahead(d)' <= Ahead(d)
      BY <1>1, DeleteAhead
    <2>3. Ahead(d) \in Nat
      BY AheadType
    <2>4. created[d] # 0 /\ (MovedDown(d) \/ Past(d))
      BY <2>1 DEF RepeatedInv
    <2>5. MovedDown(d) => MovedDown(d)'
      BY <2>1 DEF MovedDown, Tied
    <2>6. Offset' = Offset /\ End' = End
      BY <2>1 DEF Offset, End
    <2>7. Past(d) => Past(d)'
      BY <1>0, <2>1, <2>2, <2>3, <2>6 DEF Past
    <2> QED BY <2>1, <2>4, <2>5, <2>7
  <1>2. ASSUME NEW x \in DocIds, NEW t \in 1..second, Create(x, t)
        PROVE  created'[d] # 0 /\ (MovedDown(d)' \/ Past(d)')
    <2>1. at' = at /\ page' = page /\ size' = size /\ seen' = seen /\ made \subseteq made'
      BY <1>2 DEF Create
    <2>2. created[d] # 0 /\ (MovedDown(d) \/ Past(d))
      BY <2>1 DEF RepeatedInv
    <2>3. /\ created'[d] = created[d] /\ created'[x] = t
          /\ Tied(d) => Tied(d)'
          /\ \A e \in DocIds : created[e] > created[d] => created'[e] = created[e]
          /\ t <= created[d] => Ahead(d)' = Ahead(d)
      BY <1>2, <2>2, CreateAhead
    <2>4. MovedDown(d) => MovedDown(d)'
      BY <2>1, <2>3 DEF MovedDown, TypeOK
    <2>5. CASE at \in {"idle", "done"}
      BY <2>1, <2>2, <2>3, <2>4, <2>5 DEF Past
    <2>6. CASE at \notin {"idle", "done"} /\ ~(t <= created[d])
      <3>1. x \in made'
        BY <1>2, <2>6 DEF Create, Walking
      <3>2. created'[x] > created'[d]
        BY <2>3, <2>6 DEF TypeOK
      <3> QED BY <2>2, <2>3, <3>1, <3>2 DEF MovedDown
    <2>7. CASE t <= created[d]
      <3>1. Offset' = Offset /\ End' = End /\ Ahead(d)' = Ahead(d)
        BY <2>1, <2>3, <2>7 DEF Offset, End
      <3> QED BY <2>1, <2>2, <2>3, <2>4, <3>1 DEF Past
    <2> QED BY <2>5, <2>6, <2>7
  <1>3. CASE StartWalk
    BY <1>3 DEF StartWalk
  <1>4. CASE Find
    <2>1. /\ at = "find" /\ at' = "answer" /\ made' = made /\ live' = live
          /\ created' = created /\ page' = page /\ size' = size
          /\ seen'[d] = IF d \in items' THEN Least(seen[d] + 1, 2) ELSE seen[d]
      BY <1>4 DEF Find
    <2>2. Ahead(d)' = Ahead(d) /\ Offset' = Offset /\ End' = End
      BY <2>1 DEF Ahead, Newer, End, Offset
    <2>3. MovedDown(d)' <=> MovedDown(d)
      BY <2>1 DEF MovedDown, Tied
    <2>4. Ahead(d) \in Nat /\ Offset <= End /\ seen[d] \in 0..2
      BY SizeUsed, <1>0, AheadType DEF End, TypeOK
    <2>5. CASE d \in items'
      <3>1. d \in live
        <4>1. PICK skipped \in Front(Offset), reached \in Front(End) : items' = reached \ skipped
          BY <1>4, FindItems
        <4> QED BY <1>0, <2>5, <4>1, FrontSize
      <3>2. created[d] # 0
        BY <3>1 DEF TypeOK
      <3>3. CASE Tied(d)
        BY <2>1, <2>3, <3>2, <3>3 DEF MovedDown
      <3>4. CASE ~Tied(d)
        <4>1. Ahead(d) >= Offset /\ Ahead(d) < End
          BY <1>4, <2>5, <3>4, FindHits
        <4>2. seen[d] = 0 \/ MovedDown(d)
          BY <1>0, <2>1, <2>4, <4>1 DEF RepeatedInv, Past
        <4> QED BY <2>1, <2>2, <2>3, <2>5, <3>2, <4>1, <4>2 DEF Past, Least
      <3> QED BY <3>3, <3>4
    <2>6. CASE d \notin items'
      <3>1. created[d] # 0 /\ (MovedDown(d) \/ Past(d))
        BY <2>1, <2>6 DEF RepeatedInv
      <3>2. Past(d) => Past(d)'
        BY <1>0, <2>1, <2>2, <2>4, <2>6 DEF Past
      <3> QED BY <2>1, <2>3, <3>1, <3>2
    <2> QED BY <2>5, <2>6
  <1>5. CASE Count \/ NextPage \/ EndWalk \/ Leave \/ Tick \/ UNCHANGED vars
    <2>1. /\ made' = made /\ live' = live /\ created' = created /\ seen' = seen /\ size' = size
      BY <1>5 DEF Count, NextPage, EndWalk, Leave, Tick, vars
    <2>2. created[d] # 0 /\ (MovedDown(d) \/ Past(d))
      BY <2>1 DEF RepeatedInv
    <2>3. MovedDown(d) => MovedDown(d)'
      BY <2>1 DEF MovedDown, Tied
    <2>4. Ahead(d)' = Ahead(d)
      BY <2>1 DEF Ahead, Newer
    <2>5. CASE Count \/ Tick \/ UNCHANGED vars
      BY <2>1, <2>2, <2>3, <2>4, <2>5 DEF Count, Tick, vars, Past, Offset, End
    <2>6. CASE NextPage
      <3>1. at = "answer" /\ at' = "count" /\ page' = page + 1
        BY <2>6 DEF NextPage
      <3>2. Offset' = End
        <4>1. page \in Nat /\ page + 1 >= 1
          BY DocSets DEF TypeOK
        <4>2. NormalPage(page)' = page + 1
          BY <3>1, <4>1 DEF NormalPage
        <4>3. NormalSize(size)' = NormalSize(size) /\ NormalSize(size) \in Nat
          BY <2>1, SizeUsed DEF NormalSize
        <4>4. Offset' = page * NormalSize(size)
          BY <4>1, <4>2, <4>3 DEF Offset
        <4> QED BY <1>0, <4>4
      <3> QED BY <2>1, <2>2, <2>3, <2>4, <3>1, <3>2 DEF Past
    <2>7. CASE EndWalk \/ Leave
      BY <2>1, <2>2, <2>3, <2>7 DEF EndWalk, Leave, Past
    <2> QED BY <1>5, <2>5, <2>6, <2>7
  <1> QED BY <1>1, <1>2, <1>3, <1>4, <1>5 DEF Next

----------------------------------------------------------------------------
(* The theorems.                                                           *)

\* Fronts, offsets and what was seen keep to each other in every reachable state.
THEOREM WalksAreSound == Spec => []Inv
  <1>1. Inv /\ [Next]_vars => Inv'
    BY TypeStep, AnswerStep, MissedStep, RepeatedStep DEF Inv
  <1> QED BY InitInv, <1>1, PTL DEF Spec

\* Every variable keeps its shape: no answer of List holds more than MaxSize
\* items, whatever size is asked for.
THEOREM TypeCorrect == Spec => []TypeOK
  <1>1. Inv => TypeOK
    BY DEF Inv
  <1> QED BY WalksAreSound, <1>1, PTL

\* ListByOwner's total fits its items but for the rows that came and went
\* between Count and Find, which it is off by to the row.
THEOREM TotalsMatch == Spec => []TotalMatchesItems
  <1>1. Inv => TotalMatchesItems
    BY DEF Inv, AnswerInv
  <1> QED BY WalksAreSound, <1>1, PTL

\* A reader of all pages misses a document for the three reasons only.
THEOREM MissedForAReason == Spec => []MissedOnlyWhenShifted
  <1>1. Inv => MissedOnlyWhenShifted
    BY DEF Inv, MissedInv, MissedOnlyWhenShifted, MovedUp, NotYet
  <1> QED BY WalksAreSound, <1>1, PTL

\* A reader of all pages sees a document twice for the two reasons only.
THEOREM RepeatedForAReason == Spec => []RepeatedOnlyWhenShifted
  <1>1. Inv => RepeatedOnlyWhenShifted
    <2> SUFFICES ASSUME Inv, NEW d \in DocIds, seen[d] = 2 PROVE MovedDown(d)
      BY DEF RepeatedOnlyWhenShifted, MovedDown
    <2> QED BY DEF Inv, RepeatedInv, Past
  <1> QED BY WalksAreSound, <1>1, PTL

----------------------------------------------------------------------------
(* The walk as a whole.                                                    *)

\* While a client walks, a row was there before or was made, and what was seen
\* is there or was removed.
Witnessed ==
  Walking =>
    /\ live \subseteq stayed \cup made
    /\ \A d \in DocIds : seen[d] # 0 => d \in live \cup removed

\* Nothing came or went during the walk, no two documents share a second, and
\* the size asked for is one List accepts.
Undisturbed ==
  /\ made = {} /\ removed = {}
  /\ \A d \in DocIds : created[d] # 0 => ~Tied(d)
  /\ size <= MaxSize

\* The pages of an undisturbed walk are the list: each document is on one page,
\* and no deleted one is.
ReadsEachOnce ==
  at = "done" /\ Undisturbed =>
    \A d \in DocIds : seen[d] = IF d \in live THEN 1 ELSE 0

\* The queries and decisions a walk has in front of it at most.
Left ==
  LET pages == Cardinality(DocIds) + 1 - page
  IN  CASE at = "count" -> 3 * pages + 4
        [] at = "find" -> 3 * pages + 3
        [] at = "answer" -> 3 * pages + 2
        [] at = "done" -> 1
        [] at = "idle" -> 0

\* Whatever comes and goes meanwhile, a walk ends after at most one page more
\* than there were ever documents: rows that shift cannot keep a client turning
\* pages, and a page behind the last row ends it.
WalksRunOut ==
  [][/\ Count \/ Find \/ NextPage \/ EndWalk \/ Leave => Left' < Left
     /\ Walking => Left' <= Left]_vars

\* Every step keeps account of what came and went.
LEMMA WitnessedStep == Inv /\ Witnessed /\ [Next]_vars => Witnessed'
  <1> SUFFICES ASSUME Inv, Witnessed, [Next]_vars PROVE Witnessed'
    OBVIOUS
  <1> TypeOK /\ TypeOK'
    BY TypeStep DEF Inv
  <1>1. ASSUME NEW d \in DocIds, NEW t \in 1..second, Create(d, t) PROVE Witnessed'
    BY <1>1 DEF Create, client, Witnessed, Walking
  <1>2. ASSUME NEW d \in DocIds, SoftDelete(d) PROVE Witnessed'
    <2>1. /\ at' = at /\ made' = made /\ seen' = seen /\ live' = live \ {d}
          /\ stayed' = stayed \ {d}
          /\ Walking => removed' = removed \cup {d}
      BY <1>2 DEF SoftDelete, client
    <2> QED BY <2>1 DEF Witnessed, Walking
  <1>3. CASE StartWalk
    BY <1>3 DEF StartWalk, rows, Witnessed, Walking
  <1>4. CASE Find
    <2>1. /\ Walking /\ UNCHANGED <<live, stayed, made, removed>>
          /\ seen' = [d \in DocIds |-> IF d \in items' THEN Least(seen[d] + 1, 2) ELSE seen[d]]
      BY <1>4 DEF Find, rows, Walking
    <2>2. PICK skipped \in Front(Offset), reached \in Front(End) : items' = reached \ skipped
      BY <1>4, FindItems
    <2>3. items' \subseteq live
      BY <2>2 DEF Front
    <2> QED BY <2>1, <2>3 DEF Witnessed
  <1>5. CASE Count \/ NextPage \/ EndWalk \/ Leave \/ Tick \/ UNCHANGED vars
    <2>1. /\ UNCHANGED <<live, stayed, made, removed, seen>>
          /\ Walking' => Walking
      BY <1>5 DEF Count, NextPage, EndWalk, Leave, Tick, vars, rows, client, Walking
    <2> QED BY <2>1 DEF Witnessed
  <1> QED BY <1>1, <1>2, <1>3, <1>4, <1>5 DEF Next

\* A reader who is not disturbed, and asks for a size List accepts, gets each
\* document on one page of the walk: the offsets neither skip a row nor repeat
\* one, and the walk does not end early.
THEOREM UndisturbedWalksAreExact == Spec => []ReadsEachOnce
  <1>1. Init => Witnessed
    BY DEF Init, Witnessed, Walking
  <1>2. Inv /\ Witnessed => ReadsEachOnce
    <2> SUFFICES ASSUME Inv, Witnessed, at = "done", Undisturbed, NEW d \in DocIds
                 PROVE  seen[d] = IF d \in live THEN 1 ELSE 0
      BY DEF ReadsEachOnce
    <2> TypeOK
      BY DEF Inv
    <2>1. seen[d] \in 0..2
      BY DEF TypeOK
    <2>2. CASE d \in live
      <3>1. d \in stayed /\ ~Tied(d)
        BY <2>2 DEF Undisturbed, Witnessed, Walking, TypeOK
      <3>2. size \in Int /\ ~(size > MaxSize)
        BY DEF Undisturbed, TypeOK
      <3>3. seen[d] # 0
        BY <3>1, <3>2 DEF Inv, MissedInv, MovedUp, NotYet, Undisturbed
      <3>4. seen[d] # 2
        BY <3>1 DEF Inv, RepeatedInv, MovedDown, Past, Undisturbed
      <3> QED BY <2>1, <2>2, <3>3, <3>4
    <2>3. CASE d \notin live
      <3>1. seen[d] = 0
        BY <2>3 DEF Undisturbed, Witnessed, Walking
      <3> QED BY <2>3, <3>1
    <2> QED BY <2>2, <2>3
  <1> QED BY <1>1, <1>2, WitnessedStep, WalksAreSound, PTL DEF Spec

\* Where a walk is, and how far from its end.
LEMMA LeftCases ==
  ASSUME TypeOK
  PROVE  /\ Cardinality(DocIds) \in Nat /\ page \in 1..(Cardinality(DocIds) + 1)
         /\ at = "count" => Left = 3 * (Cardinality(DocIds) + 1 - page) + 4
         /\ at = "find" => Left = 3 * (Cardinality(DocIds) + 1 - page) + 3
         /\ at = "answer" => Left = 3 * (Cardinality(DocIds) + 1 - page) + 2
         /\ at = "done" => Left = 1
         /\ at = "idle" => Left = 0
         /\ Left \in Nat
  <1>1. Cardinality(DocIds) \in Nat /\ page \in 1..(Cardinality(DocIds) + 1)
    BY DocSets DEF TypeOK
  <1>2. at \in {"idle", "count", "find", "answer", "done"}
    BY DEF TypeOK
  <1> QED BY <1>1, <1>2 DEF Left

\* A client cannot be kept turning pages: an answer that is not empty means that
\* its page is not beyond the number of documents, and the page only grows.
THEOREM WalksEnd == Spec => WalksRunOut
  <1> DEFINE Nearer == /\ Count \/ Find \/ NextPage \/ EndWalk \/ Leave => Left' < Left
                       /\ Walking => Left' <= Left
  <1>1. Inv /\ [Next]_vars => [Nearer]_vars
    <2> SUFFICES ASSUME Inv, [Next]_vars PROVE Nearer
      OBVIOUS
    <2> TypeOK /\ TypeOK'
      BY TypeStep DEF Inv
    <2> DEFINE N == Cardinality(DocIds)
    <2>1. N \in Nat /\ page \in 1..(N + 1) /\ page' \in 1..(N + 1) /\ Left \in Nat
      BY LeftCases DEF TypeOK
    <2>2. CASE Count \/ Find \/ NextPage
      <3>1. CASE Count
        <4>1. Left = 3 * (N + 1 - page) + 4 /\ at' = "find" /\ page' = page
          BY <3>1, LeftCases DEF Count
        <4>2. Left' = 3 * (N + 1 - page) + 3
          BY <4>1 DEF Left
        <4> QED BY <2>1, <4>1, <4>2
      <3>2. CASE Find
        <4>1. Left = 3 * (N + 1 - page) + 3 /\ at' = "answer" /\ page' = page
          BY <3>2, LeftCases DEF Find
        <4>2. Left' = 3 * (N + 1 - page) + 2
          BY <4>1 DEF Left
        <4> QED BY <2>1, <4>1, <4>2
      <3>3. CASE NextPage
        <4>1. Left = 3 * (N + 1 - page) + 2 /\ at' = "count" /\ page' = page + 1
          BY <3>3, LeftCases DEF NextPage
        <4>2. Left' = 3 * (N + 1 - (page + 1)) + 4
          BY <4>1 DEF Left
        <4> QED BY <2>1, <4>1, <4>2
      <3> QED BY <2>2, <3>1, <3>2, <3>3
    <2>3. CASE EndWalk \/ Leave
      <3>1. CASE EndWalk
        <4>1. Left = 3 * (N + 1 - page) + 2 /\ at' = "done"
          BY <3>1, LeftCases DEF EndWalk
        <4>2. Left' = 1
          BY <4>1 DEF Left
        <4> QED BY <2>1, <4>1, <4>2
      <3>2. CASE Leave
        <4>1. Left = 1 /\ at' = "idle"
          BY <3>2, LeftCases DEF Leave
        <4>2. Left' = 0
          BY <4>1 DEF Left
        <4> QED BY <4>1, <4>2
      <3> QED BY <2>3, <3>1, <3>2
    <2>4. CASE ~(Count \/ Find \/ NextPage \/ EndWalk \/ Leave)
      <3>1. ASSUME NEW d \in DocIds, SoftDelete(d) \/ \E t \in 1..second : Create(d, t)
            PROVE  at' = at /\ page' = page
        BY <3>1 DEF SoftDelete, Create, client
      <3>2. Tick \/ UNCHANGED vars => at' = at /\ page' = page
        BY DEF Tick, client, vars
      <3>3. StartWalk => ~Walking
        BY DEF StartWalk, Walking
      <3>4. (at' = at /\ page' = page) \/ ~Walking
        BY <2>4, <3>1, <3>2, <3>3 DEF Next
      <3>5. at' = at /\ page' = page => Left' = Left
        BY DEF Left
      <3> QED BY <2>1, <2>4, <3>4, <3>5
    <2> QED BY <2>2, <2>3, <2>4
  <1> QED BY <1>1, WalksAreSound, PTL DEF Spec, WalksRunOut
=============================================================================
