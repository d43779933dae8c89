---------------------------- MODULE ListingProofs ----------------------------
(***************************************************************************)
(* Proofs about Listings and ApiKeys.                                      *)
(***************************************************************************)
EXTENDS ApiKeys, FiniteSetTheorems, WellFoundedInduction, TLAPS

LEMMA Division ==
    ASSUME NEW p \in Nat \ {0}, NEW t \in Nat
    PROVE  /\ t \div p \in Nat
           /\ (t \div p) * p \in Nat
           /\ (t \div p) * p <= t
           /\ t < (t \div p + 1) * p
  OBVIOUS

LEMMA Multiples ==
    ASSUME NEW p \in Nat \ {0}, NEW a \in Nat, NEW b \in Nat, a * p < b * p
    PROVE  a < b
  OBVIOUS

LEMMA DivisionGrows ==
    ASSUME NEW p \in Nat \ {0}, NEW t \in Nat, NEW u \in Nat, t <= u
    PROVE  t \div p <= u \div p
<1> DEFINE a == t \div p
           b == u \div p
<1>1. /\ a \in Nat /\ b \in Nat /\ a * p \in Nat /\ (b + 1) * p \in Nat
      /\ a * p <= t /\ u < (b + 1) * p
  BY Division
<1>2. a * p < (b + 1) * p
  BY <1>1
<1> HIDE DEF a, b
<1>3. a < b + 1
  BY <1>1, <1>2, Multiples
<1>4. a <= b
  BY <1>1, <1>3
<1> QED
  BY <1>4 DEF a, b

-----------------------------------------------------------------------------
(* The order of a listing, and its pages.                                  *)

TableType ==
    /\ kind \in Kinds /\ limit \in Limits /\ now \in 0 .. MaxTime
    /\ rows \in [Rows -> Row]

Before(q, r) == IF NewestFirst THEN Less(Key(r), Key(q)) ELSE Less(Key(q), Key(r))

LEMMA KeyFacts ==
    ASSUME TableType, NEW r \in Rows
    PROVE  /\ rows[r].at \in 0 .. MaxTime /\ rows[r].at \in Nat /\ r \in Nat
           /\ Key(r).at = rows[r].at /\ Key(r).id = r
  BY ListingAssumption DEF ListingAssumption, TableType, Row, Key

LEMMA Order ==
    ASSUME TableType
    PROVE  /\ \A r \in Rows : ~Before(r, r)
           /\ \A p, q, r \in Rows : Before(p, q) /\ Before(q, r) => Before(p, r)
           /\ \A q, r \in Rows : q = r \/ Before(q, r) \/ Before(r, q)
  BY KeyFacts DEF Before, Less

LEMMA PrecedingIsBefore == \A S, r : Preceding(S, r) = {q \in S : Before(q, r)}
  BY DEF Preceding, Before

\* Of finitely many sets one contains no other.
LEMMA LeastSet ==
    ASSUME NEW S, IsFiniteSet(S), NEW F, F \subseteq SUBSET S, F # {}
    PROVE  \E T \in F : \A U \in F : U \subseteq T => U = T
<1>1. F \subseteq FiniteSubsetsOf(S)
  BY FS_Subset DEF FiniteSubsetsOf
<1>2. \E T \in F : \A U \in F : ~(<<U, T>> \in StrictSubsetOrdering(S))
  BY <1>1, FS_StrictSubsetOrderingWellFounded, WFMin, Zenon
<1> QED
  BY <1>2 DEF StrictSubsetOrdering

LEMMA FirstRow ==
    ASSUME TableType, NEW P \in SUBSET Rows, P # {}
    PROVE  \E r \in P : Preceding(P, r) = {}
<1> DEFINE F == {Preceding(P, r) : r \in P}
<1>1. IsFiniteSet(P)
  BY ListingAssumption, FS_Subset DEF ListingAssumption
<1>2. F \subseteq SUBSET P /\ F # {}
  BY DEF Preceding
<1> HIDE DEF F
<1>3. PICK T \in F : \A U \in F : U \subseteq T => U = T
  BY <1>1, <1>2, LeastSet
<1>4. PICK r \in P : T = Preceding(P, r)
  BY <1>3 DEF F
<1>5. ASSUME NEW q \in Preceding(P, r) PROVE FALSE
  <2>1. q \in P /\ Preceding(P, q) \in F
    BY <1>5, PrecedingIsBefore DEF F
  <2>2. Preceding(P, q) \subseteq T /\ q \in T /\ q \notin Preceding(P, q)
    BY <1>4, <1>5, <2>1, PrecedingIsBefore, Order
  <2> QED
    BY <1>3, <2>1, <2>2
<1> QED
  BY <1>5

LEMMA LastRow ==
    ASSUME TableType, NEW P \in SUBSET Rows, P # {}
    PROVE  Last(P) \in P /\ Preceding(P, Last(P)) = P \ {Last(P)}
<1> DEFINE F == {P \ Preceding(P, r) : r \in P}
<1>1. IsFiniteSet(P)
  BY ListingAssumption, FS_Subset DEF ListingAssumption
<1>2. F \subseteq SUBSET P /\ F # {}
  OBVIOUS
<1> HIDE DEF F
<1>3. PICK T \in F : \A U \in F : U \subseteq T => U = T
  BY <1>1, <1>2, LeastSet
<1>4. PICK r \in P : T = P \ Preceding(P, r)
  BY <1>3 DEF F
<1>5. ASSUME NEW q \in P, q # r PROVE q \in Preceding(P, r)
  <2> SUFFICES ASSUME Before(r, q) PROVE FALSE
    BY <1>5, Order, PrecedingIsBefore
  <2>1. P \ Preceding(P, q) \in F
    BY <1>5 DEF F
  <2>2. P \ Preceding(P, q) \subseteq T /\ r \in T /\ r \notin P \ Preceding(P, q)
    BY <1>4, <1>5, PrecedingIsBefore, Order
  <2> QED
    BY <1>3, <2>1, <2>2
<1>6. Preceding(P, r) = P \ {r}
  BY <1>5, PrecedingIsBefore, Order
<1> QED
  BY <1>6 DEF Last

LEMMA PageFacts ==
    ASSUME TableType, NEW c
    PROVE  /\ Page(c) \subseteq Beyond(c) /\ Beyond(c) \subseteq There
           /\ ~HasMore(c) => Page(c) = Beyond(c)
           /\ HasMore(c) => Page(c) # {}
           /\ \A q \in Page(c), r \in Beyond(c) \ Page(c) : Before(q, r)
<1> DEFINE S == Beyond(c)
<1>1. S \subseteq There /\ S \in SUBSET Rows
  BY DEF TableType, Kinds, Beyond, SessionRows, WorkerRows, KeyRows, InboxRows, Older, Newer, There
<1>2. IsFiniteSet(S) /\ limit \in Nat \ {0}
  BY ListingAssumption, <1>1, FS_Subset DEF ListingAssumption, TableType
<1>3. \A r \in S : /\ Preceding(S, r) \in SUBSET S /\ Preceding(S, r) # S
                   /\ IsFiniteSet(Preceding(S, r)) /\ Cardinality(Preceding(S, r)) \in Nat
                   /\ Cardinality(Preceding(S, r)) < Cardinality(S)
  <2> TAKE r \in S
  <2>1. Preceding(S, r) \in SUBSET S /\ Preceding(S, r) # S
    BY <1>1, PrecedingIsBefore, Order
  <2>2. /\ IsFiniteSet(Preceding(S, r)) /\ Cardinality(Preceding(S, r)) <= Cardinality(S)
        /\ Cardinality(Preceding(S, r)) # Cardinality(S)
    BY <1>2, <2>1, FS_Subset
  <2> QED
    BY <1>2, <2>1, <2>2, FS_CardinalityType
<1>4. Cardinality(S) \in Nat
  BY <1>2, FS_CardinalityType
<1>5. Page(c) = {r \in S : Cardinality(Preceding(S, r)) < limit}
  BY DEF Page
<1>6. ~HasMore(c) => Page(c) = S
  BY <1>2, <1>3, <1>4, <1>5 DEF HasMore
<1>7. HasMore(c) => Page(c) # {}
  <2> SUFFICES ASSUME HasMore(c) PROVE Page(c) # {}
    OBVIOUS
  <2>1. S # {}
    BY <1>2, <1>4, FS_EmptySet DEF HasMore
  <2>2. PICK r \in S : Preceding(S, r) = {}
    BY <1>1, <2>1, FirstRow
  <2>3. Cardinality(Preceding(S, r)) = 0
    BY <2>2, FS_EmptySet
  <2> QED
    BY <1>2, <1>5, <2>2, <2>3
<1>8. ASSUME NEW q \in Page(c), NEW r \in S \ Page(c) PROVE Before(q, r)
  <2>1. q \in S /\ q # r /\ q \in Rows /\ r \in Rows
    BY <1>1, <1>5
  <2> SUFFICES ASSUME Before(r, q) PROVE FALSE
    BY <2>1, Order
  <2>2. Preceding(S, r) \subseteq Preceding(S, q)
    BY <1>1, <2>1, PrecedingIsBefore, Order
  <2>3. Cardinality(Preceding(S, r)) <= Cardinality(Preceding(S, q))
    BY <1>3, <2>1, <2>2, FS_Subset
  <2> QED
    BY <1>2, <1>3, <1>5, <2>1, <2>3
<1> QED
  BY <1>1, <1>5, <1>6, <1>7, <1>8

-----------------------------------------------------------------------------
(* The reader.                                                             *)

Shown(r) == rows[r].is \in {"there", "gone"}
Ahead(r) == IF NewestFirst THEN Less(Key(r), walk.cursor) ELSE Less(walk.cursor, Key(r))
Passed(r, m) == IF NewestFirst THEN ~Less(Key(r), walk.cursor) ELSE Milli(rows[r].at) <= m

\* While pages are read: the cursor is a cut; the rows seen are on this side of
\* it, or in its millisecond; what has been there all the while and is not seen
\* is on the other, or, newest first, in the millisecond of a cut.
Halfway ==
    /\ walk.cursor = NoCursor => walk.seen = {}
    /\ walk.cursor # NoCursor =>
            \E m \in walk.cuts : /\ walk.cursor.at = m * PerMilli
                                 /\ \A r \in walk.seen : Passed(r, m)
    /\ \A r \in walk.whole \ walk.seen :
            \/ walk.cursor = NoCursor \/ Ahead(r)
            \/ NewestFirst /\ Milli(rows[r].at) \in walk.cuts

ListInv ==
    /\ ListTypeOK
    /\ \A r \in walk.seen : Shown(r)
    /\ walk.again \subseteq walk.seen
    /\ walk.whole \subseteq There
    /\ walk.step = "reading" => Halfway
    /\ NothingTwice
    /\ NothingMissed

LEMMA TypeFacts == ListTypeOK =>
    /\ TableType
    /\ walk \in Walk
    /\ walk.seen \subseteq Rows /\ walk.again \subseteq Rows /\ walk.whole \subseteq Rows
    /\ walk.cuts \subseteq Nat
    /\ walk.cursor \in [at : 0 .. MaxTime, id : Rows] \cup {NoCursor}
  BY DEF ListTypeOK, TableType, Walk

\* The table changes under the reader: rows that showed keep their time.
LEMMA TableChanges ==
    ASSUME ListInv, TableType', walk' \in Walk, kind' = kind,
           walk'.step = walk.step, walk'.cursor = walk.cursor, walk'.seen = walk.seen,
           walk'.again = walk.again, walk'.cuts = walk.cuts,
           walk'.whole \subseteq walk.whole, walk'.whole \subseteq There',
           \A r \in Rows : Shown(r) => Shown(r)' /\ rows'[r].at = rows[r].at
    PROVE  ListInv'
<1>1. ListTypeOK'
  BY DEF TableType, ListTypeOK
<1>2. /\ walk.seen \subseteq Rows /\ walk.whole \subseteq Rows /\ walk.again \subseteq Rows
      /\ \A r \in walk.whole : Shown(r)
  BY TypeFacts DEF ListInv, There, Shown
<1>3. /\ NewestFirst' <=> NewestFirst
      /\ \A r \in Rows : Shown(r) => Key(r)' = Key(r) /\ Milli(rows'[r].at) = Milli(rows[r].at)
  BY DEF NewestFirst, Key
<1>4. \A r \in walk'.seen : Shown(r)'
  BY <1>2 DEF ListInv
<1>5. walk'.step = "reading" => Halfway'
  BY <1>2, <1>3 DEF ListInv, Halfway, Passed, Ahead, Less
<1>6. NothingMissed'
  BY <1>2, <1>3 DEF ListInv, NothingMissed
<1>7. NothingTwice'
  BY <1>2, <1>3 DEF ListInv, NothingTwice
<1> QED
  BY <1>1, <1>4, <1>5, <1>6, <1>7 DEF ListInv

LEMMA OpensKeeps ==
    ASSUME ListInv, NEW r \in Rows, Opens(r), UNCHANGED <<kind, limit, now, walk>>
    PROVE  ListInv'
<1>1. TableType /\ walk \in Walk
  BY TypeFacts DEF ListInv
<1>2. rows' \in [Rows -> Row]
  BY <1>1 DEF Opens, TableType, Row
<1>3. \A q \in Rows : Shown(q) => rows'[q] = rows[q]
  BY <1>1 DEF Opens, TableType, Shown
<1>4. There \subseteq There'
  BY <1>3 DEF There, Shown
<1> QED
  BY <1>1, <1>2, <1>3, <1>4, TableChanges DEF TableType, Shown, ListInv

LEMMA CommitKeeps ==
    ASSUME ListInv, NEW r \in Rows, Commit(r)
    PROVE  ListInv'
<1>1. TableType /\ walk \in Walk
  BY TypeFacts DEF ListInv
<1>2. rows' \in [Rows -> Row]
  BY <1>1 DEF Commit, TableType, Row
<1>3. \A q \in Rows : Shown(q) => rows'[q] = rows[q]
  BY <1>1 DEF Commit, TableType, Shown
<1>4. There \subseteq There'
  BY <1>3 DEF There, Shown
<1> QED
  BY <1>1, <1>2, <1>3, <1>4, TableChanges DEF TableType, Shown, ListInv, Commit

LEMMA LeaveKeeps ==
    ASSUME ListInv, NEW r \in Rows, Leave(r)
    PROVE  ListInv'
<1>1. TableType /\ walk \in Walk /\ walk.whole \subseteq There
  BY TypeFacts DEF ListInv
<1>2. rows' \in [Rows -> Row]
  BY <1>1 DEF Leave, Leaves, TableType, Row
<1>3. \A q \in Rows : Shown(q) => Shown(q)' /\ rows'[q].at = rows[q].at
  BY <1>1 DEF Leave, Leaves, TableType, Shown, Row
<1>4. walk' = [walk EXCEPT !.whole = walk.whole \ {r}]
  BY DEF Leave
<1>5. /\ walk' \in Walk
      /\ walk'.step = walk.step /\ walk'.cursor = walk.cursor /\ walk'.seen = walk.seen
      /\ walk'.again = walk.again /\ walk'.cuts = walk.cuts
      /\ walk'.whole = walk.whole \ {r}
  BY <1>1, <1>4 DEF Walk
<1>6. \A q \in Rows \ {r} : rows'[q] = rows[q]
  BY <1>1 DEF Leave, Leaves, TableType
<1>7. walk'.whole \subseteq walk.whole /\ walk'.whole \subseteq There'
  BY <1>1, <1>5, <1>6 DEF There
<1>8. TableType' /\ kind' = kind
  BY <1>1, <1>2 DEF Leave, TableType
<1> QED
  BY <1>3, <1>5, <1>7, <1>8, TableChanges

LEMMA UnchangedKeeps == ListInv /\ UNCHANGED listVars => ListInv'
<1> SUFFICES ASSUME ListInv, UNCHANGED listVars PROVE ListInv'
  OBVIOUS
<1>1. TableType /\ walk \in Walk /\ There' = There
  BY TypeFacts DEF ListInv, listVars, There
<1> QED
  BY <1>1, TableChanges DEF TableType, listVars, Shown, ListInv

LEMMA TickKeeps == ListInv /\ Tick => ListInv'
<1> SUFFICES ASSUME ListInv, Tick PROVE ListInv'
  OBVIOUS
<1>1. TableType /\ walk \in Walk /\ There' = There
  BY TypeFacts DEF ListInv, Tick, There
<1>2. now' \in 0 .. MaxTime
  BY <1>1, ListingAssumption DEF Tick, TableType, ListingAssumption
<1> QED
  BY <1>1, <1>2, TableChanges DEF TableType, Tick, Shown, ListInv

LEMMA StartKeeps == ListInv /\ StartWalk => ListInv'
<1> SUFFICES ASSUME ListInv, StartWalk PROVE ListInv'
  OBVIOUS
<1>1. TableType /\ There \subseteq Rows /\ There' = There
  BY TypeFacts DEF ListInv, StartWalk, There
<1>2. /\ walk' \in Walk /\ walk'.step = "reading" /\ walk'.cursor = NoCursor
      /\ walk'.seen = {} /\ walk'.again = {} /\ walk'.cuts = {} /\ walk'.whole = There
  BY <1>1 DEF StartWalk, NoWalk, Walk
<1>3. Halfway'
  BY <1>2 DEF Halfway, NoCursor
<1> QED
  BY <1>1, <1>2, <1>3 DEF ListInv, ListTypeOK, TableType, StartWalk, NothingTwice, NothingMissed

-----------------------------------------------------------------------------
(* A page is read.                                                         *)

LEMMA MilliFacts ==
    ASSUME NEW t \in Nat
    PROVE  /\ Milli(t) \in Nat /\ Milli(t) * PerMilli \in Nat /\ Milli(t) * PerMilli <= t
           /\ \A m \in Nat : m * PerMilli <= t => m <= Milli(t)
           /\ \A u \in Nat : t <= u => Milli(t) <= Milli(u)
<1>1. PerMilli \in Nat \ {0}
  BY ListingAssumption DEF ListingAssumption
<1>2. /\ Milli(t) \in Nat /\ Milli(t) * PerMilli \in Nat /\ Milli(t) * PerMilli <= t
      /\ t < (Milli(t) + 1) * PerMilli
  BY <1>1, Division DEF Milli
<1>3. ASSUME NEW m \in Nat, m * PerMilli <= t PROVE m <= Milli(t)
  <2>1. /\ m * PerMilli \in Nat /\ (Milli(t) + 1) * PerMilli \in Nat
    BY <1>1, <1>2
  <2>2. m * PerMilli < (Milli(t) + 1) * PerMilli
    BY <1>2, <1>3, <2>1
  <2>3. m < Milli(t) + 1
    BY <1>1, <1>2, <2>2, Multiples
  <2> QED
    BY <1>2, <2>3
<1>4. \A u \in Nat : t <= u => Milli(t) <= Milli(u)
  BY <1>1, DivisionGrows DEF Milli
<1> QED
  BY <1>2, <1>3, <1>4

\* The time of a row between a cut and the row it was cut at.
LEMMA SameMilli ==
    ASSUME NEW t \in Nat, NEW u \in Nat, Milli(u) * PerMilli <= t, t <= u
    PROVE  Milli(t) = Milli(u)
<1>1. Milli(t) \in Nat /\ Milli(u) \in Nat
  BY MilliFacts
<1>2. Milli(t) <= Milli(u) /\ Milli(u) <= Milli(t)
  BY <1>1, MilliFacts
<1> QED
  BY <1>1, <1>2

LEMMA CutFacts ==
    ASSUME TableType, NEW l \in Rows
    PROVE  /\ CursorOf(l).at = Milli(rows[l].at) * PerMilli /\ CursorOf(l).id = l
           /\ CursorOf(l) \in [at : 0 .. MaxTime, id : Rows]
           /\ CursorOf(l).at \in Nat /\ CursorOf(l).at <= rows[l].at
           /\ CursorOf(l) # NoCursor
<1>1. rows[l].at \in Nat /\ rows[l].at <= MaxTime /\ MaxTime \in Nat
  BY KeyFacts, ListingAssumption DEF ListingAssumption
<1>2. /\ Milli(rows[l].at) * PerMilli \in Nat /\ Milli(rows[l].at) * PerMilli <= rows[l].at
  BY <1>1, MilliFacts
<1> DEFINE k == Milli(rows[l].at) * PerMilli
<1>3. k \in 0 .. MaxTime /\ k # -1
  BY <1>1, <1>2
<1>4. CursorOf(l) = [at |-> k, id |-> l]
  BY DEF CursorOf
<1> HIDE DEF k
<1>5. CursorOf(l).at = k /\ CursorOf(l).id = l /\ CursorOf(l) \in [at : 0 .. MaxTime, id : Rows]
  BY <1>3, <1>4
<1>6. CursorOf(l) # NoCursor
  BY <1>3, <1>5 DEF NoCursor
<1> QED
  BY <1>2, <1>5, <1>6 DEF k

LEMMA BeyondIsAhead ==
    ASSUME TableType, NEW r
    PROVE  r \in Beyond(walk.cursor) <=> r \in There /\ (walk.cursor # NoCursor => Ahead(r))
  BY DEF TableType, Kinds, Beyond, SessionRows, WorkerRows, KeyRows, InboxRows, Older, Newer,
         NewestFirst, Ahead

\* No row of a next page was seen, but, oldest first, one of the cut's
\* millisecond.
LEMMA SeenAgain ==
    ASSUME ListInv, walk.step = "reading", NEW r \in walk.seen, r \in Beyond(walk.cursor)
    PROVE  ~NewestFirst /\ Milli(rows[r].at) \in walk.cuts
<1>1. TableType /\ r \in Rows /\ Halfway /\ walk.cuts \subseteq Nat
  BY TypeFacts DEF ListInv
<1>2. walk.cursor # NoCursor /\ Ahead(r)
  BY <1>1, BeyondIsAhead DEF Halfway
<1>3. PICK m \in walk.cuts : walk.cursor.at = m * PerMilli /\ Passed(r, m)
  BY <1>1, <1>2 DEF Halfway
<1>4. ~NewestFirst /\ Milli(rows[r].at) <= m
  BY <1>2, <1>3 DEF Ahead, Passed
<1>5. rows[r].at \in Nat /\ m \in Nat /\ walk.cursor \in [at : 0 .. MaxTime, id : Rows]
  BY <1>1, <1>2, KeyFacts, TypeFacts DEF ListInv
<1>6. walk.cursor.at <= rows[r].at
  BY <1>1, <1>2, <1>4, <1>5, KeyFacts DEF Ahead, Less
<1>7. m <= Milli(rows[r].at) /\ Milli(rows[r].at) \in Nat
  BY <1>3, <1>5, <1>6, MilliFacts
<1> QED
  BY <1>3, <1>4, <1>5, <1>7

LEMMA DonePageKeeps ==
    ASSUME ListInv, walk.step = "reading", ~HasMore(walk.cursor),
           UNCHANGED <<kind, limit, now, rows>>,
           walk' = [walk EXCEPT !.step = "done", !.seen = @ \cup Page(walk.cursor),
                                !.again = @ \cup (walk.seen \cap Page(walk.cursor))]
    PROVE  ListInv'
<1> DEFINE S == Beyond(walk.cursor)
<1>1. TableType /\ Halfway /\ walk \in Walk /\ walk.seen \subseteq Rows
  BY TypeFacts DEF ListInv
<1>2. Page(walk.cursor) = S /\ S \subseteq There
  BY <1>1, PageFacts
<1>3. There \subseteq Rows /\ There' = There /\ (NewestFirst' <=> NewestFirst)
  BY DEF There, NewestFirst
<1>4. walk' = [walk EXCEPT !.step = "done", !.seen = walk.seen \cup S,
                           !.again = walk.again \cup (walk.seen \cap S)]
  BY <1>2
<1> HIDE DEF S
<1>5. /\ walk' \in Walk /\ walk'.step = "done" /\ walk'.cuts = walk.cuts
      /\ walk'.seen = walk.seen \cup S /\ walk'.again = walk.again \cup (walk.seen \cap S)
      /\ walk'.whole = walk.whole
  <2>1. S \subseteq Rows
    BY <1>2, <1>3
  <2>2. walk.seen \cup S \in SUBSET Rows /\ walk.again \cup (walk.seen \cap S) \in SUBSET Rows
    BY <1>1, <2>1, TypeFacts DEF ListInv
  <2> DEFINE seen == walk.seen \cup S
             again == walk.again \cup (walk.seen \cap S)
  <2> HIDE DEF seen, again
  <2>3. walk' = [walk EXCEPT !.step = "done", !.seen = seen, !.again = again]
    BY <1>4 DEF seen, again
  <2>4. seen \in SUBSET Rows /\ again \in SUBSET Rows
    BY <2>2 DEF seen, again
  <2>5. /\ walk' \in Walk /\ walk'.step = "done" /\ walk'.cuts = walk.cuts
        /\ walk'.seen = seen /\ walk'.again = again /\ walk'.whole = walk.whole
    BY <1>1, <2>3, <2>4 DEF Walk
  <2> QED
    BY <2>5 DEF seen, again
<1>6. \A r \in walk'.seen : Shown(r)'
  BY <1>2, <1>5 DEF ListInv, Shown, There
<1>7. NothingTwice'
  BY <1>3, <1>5, SeenAgain DEF ListInv, NothingTwice, S
<1>8. NothingMissed'
  BY <1>1, <1>2, <1>3, <1>5, BeyondIsAhead DEF ListInv, NothingMissed, Halfway, S
<1> QED
  BY <1>3, <1>5, <1>6, <1>7, <1>8 DEF ListInv, ListTypeOK

\* The position of a row against the cursor a page leaves at its last row l.
LEMMA CursorSplits ==
    ASSUME TableType, NEW l \in Rows, NEW r \in Rows
    PROVE  /\ NewestFirst /\ ~Less(Key(r), Key(l)) => ~Less(Key(r), CursorOf(l))
           /\ NewestFirst /\ Less(Key(r), Key(l)) =>
                    Less(Key(r), CursorOf(l)) \/ Milli(rows[r].at) = Milli(rows[l].at)
           /\ Less(Key(l), Key(r)) => Less(CursorOf(l), Key(r))
           /\ ~Less(Key(l), Key(r)) => Milli(rows[r].at) <= Milli(rows[l].at)
<1>1. /\ rows[l].at \in Nat /\ rows[r].at \in Nat /\ l \in Nat /\ r \in Nat
      /\ Key(l).at = rows[l].at /\ Key(l).id = l /\ Key(r).at = rows[r].at /\ Key(r).id = r
  BY KeyFacts
<1>2. /\ CursorOf(l).at \in Nat /\ CursorOf(l).at <= rows[l].at /\ CursorOf(l).id = l
      /\ CursorOf(l).at = Milli(rows[l].at) * PerMilli
  BY CutFacts
<1>3. CursorOf(l).at <= rows[r].at /\ rows[r].at <= rows[l].at =>
        Milli(rows[r].at) = Milli(rows[l].at)
  BY <1>1, <1>2, SameMilli
<1>4. rows[r].at <= rows[l].at => Milli(rows[r].at) <= Milli(rows[l].at)
  BY <1>1, MilliFacts
<1>5. ~Less(Key(r), Key(l)) => ~Less(Key(r), CursorOf(l))
  BY <1>1, <1>2 DEF Less
<1>6. Less(Key(r), Key(l)) => Less(Key(r), CursorOf(l)) \/ Milli(rows[r].at) = Milli(rows[l].at)
  BY <1>1, <1>2, <1>3 DEF Less
<1>7. Less(Key(l), Key(r)) => Less(CursorOf(l), Key(r))
  BY <1>1, <1>2 DEF Less
<1>8. ~Less(Key(l), Key(r)) => Milli(rows[r].at) <= Milli(rows[l].at)
  BY <1>1, <1>4 DEF Less
<1> QED
  BY <1>5, <1>6, <1>7, <1>8

\* A row that was seen before is not beyond the last row of a next page.
LEMMA SeenIsBehind ==
    ASSUME ListInv, walk.step = "reading", NEW r \in walk.seen,
           NEW l \in Rows, l \in Beyond(walk.cursor)
    PROVE  IF NewestFirst THEN ~Less(Key(r), Key(l)) ELSE Milli(rows[r].at) <= Milli(rows[l].at)
<1>1. TableType /\ r \in Rows /\ Halfway /\ walk.cuts \subseteq Nat
  BY TypeFacts DEF ListInv
<1>2. walk.cursor # NoCursor /\ Ahead(l)
  BY <1>1, BeyondIsAhead DEF Halfway
<1>3. PICK m \in walk.cuts : walk.cursor.at = m * PerMilli /\ Passed(r, m)
  BY <1>1, <1>2 DEF Halfway
<1>4. /\ rows[l].at \in Nat /\ rows[r].at \in Nat /\ l \in Nat /\ r \in Nat /\ m \in Nat
      /\ Key(l).at = rows[l].at /\ Key(l).id = l /\ Key(r).at = rows[r].at /\ Key(r).id = r
  BY <1>1, KeyFacts
<1>5. walk.cursor.at \in Nat /\ walk.cursor.id \in Nat
  <2>1. walk.cursor \in [at : 0 .. MaxTime, id : Rows]
    BY <1>2, TypeFacts DEF ListInv
  <2>2. 0 .. MaxTime \subseteq Nat /\ Rows \subseteq Nat
    BY ListingAssumption DEF ListingAssumption
  <2>3. walk.cursor.at \in 0 .. MaxTime /\ walk.cursor.id \in Rows
    BY <2>1
  <2> QED
    BY <2>2, <2>3
<1>6. CASE NewestFirst
  BY <1>2, <1>3, <1>4, <1>5, <1>6 DEF Ahead, Passed, Less
<1>7. CASE ~NewestFirst
  <2>1. m * PerMilli <= rows[l].at
    BY <1>2, <1>3, <1>4, <1>5, <1>7 DEF Ahead, Less
  <2>2. m <= Milli(rows[l].at) /\ Milli(rows[l].at) \in Nat /\ Milli(rows[r].at) \in Nat
    BY <1>4, <2>1, MilliFacts
  <2> QED
    BY <1>3, <1>4, <1>7, <2>2 DEF Passed
<1> QED
  BY <1>6, <1>7

LEMMA NextPageKeeps ==
    ASSUME ListInv, walk.step = "reading", HasMore(walk.cursor),
           UNCHANGED <<kind, limit, now, rows>>,
           walk' = [walk EXCEPT !.cursor = CursorOf(Last(Page(walk.cursor))),
                                !.seen = @ \cup Page(walk.cursor),
                                !.again = @ \cup (walk.seen \cap Page(walk.cursor)),
                                !.cuts = @ \cup {Milli(rows[Last(Page(walk.cursor))].at)}]
    PROVE  ListInv'
<1> DEFINE S == Beyond(walk.cursor)
           P == Page(walk.cursor)
           l == Last(P)
           k == CursorOf(l)
           m == Milli(rows[l].at)
           seen == walk.seen \cup P
           again == walk.again \cup (walk.seen \cap P)
           cuts == walk.cuts \cup {m}
<1>1. TableType /\ Halfway /\ walk \in Walk /\ walk.seen \subseteq Rows /\ walk.cuts \subseteq Nat
  BY TypeFacts DEF ListInv
<1>2. /\ P \subseteq S /\ S \subseteq There /\ P # {}
      /\ \A q \in P, r \in S \ P : Before(q, r)
  BY <1>1, PageFacts
<1>3. There \subseteq Rows /\ There' = There /\ (NewestFirst' <=> NewestFirst)
  BY DEF There, NewestFirst
<1>4. P \subseteq Rows
  BY <1>2, <1>3
<1>5. l \in P /\ Preceding(P, l) = P \ {l}
  BY <1>1, <1>2, <1>4, LastRow
<1>6. l \in Rows /\ l \in S /\ (\A r \in P : r = l \/ Before(r, l))
  BY <1>2, <1>4, <1>5, PrecedingIsBefore
<1>7. /\ k \in [at : 0 .. MaxTime, id : Rows] /\ k # NoCursor /\ k.at = m * PerMilli
      /\ rows[l].at \in Nat /\ m \in Nat
  BY <1>1, <1>6, CutFacts, KeyFacts, MilliFacts
<1>8. seen \in SUBSET Rows /\ again \in SUBSET Rows /\ cuts \in SUBSET Nat
  BY <1>1, <1>4, <1>7, TypeFacts DEF ListInv
<1>9. walk' = [walk EXCEPT !.cursor = k, !.seen = seen, !.again = again, !.cuts = cuts]
  OBVIOUS
<1> HIDE DEF S, P, l, k, m, seen, again, cuts
<1>10. /\ walk' \in Walk /\ walk'.step = "reading" /\ walk'.cursor = k
       /\ walk'.seen = seen /\ walk'.again = again /\ walk'.cuts = cuts
       /\ walk'.whole = walk.whole
  BY <1>1, <1>7, <1>8, <1>9 DEF Walk
<1>11. \A r \in seen : r \in Rows /\ Shown(r)
  BY <1>1, <1>2, <1>4 DEF ListInv, Shown, There, seen
<1>12. ASSUME NEW r \in seen
       PROVE  IF NewestFirst THEN ~Less(Key(r), k) ELSE Milli(rows[r].at) <= m
  <2>1. IF NewestFirst THEN ~Less(Key(r), Key(l)) ELSE Milli(rows[r].at) <= m
    <3>1. CASE r \in walk.seen
      BY <1>6, <3>1, SeenIsBehind DEF S, m
    <3>2. CASE r \in P
      <4>1. ~Before(l, r)
        BY <1>1, <1>4, <1>6, <3>2, Order
      <4> QED
        BY <1>1, <1>4, <1>6, <3>2, <4>1, CursorSplits DEF Before, m
    <3> QED
      BY <3>1, <3>2 DEF seen
  <2> QED
    BY <1>1, <1>6, <1>11, <2>1, CursorSplits DEF k
<1>13. ASSUME NEW r \in walk.whole \ seen
       PROVE  \/ IF NewestFirst THEN Less(Key(r), k) ELSE Less(k, Key(r))
              \/ NewestFirst /\ Milli(rows[r].at) \in cuts
  <2>1. r \in There /\ r \in Rows /\ r \notin walk.seen /\ r \notin P
    BY <1>3, <1>13 DEF ListInv, seen
  <2>2. CASE NewestFirst /\ Milli(rows[r].at) \in walk.cuts
    BY <2>2 DEF cuts
  <2>3. CASE r \in S
    <3>1. Before(l, r)
      BY <1>2, <1>5, <2>1, <2>3
    <3> QED
      BY <1>1, <1>6, <2>1, <3>1, CursorSplits DEF Before, k, m, cuts
  <2>4. r \in S \/ (NewestFirst /\ Milli(rows[r].at) \in walk.cuts)
    BY <1>1, <2>1, BeyondIsAhead DEF Halfway, S
  <2> QED
    BY <2>2, <2>3, <2>4
<1>14. Halfway'
  <2>1. PICK n \in cuts : n = m
    BY DEF cuts
  <2>2. \A r \in seen : Passed(r, n)'
    BY <1>3, <1>10, <1>12, <2>1 DEF Passed, Key, Milli
  <2>3. \A r \in walk.whole \ seen :
            Ahead(r)' \/ (NewestFirst /\ Milli(rows[r].at) \in cuts)
    BY <1>3, <1>10, <1>13 DEF Ahead, Key
  <2>4. walk'.cursor # NoCursor' /\ walk'.cursor.at = n * PerMilli
    BY <1>7, <1>10, <2>1 DEF NoCursor
  <2>5. \A r \in Rows : Milli(rows[r].at)' = Milli(rows[r].at)
    BY DEF Milli
  <2>6. walk.whole \subseteq Rows
    BY TypeFacts DEF ListInv
  <2> QED
    BY <1>3, <1>10, <2>2, <2>3, <2>4, <2>5, <2>6 DEF Halfway
<1>15. NothingTwice'
  BY <1>2, <1>3, <1>10, SeenAgain DEF ListInv, NothingTwice, S, again, cuts
<1>16. NothingMissed'
  BY <1>10 DEF NothingMissed
<1>17. again \subseteq seen
  BY DEF ListInv, again, seen
<1> QED
  BY <1>3, <1>10, <1>11, <1>14, <1>15, <1>16, <1>17 DEF ListInv, ListTypeOK, Shown

-----------------------------------------------------------------------------
(* The cursor moves on.                                                    *)

\* A page with more behind it is full.
LEMMA FullPage ==
    ASSUME TableType, NEW c, HasMore(c)
    PROVE  /\ IsFiniteSet(Page(c)) /\ Cardinality(Page(c)) \in Nat
           /\ limit <= Cardinality(Page(c))
<1> DEFINE S == Beyond(c)
           R == S \ Page(c)
<1>1. Page(c) \subseteq S /\ S \subseteq Rows /\ IsFiniteSet(Rows) /\ limit \in Nat
  BY PageFacts, ListingAssumption DEF ListingAssumption, TableType, There
<1>2. /\ IsFiniteSet(S) /\ IsFiniteSet(Page(c))
      /\ Cardinality(S) \in Nat /\ Cardinality(Page(c)) \in Nat
  BY <1>1, FS_Subset, FS_CardinalityType
<1>3. Page(c) = {r \in S : Cardinality(Preceding(S, r)) < limit}
  BY DEF Page
<1>4. limit < Cardinality(S)
  BY DEF HasMore
<1> HIDE DEF S
<1>5. CASE R = {}
  BY <1>1, <1>2, <1>4, <1>5, FS_Subset
<1>6. CASE R # {}
  <2>1. PICK r \in R : Preceding(R, r) = {}
    BY <1>1, <1>6, FirstRow
  <2>2. r \in S /\ ~(Cardinality(Preceding(S, r)) < limit)
    BY <1>3, <2>1
  <2>3. Preceding(S, r) \subseteq Page(c)
    BY <2>1, PrecedingIsBefore
  <2>4. /\ Cardinality(Preceding(S, r)) <= Cardinality(Page(c))
        /\ Cardinality(Preceding(S, r)) \in Nat
    BY <1>2, <2>3, FS_Subset, FS_CardinalityType
  <2> QED
    BY <1>1, <1>2, <2>2, <2>4
<1> QED
  BY <1>2, <1>5, <1>6

LEMMA CutsGrow ==
    ASSUME NEW a \in Nat, NEW b \in Nat, a < b
    PROVE  a * PerMilli \in Nat /\ b * PerMilli \in Nat /\ a * PerMilli < b * PerMilli
  BY ListingAssumption DEF ListingAssumption

LEMMA CursorMoves == ListInv => CursorMovesOn
<1> SUFFICES ASSUME ListInv, walk.step = "reading", HasMore(walk.cursor), NewestFirst \/ Sparse,
                    walk.cursor # NoCursor
             PROVE  IF NewestFirst THEN Less(CursorOf(Last(Page(walk.cursor))), walk.cursor)
                                   ELSE Less(walk.cursor, CursorOf(Last(Page(walk.cursor))))
  BY DEF CursorMovesOn
<1> DEFINE P == Page(walk.cursor)
           l == Last(P)
<1>1. TableType /\ Halfway /\ walk.cuts \subseteq Nat
  BY TypeFacts DEF ListInv
<1>2. P \subseteq Beyond(walk.cursor) /\ Beyond(walk.cursor) \subseteq There /\ P # {}
  BY <1>1, PageFacts
<1>3. There \subseteq Rows /\ P \subseteq Rows
  BY <1>2 DEF There
<1>4. l \in P /\ Preceding(P, l) = P \ {l}
  BY <1>1, <1>2, <1>3, LastRow
<1> HIDE DEF P, l
<1>5. l \in There /\ l \in Rows /\ (\A r \in P : r = l \/ Before(r, l)) /\ (\A r \in P : Ahead(r))
  BY <1>1, <1>2, <1>3, <1>4, PrecedingIsBefore, BeyondIsAhead
<1>6. /\ CursorOf(l).at = Milli(rows[l].at) * PerMilli /\ CursorOf(l).id = l
      /\ CursorOf(l).at \in Nat /\ CursorOf(l).at <= rows[l].at
      /\ rows[l].at \in Nat /\ l \in Nat /\ Key(l).at = rows[l].at /\ Key(l).id = l
  BY <1>1, <1>5, CutFacts, KeyFacts
<1>7. walk.cursor.at \in Nat /\ walk.cursor.id \in Nat
  <2>1. walk.cursor \in [at : 0 .. MaxTime, id : Rows]
    BY TypeFacts DEF ListInv
  <2>2. 0 .. MaxTime \subseteq Nat /\ Rows \subseteq Nat
    BY ListingAssumption DEF ListingAssumption
  <2>3. walk.cursor.at \in 0 .. MaxTime /\ walk.cursor.id \in Rows
    BY <2>1
  <2> QED
    BY <2>2, <2>3
<1>8. CASE NewestFirst
  <2>1. Less(Key(l), walk.cursor)
    BY <1>4, <1>5, <1>8 DEF Ahead
  <2>2. Less(CursorOf(l), walk.cursor)
    BY <1>6, <1>7, <2>1 DEF Less
  <2> QED
    BY <1>8, <2>2 DEF P, l
<1>9. CASE ~NewestFirst
  <2>1. PICK m \in walk.cuts : walk.cursor.at = m * PerMilli
    BY <1>1 DEF Halfway
  <2>2. m \in Nat
    BY <1>1
  <2>3. \A r \in P : rows[r].at \in Nat /\ m <= Milli(rows[r].at) /\ Milli(rows[r].at) \in Nat
    <3> TAKE r \in P
    <3>1. rows[r].at \in Nat /\ Key(r).at = rows[r].at
      BY <1>1, <1>3, KeyFacts
    <3>2. walk.cursor.at <= rows[r].at
      BY <1>5, <1>7, <1>9, <3>1 DEF Ahead, Less
    <3> QED
      BY <2>1, <2>2, <3>1, <3>2, MilliFacts
  <2>4. \A r \in P : Milli(rows[r].at) <= Milli(rows[l].at)
    <3> TAKE r \in P
    <3>1. ~Less(Key(l), Key(r))
      BY <1>1, <1>3, <1>5, <1>9, Order DEF Before
    <3> QED
      BY <1>1, <1>3, <1>5, <3>1, CursorSplits
  <2>5. CASE Milli(rows[l].at) = m
    <3> DEFINE Q == {q \in There : Milli(rows[q].at) = Milli(rows[l].at)}
    <3>1. Cardinality(Q) < limit
      BY <1>5, <1>9 DEF Sparse
    <3>2. P \subseteq Q
      BY <1>2, <2>2, <2>3, <2>4, <2>5
    <3>3. IsFiniteSet(Q) /\ Cardinality(Q) \in Nat
      BY <1>3, ListingAssumption, FS_Subset, FS_CardinalityType DEF ListingAssumption
    <3> HIDE DEF Q
    <3>4. Cardinality(P) <= Cardinality(Q)
      BY <3>2, <3>3, FS_Subset
    <3>5. limit <= Cardinality(P) /\ Cardinality(P) \in Nat /\ limit \in Nat
      BY <1>1, FullPage, ListingAssumption DEF P, TableType, ListingAssumption
    <3> QED
      BY <3>1, <3>3, <3>4, <3>5
  <2>6. CASE Milli(rows[l].at) # m
    <3>1. m < Milli(rows[l].at) /\ Milli(rows[l].at) \in Nat
      BY <1>4, <2>2, <2>3, <2>6
    <3>2. walk.cursor.at < CursorOf(l).at
      BY <1>6, <2>1, <2>2, <3>1, CutsGrow
    <3>3. Less(walk.cursor, CursorOf(l))
      BY <3>2 DEF Less
    <3> QED
      BY <1>9, <3>3 DEF P, l
  <2> QED
    BY <2>5, <2>6
<1> QED
  BY <1>8, <1>9

-----------------------------------------------------------------------------
(* The theorems.                                                           *)

\* The keys there are when a bootstrap inserts its own came since it counted.
KeyInv ==
    /\ envKeys \in BOOLEAN
    /\ callers \in [Callers -> {"idle", "counted", "admitted"}]
    /\ since \in [Callers -> SUBSET Rows]
    /\ first \subseteq Rows
    /\ \A c \in Callers : callers[c] = "counted" => ~envKeys /\ There \subseteq since[c]

Inv == ListInv /\ KeyInv

LEMMA InvInit == Init => Inv
<1> SUFFICES ASSUME Init PROVE Inv
  OBVIOUS
<1>1. ListTypeOK
  BY ListingAssumption DEF Init, ListInit, ListTypeOK, Row, Walk, NoWalk, ListingAssumption
<1>2. walk.seen = {} /\ walk.again = {} /\ walk.whole = {} /\ walk.step = "idle"
  BY DEF Init, ListInit, NoWalk
<1>3. ListInv
  BY <1>1, <1>2 DEF ListInv, NothingTwice, NothingMissed
<1>4. KeyInv
  BY DEF Init, KeyInv
<1> QED
  BY <1>3, <1>4 DEF Inv

LEMMA ReaderKeeps == ListInv /\ (StartWalk \/ ReadPage) => ListInv'
<1> SUFFICES ASSUME ListInv, ReadPage PROVE ListInv'
  BY StartKeeps
<1>1. walk.step = "reading" /\ UNCHANGED <<kind, limit, now, rows>>
  BY DEF ReadPage
<1>2. CASE ~HasMore(walk.cursor)
  BY <1>1, <1>2, DonePageKeeps DEF ReadPage
<1>3. CASE HasMore(walk.cursor)
  BY <1>1, <1>3, NextPageKeeps DEF ReadPage
<1> QED
  BY <1>2, <1>3

LEMMA ListKeeps == ListInv /\ [Next]_vars => ListInv'
<1> SUFFICES ASSUME ListInv, [Next]_vars PROVE ListInv'
  OBVIOUS
<1>1. CASE OtherRows
  <2>1. PICK r \in Rows : Open(r) \/ Leave(r)
    BY <1>1 DEF OtherRows
  <2> QED
    BY <2>1, OpensKeeps, LeaveKeeps DEF Open
<1>2. ASSUME NEW r \in Rows, RowCommits(r) PROVE ListInv'
  BY <1>2, CommitKeeps DEF RowCommits
<1>3. CASE Tick
  BY <1>3, TickKeeps
<1>4. ASSUME NEW c \in Callers, BootstrapCounts(c) \/ Admit(c) \/ OtherRequest(c) PROVE ListInv'
  BY <1>4, UnchangedKeeps DEF BootstrapCounts, Admit, OtherRequest, Checked
<1>5. ASSUME NEW c \in Callers, NEW r \in Rows, BootstrapInserts(c, r) \/ CreateKey(c, r)
      PROVE  ListInv'
  BY <1>5, OpensKeeps DEF BootstrapInserts, CreateKey
<1>6. ASSUME NEW c \in Callers, NEW r \in Rows, RevokeKey(c, r) PROVE ListInv'
  BY <1>6, LeaveKeeps DEF RevokeKey
<1>7. CASE Reader
  BY <1>7, ReaderKeeps DEF Reader
<1>8. CASE UNCHANGED vars
  BY <1>8, UnchangedKeeps DEF vars
<1> QED
  BY <1>1, <1>2, <1>3, <1>4, <1>5, <1>6, <1>7, <1>8 DEF Next

\* Requests that go on counting see no new row but those that commit now.
LEMMA KeysKeep == Inv /\ [Next]_vars => KeyInv'
<1> SUFFICES ASSUME Inv, [Next]_vars PROVE KeyInv'
  OBVIOUS
<1> USE DEF KeyInv, Inv
<1>0. rows \in [Rows -> Row]
  BY TypeFacts DEF ListInv, TableType
<1>1. ASSUME NEW r \in Rows, Opens(r) PROVE There' = There
  BY <1>0, <1>1 DEF Opens, There
<1>2. ASSUME NEW r \in Rows, Leave(r) PROVE There' \subseteq There
  BY <1>0, <1>2 DEF Leave, Leaves, There
<1>3. CASE OtherRows
  <2>1. There' \subseteq There
    BY <1>1, <1>2, <1>3 DEF OtherRows, Open
  <2> QED
    BY <1>3, <2>1 DEF OtherRows, keyVars
<1>4. ASSUME NEW r \in Rows, RowCommits(r) PROVE KeyInv'
  <2>1. There' \subseteq There \cup {r}
    BY <1>0, <1>4 DEF RowCommits, Commit, There
  <2> QED
    BY <1>4, <2>1 DEF RowCommits
<1>5. CASE (Tick \/ StartWalk \/ ReadPage) /\ UNCHANGED keyVars
  BY <1>5 DEF Tick, StartWalk, ReadPage, keyVars, There
<1>6. ASSUME NEW c \in Callers, BootstrapCounts(c) \/ Admit(c) PROVE KeyInv'
  BY <1>6 DEF BootstrapCounts, NoKeys, Admit, Checked, listVars, There
<1>7. ASSUME NEW c \in Callers, OtherRequest(c) PROVE KeyInv'
  BY <1>7 DEF OtherRequest, Ended, listVars, There
<1>8. ASSUME NEW c \in Callers, NEW r \in Rows, BootstrapInserts(c, r) \/ CreateKey(c, r)
      PROVE  KeyInv'
  <2>1. There' = There
    BY <1>1, <1>8 DEF BootstrapInserts, CreateKey
  <2> QED
    BY <1>8, <2>1 DEF BootstrapInserts, CreateKey, Ended
<1>9. ASSUME NEW c \in Callers, NEW r \in Rows, RevokeKey(c, r) PROVE KeyInv'
  <2>1. There' \subseteq There
    BY <1>2, <1>9 DEF RevokeKey
  <2> QED
    BY <1>9, <2>1 DEF RevokeKey, Ended
<1>10. CASE UNCHANGED vars
  BY <1>10 DEF vars, keyVars, listVars, There
<1> QED
  BY <1>3, <1>4, <1>5, <1>6, <1>7, <1>8, <1>9, <1>10 DEF Next, Reader

LEMMA InvAlways == Spec => []Inv
<1>1. Inv /\ [Next]_vars => Inv'
  BY ListKeeps, KeysKeep DEF Inv
<1> QED
  BY <1>1, InvInit, PTL DEF Spec

\* Every variable keeps its type (the schema of the listed tables, keys.rs).
THEOREM ListingsTypeCorrect == Spec => []TypeOK
<1>1. Inv => TypeOK
  BY DEF Inv, ListInv, KeyInv, TypeOK
<1> QED
  BY <1>1, InvAlways, PTL

\* A reader that follows the cursors to the end misses only rows of a
\* millisecond in which a page ended, and none in the inbox's order (the
\* cursors of sessions.rs, workers.rs, keys.rs and inbox.rs).
THEOREM ReadersMissOnlyAtCuts == Spec => []NothingMissed
<1>1. Inv => NothingMissed
  BY DEF Inv, ListInv
<1> QED
  BY <1>1, InvAlways, PTL

\* A reader sees no row on two pages, but in the inbox's order one of a
\* millisecond in which a page ended (the same cursors).
THEOREM ReadersSeeTwiceOnlyAtCuts == Spec => []NothingTwice
<1>1. Inv => NothingTwice
  BY DEF Inv, ListInv
<1> QED
  BY <1>1, InvAlways, PTL

\* The next cursor is beyond the present one, in the inbox's order when a page
\* holds more than a millisecond's rows: the reader gets to the end (the same
\* cursors).
THEOREM ReadersGetOn == Spec => []CursorMovesOn
<1>1. Inv => CursorMovesOn
  BY CursorMoves DEF Inv
<1> QED
  BY <1>1, InvAlways, PTL

\* Bootstrap adds a key only beside keys stored after it counted
\* (bootstrap_api_key, keys.rs).
THEOREM BootstrapAddsTheFirst == Spec => BootstrapOnlyFirst
<1>1. ASSUME Inv, [Next]_vars, NEW r \in first' \ first
      PROVE  ~envKeys /\ \E c \in Callers : callers[c] = "counted" /\ There \subseteq since[c]
  <2>1. PICK c \in Callers, q \in Rows : BootstrapInserts(c, q)
    BY <1>1 DEF Next, vars, keyVars, OtherRows, RowCommits, BootstrapCounts, Admit, OtherRequest,
                CreateKey, RevokeKey, Checked, Reader
  <2> QED
    BY <1>1, <2>1 DEF BootstrapInserts, Inv, KeyInv
<1>2. Inv /\ [Next]_vars =>
        [\A r \in first' \ first : ~envKeys /\
            \E c \in Callers : callers[c] = "counted" /\ There \subseteq since[c]]_vars
  BY <1>1
<1> QED
  BY <1>2, InvAlways, PTL DEF Spec, BootstrapOnlyFirst
=============================================================================
