------------------------------ MODULE Listings ------------------------------
(***************************************************************************)
(* The paginated listings of the control plane (GET /sessions, /workers,   *)
(* /api-keys, /agents/:id/inbox) and a reader that follows next_cursor     *)
(* from page to page while the table changes                               *)
(* (crates/server/src/sessions.rs, workers.rs, keys.rs, inbox.rs).         *)
(*                                                                         *)
(* A page is the first rows, in the order of the listing, beyond a cursor  *)
(* that names the last row of the page before.  The cursor has the row's   *)
(* time in milliseconds; the database compares it with microseconds.       *)
(*                                                                         *)
(* A row has the time at which its transaction began and shows when that   *)
(* commits.  A row leaves a listing when it is deleted, revoked, promoted, *)
(* or no longer has the status that is asked for.                          *)
(*                                                                         *)
(* An operator named Mutant.. is a wrong variant of the one after it.  It  *)
(* is used nowhere: put in its place, it makes a property fail.            *)
(***************************************************************************)
EXTENDS Integers, FiniteSets

CONSTANTS
    Rows,           \* row ids
    MaxTime,        \* bound: times are 0 .. MaxTime, in the database's unit
    PerMilli,       \* how many of them make a millisecond
    Limits          \* the page sizes readers ask for

ASSUME ListingAssumption ==
    /\ Rows \subseteq Nat /\ IsFiniteSet(Rows)
    /\ MaxTime \in Nat /\ PerMilli \in Nat \ {0}
    /\ Limits \subseteq Nat \ {0}

VARIABLES
    kind,       \* which listing
    limit,      \* the reader's page size
    now,        \* time
    rows,       \* the table
    walk        \* the reader

listVars == <<kind, limit, now, rows, walk>>

Kinds == {"sessions", "workers", "keys", "inbox"}
Row == [is : {"none", "open", "there", "gone"}, at : 0 .. MaxTime]
NoCursor == [at |-> -1, id |-> -1]

\* seen: rows on the pages read, again: those that were on two pages; whole:
\* rows in the listing since the walk began; cuts: the milliseconds in which a
\* page ended.
Walk == [step : {"idle", "reading", "done"},
         cursor : [at : 0 .. MaxTime, id : Rows] \cup {NoCursor},
         seen : SUBSET Rows, again : SUBSET Rows, whole : SUBSET Rows, cuts : SUBSET Nat]
NoWalk == [step |-> "idle", cursor |-> NoCursor, seen |-> {}, again |-> {}, whole |-> {}, cuts |-> {}]

ListTypeOK ==
    /\ kind \in Kinds /\ limit \in Limits /\ now \in 0 .. MaxTime
    /\ rows \in [Rows -> Row]
    /\ walk \in Walk

ListInit ==
    /\ kind \in Kinds /\ limit \in Limits /\ now = 0
    /\ rows = [r \in Rows |-> [is |-> "none", at |-> 0]]
    /\ walk = NoWalk

There == {r \in Rows : rows[r].is = "there"}
Milli(t) == t \div PerMilli

-----------------------------------------------------------------------------
(* The table.                                                              *)

\* now() of the INSERT's transaction is its start.
Opens(r) == rows[r].is = "none" /\ rows' = [rows EXCEPT ![r] = [is |-> "open", at |-> now]]

Open(r) == Opens(r) /\ UNCHANGED <<kind, limit, now, walk>>

Commit(r) ==
    /\ rows[r].is = "open"
    /\ rows' = [rows EXCEPT ![r].is = "there"]
    /\ UNCHANGED <<kind, limit, now, walk>>

Leaves(r) == rows[r].is = "there" /\ rows' = [rows EXCEPT ![r].is = "gone"]

Leave(r) ==
    /\ Leaves(r)
    /\ walk' = [walk EXCEPT !.whole = @ \ {r}]
    /\ UNCHANGED <<kind, limit, now>>

Tick ==
    /\ now < MaxTime
    /\ now' = now + 1
    /\ UNCHANGED <<kind, limit, rows, walk>>

-----------------------------------------------------------------------------
(* Pages.                                                                  *)

\* (at, id) as the database compares them.
Less(a, b) == a.at < b.at \/ (a.at = b.at /\ a.id < b.id)
Key(r) == [at |-> rows[r].at, id |-> r]

MutantOlder(c) == {r \in There : c # NoCursor => ~Less(c, Key(r))}
Older(c) == {r \in There : c # NoCursor => Less(Key(r), c)}
Newer(c) == {r \in There : c # NoCursor => Less(c, Key(r))}

SessionRows(c) == Older(c)
WorkerRows(c) == Older(c)
KeyRows(c) == Older(c)
InboxRows(c) == Newer(c)

NewestFirst == kind # "inbox"
Beyond(c) == CASE kind = "sessions" -> SessionRows(c)
               [] kind = "workers" -> WorkerRows(c)
               [] kind = "keys" -> KeyRows(c)
               [] kind = "inbox" -> InboxRows(c)

\* Rows of S before r, in the order of the listing.
Preceding(S, r) == {q \in S : IF NewestFirst THEN Less(Key(r), Key(q)) ELSE Less(Key(q), Key(r))}
Page(c) == LET S == Beyond(c) IN {r \in S : Cardinality(Preceding(S, r)) < limit}

Last(page) == CHOOSE r \in page : Preceding(page, r) = page \ {r}

\* encode_cursor: to_rfc3339_opts(Millis).
MutantCursorOf(r) == [at |-> (Milli(rows[r].at) + 1) * PerMilli, id |-> r]
CursorOf(r) == [at |-> Milli(rows[r].at) * PerMilli, id |-> r]

\* LIMIT limit + 1 tells whether there is more.
MutantHasMore(c) == Cardinality(Beyond(c)) >= limit + 2
HasMore(c) == Cardinality(Beyond(c)) > limit

StartWalk ==
    /\ walk.step = "idle"
    /\ walk' = [NoWalk EXCEPT !.step = "reading", !.whole = There]
    /\ UNCHANGED <<kind, limit, now, rows>>

ReadPage ==
    LET c == walk.cursor page == Page(c)
    IN  /\ walk.step = "reading"
        /\ \/ /\ ~HasMore(c)
              /\ walk' = [walk EXCEPT !.step = "done", !.seen = @ \cup page,
                                      !.again = @ \cup (walk.seen \cap page)]
           \/ /\ HasMore(c)
              /\ walk' = [walk EXCEPT !.cursor = CursorOf(Last(page)), !.seen = @ \cup page,
                                      !.again = @ \cup (walk.seen \cap page),
                                      !.cuts = @ \cup {Milli(rows[Last(page)].at)}]
        /\ UNCHANGED <<kind, limit, now, rows>>

-----------------------------------------------------------------------------
\* A reader that follows the cursors to the end has seen every row that was in
\* the listing all the while; newest first, save rows of a millisecond in which
\* a page ended.
NothingMissed ==
    walk.step = "done" => \A r \in walk.whole \ walk.seen :
                            NewestFirst /\ Milli(rows[r].at) \in walk.cuts

\* No row is on two pages, but, oldest first, one of a millisecond in which a
\* page ended.
NothingTwice ==
    \A r \in walk.again : ~NewestFirst /\ Milli(rows[r].at) \in walk.cuts

\* A page always holds more rows than there are in any one millisecond.
Sparse == \A r \in There : Cardinality({q \in There : Milli(rows[q].at) = Milli(rows[r].at)}) < limit

\* The next cursor is beyond the present one, so that a reader gets to the last
\* page.  Oldest first, that takes pages larger than a millisecond's rows:
\* otherwise a reader can be given the same page for ever.
CursorMovesOn ==
    walk.step = "reading" /\ HasMore(walk.cursor) /\ (NewestFirst \/ Sparse) =>
        \/ walk.cursor = NoCursor
        \/ IF NewestFirst THEN Less(CursorOf(Last(Page(walk.cursor))), walk.cursor)
                          ELSE Less(walk.cursor, CursorOf(Last(Page(walk.cursor))))
=============================================================================
