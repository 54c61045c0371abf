---------------------------- MODULE ThreadPages ----------------------------
(***************************************************************************)
(* Walking a list page by page while it changes: the inbox (newest         *)
(* activity first, conversations without a message last) and a thread      *)
(* (newest message first, ids in the order of insertion, which a backfill  *)
(* breaks).  Both resume behind a keyset cursor of the sort key and id.    *)
(*                                                                         *)
(* Time is in ticks finer than the millisecond a cursor can carry.         *)
(***************************************************************************)
EXTENDS Naturals, Sequences, FiniteSets

CONSTANTS
    LastTick,      \* ticks are 1 .. LastTick
    TicksPerMilli, \* ticks in a millisecond
    RowLimit,      \* bound: rows ever inserted
    PageSize,      \* rows of a page
    HiddenIds,     \* rows of a kind the reader may not see
    MaxMoves       \* bound: changes of the sort key

ASSUME PagesAssumption ==
    /\ LastTick \in Nat /\ TicksPerMilli \in Nat \ {0} /\ RowLimit \in Nat
    /\ PageSize \in Nat \ {0} /\ HiddenIds \subseteq Nat /\ MaxMoves \in Nat

VARIABLES
    sortKey,  \* the sort key of each row, by id
    walk,     \* the walk of a client
    moves     \* changes of the sort key so far

pageVars == <<sortKey, walk, moves>>

NULL == 0
Rows == DOMAIN sortKey
NoCursor == [id |-> 0]
NoWalk == [cursor |-> NoCursor, open |-> FALSE]

\* A column of precision 3 is rounded when it is written, so that the driver,
\* which drops what is below the millisecond, reads what is stored.
StoredAt_Fine(t) == t
StoredAt(t) == TicksPerMilli * ((t + TicksPerMilli \div 2) \div TicksPerMilli)
DriverReads(t) == TicksPerMilli * (t \div TicksPerMilli)

encodeKeysetCursor(at, id) == [at |-> DriverReads(at), id |-> id]

\* ORDER BY at DESC NULLS LAST, id DESC.
SortsBefore(r, s) ==
    \/ sortKey[r] # NULL /\ sortKey[s] = NULL
    \/ sortKey[r] # NULL /\ sortKey[s] # NULL /\ sortKey[r] > sortKey[s]
    \/ sortKey[r] = sortKey[s] /\ r > s

\* A comparison with NULL is not true.
\* The null case is spelt out.
AfterCursor(r, c) ==
    \/ /\ c.at # NULL /\ sortKey[r] # NULL
       /\ sortKey[r] < c.at \/ (sortKey[r] = c.at /\ r < c.id)
    \/ c.at # NULL /\ sortKey[r] = NULL
    \/ c.at = NULL /\ sortKey[r] = NULL /\ r < c.id

Visible == Rows \ HiddenIds

\* The filter on kinds is in the query, never on its answer.
listInbox(c) == {r \in Visible : c = NoCursor \/ AfterCursor(r, c)}

PagesInit ==
    /\ sortKey = << >>
    /\ walk = NoWalk
    /\ moves = 0

\* A row is inserted: a live one, one from history with an old time, or a
\* conversation whose message lost the race for its id and has no time.
InsertRow(t) ==
    /\ Len(sortKey) < RowLimit
    /\ sortKey' = Append(sortKey, IF t = NULL THEN NULL ELSE StoredAt(t))
    /\ UNCHANGED <<walk, moves>>

\* A message moves its conversation; the platform's time replaces the time a
\* queued send was written.
MoveRow(r, t) ==
    /\ moves < MaxMoves
    /\ moves' = moves + 1
    /\ sortKey' = [sortKey EXCEPT ![r] = StoredAt(t)]
    /\ walk' = IF walk.open THEN [walk EXCEPT !.moved = @ \cup {r}] ELSE walk

\* findThreadPosition: the deprecated beforeId is translated to the sort key.
findThreadPosition(r) == encodeKeysetCursor(sortKey[r], r)

StartWalk(c) ==
    /\ ~walk.open
    /\ walk' = [cursor |-> c, open |-> TRUE, moved |-> {},
                due |-> {r \in Visible : c = NoCursor \/ (r # c.id /\ SortsBefore(c.id, r))},
                told |-> [r \in 1 .. RowLimit |-> 0]]
    /\ UNCHANGED <<sortKey, moves>>

\* The rows of a page are those with fewer than PageSize before them; one row
\* more than the page says whether another follows.
RowsBefore(rows, r) == {s \in rows : SortsBefore(s, r)}
readPage(rows) == [items |-> {r \in rows : Cardinality(RowsBefore(rows, r)) < PageSize},
                   hasMore |-> Cardinality(rows) > PageSize]

LastOf(items) == CHOOSE r \in items : \A s \in items : s = r \/ SortsBefore(s, r)

NextPage ==
    LET page == readPage(listInbox(walk.cursor))
        last == LastOf(page.items)
    IN
    /\ walk.open
    /\ walk' = [walk EXCEPT !.told = [r \in 1 .. RowLimit |-> @[r] + IF r \in page.items THEN 1 ELSE 0],
                            !.open = page.hasMore,
                            !.cursor = IF page.hasMore THEN encodeKeysetCursor(sortKey[last], last) ELSE NoCursor]
    /\ UNCHANGED <<sortKey, moves>>

\* The client goes away or starts over.
DropWalk == walk # NoWalk /\ walk' = NoWalk /\ UNCHANGED <<sortKey, moves>>

PagesNext ==
    \/ \E t \in NULL .. LastTick : InsertRow(t)
    \/ \E r \in Rows, t \in 1 .. LastTick : MoveRow(r, t)
    \/ StartWalk(NoCursor) \/ \E r \in Rows : StartWalk(findThreadPosition(r))
    \/ NextPage \/ DropWalk

PagesSpec == PagesInit /\ [][PagesNext]_pageVars

-----------------------------------------------------------------------------
\* EveryRowIsToldOnce: a complete walk tells every row that was there when it began and did not
\* move, and no such row twice: whatever is inserted meanwhile, however many
\* rows share a millisecond, and also the rows without a time (the summary of
\* GET /inbox, the comments of both listings).
EveryRowIsToldOnce ==
    walk # NoWalk =>
        \A r \in Rows \ walk.moved :
            /\ walk.told[r] <= 1
            /\ (~walk.open /\ r \in walk.due) => walk.told[r] = 1
=============================================================================
