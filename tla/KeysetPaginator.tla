-------------------------- MODULE KeysetPaginator ---------------------------
(***************************************************************************)
(* The keyset paginator of src/utils/pagination/cursor-pagination.ts:      *)
(* buildPaginator and Paginator.paginate, called again and again by a      *)
(* client that follows the cursors of the answers, forward only or to and  *)
(* fro, while rows of the table are inserted and deleted.                  *)
(*                                                                         *)
(* A cursor is the values of the pagination keys of one row.  A date is    *)
(* stored in microseconds; the cursor has its milliseconds (getTime), and  *)
(* the query truncates the column to compare it, but not to sort by it.    *)
(***************************************************************************)
EXTENDS Integers, FiniteSets, Sequences

CONSTANTS Ids,          \* values of the id column
          KeyChoices,   \* values of the paginationKeys option
          Clients,      \* "forward" follows afterCursor, "browse" both cursors
          Limits,       \* values of query.limit, 0 for none
          DefaultLimit, \* Paginator.limit: 100
          Milli,        \* microseconds in a millisecond
          MaxTime       \* bound on the timestamps, for model checking

ASSUME PaginatorAssumption ==
    /\ Ids \subseteq Nat /\ IsFiniteSet(Ids)
    /\ KeyChoices \subseteq {<<"id">>, <<"createdAt", "id">>}
    /\ Clients \subseteq {"forward", "browse"}
    /\ Limits \subseteq Nat /\ DefaultLimit \in Nat \ {0}
    /\ Milli \in Nat \ {0} /\ MaxTime \in Nat

VARIABLES rows,       \* ids of the rows the query's builder selects
          dead,       \* ids that were used once
          created,    \* Ids -> createdAt
          client,     \* none yet, or who walks
          keys, order, limit,              \* of the Paginator
          after, before,                   \* afterCursor, beforeCursor
          nextAfter, nextBefore,           \* the cursors it answers with
          pc,         \* the client is idle, or a page was asked for or answered
          page,       \* the rows of the answer
          seen, again, stable, cursors,    \* history of a forward walk
          came, prev, turned, expected,    \* history of a browsing client
          calm        \* history: queries since the table last changed, up to 3

table == <<rows, dead, created>>
options == <<client, keys, order, limit>>
asked == <<after, before>>
answer == <<nextAfter, nextBefore, page>>
forwardHistory == <<seen, again, stable, cursors>>
browseHistory == <<came, prev, turned, expected>>
vars == <<rows, dead, created, client, keys, order, limit, after, before, nextAfter, nextBefore,
          pc, page, seen, again, stable, cursors, came, prev, turned, expected, calm>>

Times == 0 .. MaxTime
NoCursor == <<>>
CursorValues == {NoCursor} \cup Seq(Nat)

TypeOK ==
    /\ rows \subseteq Ids /\ dead \subseteq Ids /\ rows \cap dead = {}
    /\ created \in [Ids -> Times]
    /\ client \in Clients \cup {"none"} /\ (client # "none" => keys \in KeyChoices)
    /\ order \in {"ASC", "DESC"} /\ limit \in Nat \ {0}
    /\ {after, before, nextAfter, nextBefore} \subseteq CursorValues
    /\ pc \in {"idle", "query", "answered"}
    /\ page \subseteq Ids
    /\ seen \subseteq Ids /\ again \subseteq seen /\ stable \subseteq rows /\ cursors \subseteq seen
    /\ came \in {"forward", "back"} /\ turned \in BOOLEAN
    /\ prev \subseteq Ids /\ expected \subseteq Ids
    /\ calm \in 0 .. 3

Init ==
    /\ rows = {} /\ dead = {}
    /\ created = [i \in Ids |-> 0]
    /\ client = "none" /\ keys = <<"id">> /\ order = "DESC" /\ limit = DefaultLimit
    /\ after = NoCursor /\ before = NoCursor
    /\ nextAfter = NoCursor /\ nextBefore = NoCursor
    /\ pc = "idle" /\ page = {}
    /\ seen = {} /\ again = {} /\ stable = {} /\ cursors = {}
    /\ came = "forward" /\ prev = {} /\ turned = FALSE /\ expected = {}
    /\ calm = 0
-----------------------------------------------------------------------------
\* date_trunc('milliseconds', t), and what getTime keeps of t.
Truncate(t) == (t \div Milli) * Milli

\* The values a row is sorted by, and those a cursor is made of and compared with.
Stored(i) == [n \in DOMAIN keys |-> IF keys[n] = "createdAt" THEN created[i] ELSE i]
Encoded(i) == [n \in DOMAIN keys |-> IF keys[n] = "createdAt" THEN Truncate(created[i]) ELSE i]

\* k1 < :k1 or (k1 = :k1 and k2 < :k2), and ORDER BY k1, k2.
Less(v, w) ==
    \E n \in DOMAIN v : v[n] < w[n] /\ \A m \in 1 .. (n - 1) : v[m] = w[m]

\* i comes before j in the order the client asked for.
Precedes(i, j) ==
    IF order = "ASC" THEN Less(Stored(i), Stored(j)) ELSE Less(Stored(j), Stored(i))

\* !hasAfterCursor() && hasBeforeCursor(): the query runs in the flipped order.
Backward == after = NoCursor /\ before # NoCursor

\* Mutants: _buildCursorQuery, "Original method from the library", which does not
\* truncate the column; >= and <= in the place of > and <.
BeyondOriginal(c, i) ==
    IF (order = "ASC") = (after # NoCursor) THEN Less(c, Stored(i)) ELSE Less(Stored(i), c)
BeyondOrAt(c, i) ==
    IF (order = "ASC") = (after # NoCursor) THEN ~Less(Encoded(i), c) ELSE ~Less(c, Encoded(i))

\* getOperator: > or < by the order, turned round for a beforeCursor.
Beyond(c, i) ==
    IF (order = "ASC") = (after # NoCursor) THEN Less(c, Encoded(i)) ELSE Less(Encoded(i), c)

\* The where clause: afterCursor counts before beforeCursor.
Selected(i) ==
    /\ after # NoCursor => Beyond(after, i)
    /\ Backward => Beyond(before, i)

\* data is what LIMIT keeps of the selected rows in the order of the query.
Taken(data, from) ==
    /\ IF Cardinality(from) <= limit THEN data = from ELSE Cardinality(data) = limit
    /\ \A i \in data, j \in from \ data : IF Backward THEN Precedes(j, i) ELSE Precedes(i, j)

\* first and last are the ends of data in the order asked for.
Ends(first, last, data) ==
    \A i \in data : (i # first => Precedes(first, i)) /\ (i # last => Precedes(i, last))
-----------------------------------------------------------------------------
Insert(i) ==
    /\ i \notin rows \cup dead
    /\ rows' = rows \cup {i}
    /\ \E t \in Times : created' = [created EXCEPT ![i] = t]
    /\ calm' = 0
    /\ UNCHANGED <<dead, options, asked, answer, pc, forwardHistory, browseHistory>>

Delete(i) ==
    /\ i \in rows
    /\ rows' = rows \ {i} /\ dead' = dead \cup {i}
    /\ stable' = stable \ {i}
    /\ calm' = 0
    /\ UNCHANGED <<created, options, asked, answer, pc, seen, again, cursors, browseHistory>>

\* buildPaginator for the first page: no cursors, and no limit means the default.
Begin(c, ks, o, l) ==
    /\ pc = "idle"
    /\ client' = c /\ keys' = ks /\ order' = o
    /\ limit' = IF l = 0 THEN DefaultLimit ELSE l
    /\ pc' = "query"
    /\ stable' = IF c = "forward" THEN rows ELSE {}
    /\ UNCHANGED <<table, asked, answer, seen, again, cursors, browseHistory, calm>>

\* Mutant: without entities.reverse() after a query in the flipped order.
NextCursorsUnreversed(first, last, hasMore) ==
    /\ nextAfter' = IF before # NoCursor \/ hasMore
                    THEN Encoded(IF Backward THEN first ELSE last) ELSE nextAfter
    /\ nextBefore' = IF after # NoCursor \/ (hasMore /\ before # NoCursor)
                     THEN Encoded(IF Backward THEN last ELSE first) ELSE nextBefore

\* The cursors of an answer.
NextCursors(first, last, hasMore) ==
    /\ nextAfter' = IF before # NoCursor \/ hasMore THEN Encoded(last) ELSE nextAfter
    /\ nextBefore' = IF after # NoCursor \/ (hasMore /\ before # NoCursor)
                     THEN Encoded(first) ELSE nextBefore

\* paginate: one query for limit + 1 rows.
Paginate ==
    LET from == {i \in rows : Selected(i)}
    IN  /\ pc = "query"
        /\ pc' = "answered"
        /\ \E data \in SUBSET from :
              /\ Taken(data, from)
              /\ page' = data
              /\ IF data = {}
                 THEN UNCHANGED <<nextAfter, nextBefore>>
                 ELSE \E first, last \in data :
                         /\ Ends(first, last, data)
                         /\ NextCursors(first, last, Cardinality(from) > limit)
              /\ IF client = "forward"
                 THEN seen' = seen \cup data /\ again' = again \cup (seen \cap data)
                 ELSE UNCHANGED <<seen, again>>
        /\ calm' = IF calm < 3 THEN calm + 1 ELSE 3
        /\ UNCHANGED <<table, options, asked, stable, cursors, browseHistory>>

\* Mutant: one Paginator for the whole walk, whose answer's cursors nothing resets.
AskReused(a, b) ==
    /\ pc = "answered"
    /\ pc' = "query"
    /\ after' = a /\ before' = b
    /\ UNCHANGED <<table, options, nextAfter, nextBefore, page, seen, again, stable, calm>>

\* The client asks for another page: buildPaginator makes a new Paginator.
Ask(a, b) ==
    /\ pc = "answered"
    /\ pc' = "query"
    /\ after' = a /\ before' = b
    /\ nextAfter' = NoCursor /\ nextBefore' = NoCursor
    /\ UNCHANGED <<table, options, page, seen, again, stable, calm>>

\* What a browsing client remembers: the page it left, and the one it turns back to.
Remember(way) ==
    IF client = "browse"
    THEN came' = way /\ prev' = page /\ turned' = (pc = "answered" /\ came # way) /\ expected' = prev
    ELSE UNCHANGED browseHistory

AskNext ==
    /\ nextAfter # NoCursor
    /\ Ask(nextAfter, NoCursor)
    /\ cursors' = IF client = "forward" THEN cursors \cup {nextAfter[Len(nextAfter)]} ELSE cursors
    /\ Remember("forward")

AskPrevious ==
    /\ client = "browse" /\ nextBefore # NoCursor
    /\ Ask(NoCursor, nextBefore)
    /\ Remember("back")
    /\ UNCHANGED cursors

Next ==
    \/ \E i \in Ids : Insert(i) \/ Delete(i)
    \/ \E c \in Clients, ks \in KeyChoices, o \in {"ASC", "DESC"}, l \in Limits : Begin(c, ks, o, l)
    \/ Paginate \/ AskNext \/ AskPrevious

Spec == Init /\ [][Next]_vars

\* The database answers, and a client that walks forward asks on.
FairSpec == Spec /\ WF_vars(Paginate) /\ WF_vars(client = "forward" /\ AskNext)
-----------------------------------------------------------------------------
\* j stands behind i in the order asked for, but not for the cursor of i; the two
\* are rows of one millisecond whose ids and microseconds disagree.
HiddenBy(j, i) ==
    /\ Precedes(i, j)
    /\ ~(IF order = "ASC" THEN Less(Encoded(i), Encoded(j)) ELSE Less(Encoded(j), Encoded(i)))

Done == pc = "answered" /\ nextAfter = NoCursor

(* A finished forward walk gave every row that was there all the time, but *)
(* for those that share the millisecond of a cursor's row and stand behind *)
(* it by their microseconds though not by their ids.                       *)
ForwardComplete ==
    client = "forward" /\ Done =>
        \A j \in stable : j \in seen \/ \E i \in cursors : HiddenBy(j, i)

(* A forward walk gives a row twice only if it shares the millisecond of a *)
(* cursor's row and stands before it by microseconds, behind it by id.     *)
RepeatsExplained ==
    \A i \in again : \E j \in cursors : HiddenBy(j, i)

(* A client that turns round while the table is at rest is given the page  *)
(* it came from, all of it and nothing else, whichever way it was going,   *)
(* unless ids and microseconds disagree somewhere.                         *)
ThereAndBack ==
    pc = "answered" /\ turned /\ calm = 3 /\ (\A i, j \in rows : ~HiddenBy(j, i)) =>
        page = expected

(* A forward walk comes to an end.                                         *)
ForwardEnds == (client = "forward") ~> Done
=============================================================================
