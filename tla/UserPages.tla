------------------------------ MODULE UserPages -----------------------------
(***************************************************************************)
(* Listing the users page by page: findAllUsers and findAllUsersCursor of  *)
(* UserService (src/api/user/user.service.ts), called again and again by a *)
(* client that follows hasNext or afterCursor until there is no next page. *)
(* Meanwhile users sign up and are soft-deleted.                           *)
(*                                                                         *)
(* A row's createdAt is a Postgres timestamp: a millisecond and the        *)
(* microseconds within it.  The service reads it back as a JavaScript      *)
(* Date, which keeps the millisecond only.                                 *)
(***************************************************************************)
EXTENDS Integers, FiniteSets

CONSTANTS Ids,        \* uuids, ordered as Postgres orders them
          Limits,     \* page sizes a client asks for
          Modes,      \* which of the two listings is called
          Micros,     \* the microsecond parts a createdAt may have
          MaxMilli,   \* bound on the milliseconds, for model checking
          MaxPage     \* bound on the page number, for model checking

ASSUME PagesAssumption ==
    /\ Ids \subseteq Nat /\ IsFiniteSet(Ids)
    /\ Limits \subseteq Nat
    /\ Modes \subseteq {"cursor", "offset"}
    /\ Micros \subseteq Nat /\ 0 \in Micros
    /\ MaxMilli \in Nat /\ MaxPage \in Nat

Stamps == (0 .. MaxMilli) \X Micros
NoId == -1

VARIABLES rows,       \* ids of the rows of the user table
          created,    \* their createdAt
          hidden,     \* the soft-deleted ones
          mode, limit, \* the listing being walked
          pc,         \* where the client or the handler is
          cursor,     \* afterCursor of the request, NoId on the first page
          bound,      \* what the where clause compares with: <<createdAt, id>>
          page,       \* page of the request
          counted,    \* the total that count() returned
          seen,       \* ids the client was given so far
          again,      \* history: ids it was given more than once
          stable,     \* history: ids visible since the walk began
          cursors,    \* history: cursors used
          disturbed   \* history: what happened to the listing under an offset walk

table == <<rows, created, hidden>>
request == <<mode, limit, cursor, bound, page, counted>>
given == <<seen, again>>
vars == <<rows, created, hidden, mode, limit, pc, cursor, bound, page, counted,
          seen, again, stable, cursors, disturbed>>

NoBound == <<<<0, 0>>, NoId>>

TypeOK ==
    /\ rows \subseteq Ids /\ hidden \subseteq rows
    /\ created \in [Ids -> Stamps]
    /\ mode \in Modes \cup {"none"} /\ limit \in Nat
    /\ pc \in {"idle", "ask", "lookup", "rows", "count", "both", "done"}
    /\ cursor \in Ids \cup {NoId}
    /\ bound \in Stamps \X (Ids \cup {NoId})
    /\ page \in Nat /\ counted \in Nat
    /\ seen \subseteq Ids /\ again \subseteq seen /\ cursors \subseteq seen
    /\ stable \subseteq rows
    /\ disturbed \subseteq {"insertion", "deletion", "torn"}

Init ==
    /\ rows = {} /\ hidden = {}
    /\ created = [i \in Ids |-> <<0, 0>>]
    /\ mode = "none" /\ limit = 0
    /\ pc = "idle"
    /\ cursor = NoId /\ bound = NoBound
    /\ page = 1 /\ counted = 0
    /\ seen = {} /\ again = {} /\ stable = {} /\ cursors = {} /\ disturbed = {}
-----------------------------------------------------------------------------
Visible == rows \ hidden

\* t is an earlier timestamp than s.
Earlier(t, s) == t[1] < s[1] \/ (t[1] = s[1] /\ t[2] < s[2])

\* new Date(createdAt), bound to the next query.
Millis(t) == <<t[1], 0>>
WholeMilli(t) == t[2] = 0

\* i stands before j: orderBy desc(createdAt), desc(id).
Ahead(i, j) == Earlier(created[j], created[i]) \/ (created[i] = created[j] /\ i > j)

\* top is what LIMIT n keeps of a query's rows in that order.
TopAhead(top, from, n) ==
    /\ IF Cardinality(from) <= n THEN top = from ELSE Cardinality(top) = n
    /\ \A i \in top, j \in from \ top : Ahead(i, j)

\* The same for orderBy desc(createdAt) alone: ties fall in any order.
TopNewest(top, from, n) ==
    /\ IF Cardinality(from) <= n THEN top = from ELSE Cardinality(top) = n
    /\ \A i \in top, j \in from \ top : ~Earlier(created[i], created[j])

Give(data) ==
    /\ seen' = seen \cup data
    /\ again' = again \cup (seen \cap data)
-----------------------------------------------------------------------------
\* A sign-up or a seed.  Better Auth stamps whole milliseconds before it inserts,
\* seeds take now(): a row may appear behind rows that are already there.
Insert(i) ==
    /\ i \notin rows
    /\ rows' = rows \cup {i}
    /\ \E t \in Stamps : created' = [created EXCEPT ![i] = t]
    /\ disturbed' = disturbed \cup (IF pc \in {"idle", "done"} THEN {} ELSE {"insertion"})
                              \cup (IF mode = "offset" /\ pc = "rows" THEN {"torn"} ELSE {})
    /\ UNCHANGED <<hidden, request, pc, given, stable, cursors>>

\* UserService.deleteUser.
SoftDelete(i) ==
    /\ i \in Visible
    /\ hidden' = hidden \cup {i}
    /\ stable' = stable \ {i}
    /\ disturbed' = disturbed \cup
         (IF pc \in {"idle", "done"} \/ i \in stable \ seen THEN {} ELSE {"deletion"})
    /\ UNCHANGED <<rows, created, request, pc, given, cursors>>

\* A client starts to list the users.
Begin(m, l) ==
    /\ pc = "idle"
    /\ mode' = m /\ limit' = l
    /\ pc' = "ask"
    /\ stable' = Visible
    /\ UNCHANGED <<table, cursor, bound, page, counted, given, cursors, disturbed>>

\* The request for the next page reaches its handler.
AskCursor ==
    /\ pc = "ask" /\ mode = "cursor"
    /\ pc' = IF cursor = NoId THEN "rows" ELSE "lookup"
    /\ UNCHANGED <<table, request, given, stable, cursors, disturbed>>

\* Mutant: the lookup leaves soft-deleted users out, as every other query does.
LookupCursorVisible ==
    /\ pc = "lookup"
    /\ bound' = IF cursor \in Visible THEN <<Millis(created[cursor]), cursor>> ELSE NoBound
    /\ pc' = "rows"
    /\ UNCHANGED <<table, mode, limit, cursor, page, counted, given, stable, cursors, disturbed>>

\* findFirst of the cursor's row, deleted or not; an unknown id gives page one.
LookupCursor ==
    /\ pc = "lookup"
    /\ bound' = IF cursor \in rows THEN <<Millis(created[cursor]), cursor>> ELSE NoBound
    /\ pc' = "rows"
    /\ UNCHANGED <<table, mode, limit, cursor, page, counted, given, stable, cursors, disturbed>>

\* Mutants of the where clause: createdAt alone is compared; the cursor's row is
\* kept in.
BehindByTime(i) == bound = NoBound \/ Earlier(created[i], bound[1])
BehindOrAt(i) ==
    \/ bound = NoBound
    \/ Earlier(created[i], bound[1])
    \/ created[i] = bound[1] /\ i <= bound[2]

\* lt(createdAt, c) or (eq(createdAt, c) and lt(id, c.id)).
Behind(i) ==
    \/ bound = NoBound
    \/ Earlier(created[i], bound[1])
    \/ created[i] = bound[1] /\ i < bound[2]

\* findMany with limit + 1; the extra row only tells that there are more.
FetchCursor ==
    LET from == {i \in Visible : Behind(i)}
        hasMore == Cardinality(from) > limit
    IN  /\ pc = "rows" /\ mode = "cursor"
        /\ \E data \in SUBSET from :
              /\ TopAhead(data, from, limit)
              /\ Give(data)
              /\ IF hasMore /\ data # {}
                 THEN /\ \E last \in data :
                            /\ \A i \in data \ {last} : Ahead(i, last)
                            /\ cursor' = last /\ cursors' = cursors \cup {last}
                      /\ pc' = "ask"
                 ELSE /\ pc' = "done"
                      /\ UNCHANGED <<cursor, cursors>>
        /\ UNCHANGED <<table, mode, limit, bound, page, counted, stable, disturbed>>
-----------------------------------------------------------------------------
\* findAllUsers: the two queries of its Promise.all run in either order.
AskOffset ==
    /\ pc = "ask" /\ mode = "offset" /\ page <= MaxPage
    /\ pc' = "both"
    /\ UNCHANGED <<table, request, given, stable, cursors, disturbed>>

\* Mutant: there is a next page only if it would be full.
HasNextFull(total) == (page + 1) * limit <= total

\* hasNext: page * limit < totalCount.
HasNext(total) == page * limit < total

\* The second of the two queries completes the response; the client turns the page.
TurnPage(total) ==
    IF HasNext(total)
    THEN page' = page + 1 /\ pc' = "ask"
    ELSE page' = page /\ pc' = "done"

CountRows ==
    /\ pc \in {"both", "count"} /\ mode = "offset"
    /\ counted' = Cardinality(Visible)
    /\ IF pc = "both" THEN pc' = "rows" /\ UNCHANGED page ELSE TurnPage(counted')
    /\ UNCHANGED <<table, mode, limit, cursor, bound, given, stable, cursors, disturbed>>

\* Mutant: every page but the first starts one row early.
SkippedShort == IF page = 1 THEN 0 ELSE (page - 1) * limit - 1

\* offset: (page - 1) * limit.
Skipped == (page - 1) * limit

FetchOffset ==
    /\ pc \in {"both", "rows"} /\ mode = "offset"
    /\ \E skip \in SUBSET Visible : \E data \in SUBSET (Visible \ skip) :
          /\ TopNewest(skip, Visible, Skipped)
          /\ TopNewest(data, Visible \ skip, limit)
          /\ Give(data)
    /\ IF pc = "both" THEN pc' = "count" /\ UNCHANGED page ELSE TurnPage(counted)
    /\ UNCHANGED <<table, mode, limit, cursor, bound, counted, stable, cursors, disturbed>>

WalkStep == AskCursor \/ LookupCursor \/ FetchCursor \/ AskOffset \/ CountRows \/ FetchOffset

Next ==
    \/ \E i \in Ids : Insert(i) \/ SoftDelete(i)
    \/ \E m \in Modes, l \in Limits : Begin(m, l)
    \/ WalkStep

Spec == Init /\ [][Next]_vars

\* The client asks on and the database answers.
FairSpec == Spec /\ WF_vars(WalkStep)
-----------------------------------------------------------------------------
(* A walk along afterCursor never gives a user twice, whoever signs up or  *)
(* is deleted between two pages, the row of the cursor included.           *)
NoUserTwice == mode = "cursor" => again = {}

\* The row of a cursor hides i: same millisecond, and the cursor's row is not on it.
HiddenByCursor(i) ==
    \E c \in cursors : created[c][1] = created[i][1] /\ ~WholeMilli(created[c])

(* A finished walk along afterCursor gave every user that was there all    *)
(* the time, except those that share the millisecond of a cursor whose row *)
(* was stamped with microseconds; a page size of 0 ends the walk at once.  *)
CursorWalkComplete ==
    mode = "cursor" /\ pc = "done" /\ limit # 0 =>
        \A i \in stable : i \in seen \/ HiddenByCursor(i)

Ties == \E i, j \in rows : i # j /\ created[i] = created[j]

(* A finished walk along page numbers gave every user that was there all   *)
(* the time, unless meanwhile somebody was deleted who had been given or   *)
(* had signed up since; or somebody signed up between the two queries of   *)
(* one page, after the count; or two rows have one createdAt.              *)
OffsetWalkComplete ==
    mode = "offset" /\ pc = "done" /\ ~Ties /\ disturbed \cap {"deletion", "torn"} = {} =>
        stable \subseteq seen

(* A walk along page numbers gives a user twice only if somebody signed up *)
(* meanwhile, or two rows have one createdAt.                              *)
OffsetRepeatsExplained ==
    mode = "offset" /\ again # {} => Ties \/ "insertion" \in disturbed

(* A walk along afterCursor comes to an end.                               *)
CursorWalkEnds == (mode = "cursor") ~> (pc = "done")

(* user.service.ts:78 calls the walk along afterCursor a listing of all    *)
(* users: with pages of at least one row, whoever is there all the time is *)
(* given.                                                                  *)
CursorWalkListsAll ==
    mode = "cursor" /\ pc = "done" /\ limit # 0 => stable \subseteq seen
=============================================================================
