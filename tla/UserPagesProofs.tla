--------------------------- MODULE UserPagesProofs --------------------------
(***************************************************************************)
(* Proofs about UserPages: what a walk along afterCursor and one along     *)
(* page numbers give, for any table, page size and interleaving with       *)
(* sign-ups and deletions.                                                 *)
(***************************************************************************)
EXTENDS UserPages, FiniteSetTheorems, TLAPS

WalkType ==
    /\ pc = "idle" <=> mode = "none"
    /\ pc = "idle" => seen = {} /\ again = {} /\ cursors = {} /\ cursor = NoId /\ bound = NoBound
    /\ pc = "lookup" => mode = "cursor"
    /\ seen \subseteq rows /\ stable \subseteq Visible

\* Between two pages of a cursor walk: the cursor is the last user given, and
\* everybody who was there all the time was given, comes after it or is hidden.
Midway ==
    /\ again = {}
    /\ cursor = NoId => seen = {} /\ bound = NoBound
    /\ cursor # NoId => /\ cursor \in cursors
                        /\ \A i \in seen \ {cursor} : Ahead(i, cursor)
                        /\ \A i \in stable \ seen : Ahead(cursor, i) \/ HiddenByCursor(i)
    /\ pc = "lookup" => cursor # NoId
    /\ pc = "rows" /\ cursor # NoId => bound = <<Millis(created[cursor]), cursor>>

PagesInv ==
    /\ TypeOK /\ WalkType
    /\ mode = "cursor" /\ pc \in {"ask", "lookup", "rows"} => Midway
    /\ NoUserTwice /\ CursorWalkComplete
-----------------------------------------------------------------------------
LEMMA StampType == \A t \in Stamps : t[1] \in Int /\ t[2] \in Nat /\ t = <<t[1], t[2]>>
  <1>1. \A t \in Stamps : t[1] \in 0 .. MaxMilli /\ t[2] \in Micros /\ t = <<t[1], t[2]>>
    BY DEF Stamps
  <1> QED BY <1>1, PagesAssumption

\* The order of the listing is a strict one.
LEMMA AheadStrict ==
    ASSUME TypeOK, NEW i \in Ids, NEW j \in Ids, NEW k \in Ids
    PROVE  /\ ~Ahead(i, i)
           /\ Ahead(i, j) => ~Ahead(j, i)
           /\ Ahead(i, j) /\ Ahead(j, k) => Ahead(i, k)
  <1>1. \A l \in {i, j, k} : l \in Int /\ created[l] \in Stamps
    BY PagesAssumption DEF TypeOK
  <1>2. \A l \in {i, j, k} : created[l][1] \in Int /\ created[l][2] \in Int
    BY <1>1, StampType
  <1> QED BY <1>1, <1>2 DEF Ahead, Earlier

\* What the where clause lets through comes after the cursor; what comes after
\* the cursor and is not let through is hidden by it.
LEMMA BehindFacts ==
    ASSUME TypeOK, NEW i \in Ids, cursor \in Ids, bound = <<Millis(created[cursor]), cursor>>
    PROVE  /\ Behind(i) => Ahead(cursor, i)
           /\ Ahead(cursor, i) /\ ~Behind(i) =>
                created[cursor][1] = created[i][1] /\ ~WholeMilli(created[cursor])
  <1>1. /\ created[i] \in Stamps /\ created[cursor] \in Stamps
        /\ i \in Nat /\ cursor \in Nat
    BY PagesAssumption DEF TypeOK
  <1>2. /\ created[i][1] \in Int /\ created[i][2] \in Nat
        /\ created[cursor][1] \in Int /\ created[cursor][2] \in Nat
        /\ created[i] = <<created[i][1], created[i][2]>>
        /\ created[cursor] = <<created[cursor][1], created[cursor][2]>>
    BY <1>1, StampType
  <1>3. bound # NoBound
    BY <1>1 DEF NoBound, NoId
  <1>4. bound[1] = <<created[cursor][1], 0>> /\ bound[2] = cursor
    BY DEF Millis
  <1>5. Behind(i) <=> \/ created[i][1] < created[cursor][1]
                      \/ created[i][1] = created[cursor][1] /\ created[i][2] = 0 /\ i < cursor
    <2>1. Earlier(created[i], bound[1]) <=> created[i][1] < created[cursor][1]
      BY <1>2, <1>4 DEF Earlier
    <2>2. created[i] = bound[1] <=> created[i][1] = created[cursor][1] /\ created[i][2] = 0
      BY <1>2, <1>4
    <2> QED BY <1>3, <1>4, <2>1, <2>2 DEF Behind
  <1>6. Ahead(cursor, i) <=>
          \/ created[i][1] < created[cursor][1]
          \/ created[i][1] = created[cursor][1] /\ created[i][2] < created[cursor][2]
          \/ created[i][1] = created[cursor][1] /\ created[i][2] = created[cursor][2] /\ cursor > i
    BY <1>2 DEF Ahead, Earlier
  <1> QED BY <1>1, <1>2, <1>5, <1>6 DEF WholeMilli

LEMMA MillisType == \A t \in Stamps : Millis(t) \in Stamps
  BY PagesAssumption DEF Stamps, Millis

LEMMA VisibleFinite == TypeOK => IsFiniteSet(Visible)
  BY PagesAssumption, FS_Subset DEF TypeOK, Visible

LEMMA CountType == TypeOK => Cardinality(Visible) \in Nat
  BY VisibleFinite, FS_CardinalityType
-----------------------------------------------------------------------------
LEMMA InitInv == Init => PagesInv
  <1> SUFFICES ASSUME Init PROVE PagesInv
    OBVIOUS
  <1>1. <<0, 0>> \in Stamps
    BY PagesAssumption DEF Stamps
  <1>2. TypeOK
    BY <1>1 DEF Init, TypeOK, NoBound
  <1> QED BY <1>2 DEF Init, PagesInv, WalkType, Visible, NoUserTwice, CursorWalkComplete

\* One page of a cursor walk.
LEMMA FetchStep == PagesInv /\ FetchCursor => PagesInv'
  <1> SUFFICES ASSUME PagesInv, FetchCursor PROVE PagesInv'
    OBVIOUS
  <1> DEFINE from == {i \in Visible : Behind(i)}
             hasMore == Cardinality(from) > limit
  <1>1. TypeOK /\ Midway /\ pc = "rows" /\ mode = "cursor"
    BY DEF PagesInv, FetchCursor
  <1>2. PICK data \in SUBSET from :
           /\ TopAhead(data, from, limit)
           /\ Give(data)
           /\ IF hasMore /\ data # {}
              THEN /\ \E last \in data :
                         /\ \A i \in data \ {last} : Ahead(i, last)
                         /\ cursor' = last /\ cursors' = cursors \cup {last}
                   /\ pc' = "ask"
              ELSE /\ pc' = "done"
                   /\ UNCHANGED <<cursor, cursors>>
    BY DEF FetchCursor
  <1>3. UNCHANGED <<rows, created, hidden, mode, limit, bound, page, counted, stable, disturbed>>
    BY DEF FetchCursor, table
  <1>4. /\ from \subseteq Visible /\ Visible \subseteq Ids /\ seen \subseteq Ids
        /\ stable \subseteq Visible /\ cursors \subseteq seen
        /\ Cardinality(from) \in Nat /\ limit \in Nat
    <2>1. IsFiniteSet(from)
      BY <1>1, VisibleFinite, FS_Subset
    <2>2. Cardinality(from) \in Nat
      BY <2>1, FS_CardinalityType
    <2> QED BY <1>1, <2>2 DEF PagesInv, TypeOK, WalkType, Visible
  <1>5. cursor # NoId => /\ cursor \in Ids
                         /\ \A i \in Ids : Behind(i) => Ahead(cursor, i)
                         /\ \A i \in Ids : Ahead(cursor, i) /\ ~Behind(i) => HiddenByCursor(i)
    BY <1>1, BehindFacts DEF Midway, TypeOK, HiddenByCursor
  <1>6. data \cap seen = {}
    <2> SUFFICES ASSUME NEW i \in data, i \in seen PROVE FALSE
      OBVIOUS
    <2>1. cursor # NoId
      BY <1>1 DEF Midway
    <2>2. Ahead(cursor, i)
      BY <1>4, <1>5, <2>1
    <2>3. i = cursor \/ Ahead(i, cursor)
      BY <1>1, <2>1 DEF Midway
    <2> QED BY <1>1, <1>4, <1>5, <2>1, <2>2, <2>3, AheadStrict
  <1>7. seen' = seen \cup data /\ again' = {}
    BY <1>1, <1>2, <1>6 DEF Give, Midway
  <1>8. \A i \in stable \ seen' : i \in from \/ HiddenByCursor(i)
    <2> SUFFICES ASSUME NEW i \in stable \ seen', i \notin from PROVE HiddenByCursor(i)
      OBVIOUS
    <2>1. i \in Ids /\ ~Behind(i) /\ i \notin seen
      BY <1>4, <1>7
    <2>2. cursor # NoId
      BY <1>1, <2>1 DEF Midway, Behind
    <2> QED BY <1>1, <1>5, <2>1, <2>2 DEF Midway
  <1>9. cursors \subseteq cursors'
    BY <1>2
  <1>10. \A i \in Ids : HiddenByCursor(i) => HiddenByCursor(i)'
    BY <1>3, <1>9 DEF HiddenByCursor
  <1>11. CASE hasMore /\ data # {}
    <2>1. PICK last \in data : /\ \A i \in data \ {last} : Ahead(i, last)
                               /\ cursor' = last /\ cursors' = cursors \cup {last} /\ pc' = "ask"
      BY <1>2, <1>11
    <2>2. TypeOK'
      BY <1>1, <1>3, <1>4, <1>7, <2>1 DEF TypeOK
    <2>3. WalkType'
      BY <1>1, <1>3, <1>4, <1>7, <2>1 DEF PagesInv, WalkType, Visible
    <2>4. cursor' # NoId
      BY <1>4, <2>1, PagesAssumption DEF NoId
    <2>5. \A i \in seen' \ {last} : Ahead(i, last)
      <3>1. ASSUME NEW i \in seen PROVE Ahead(i, last)
        <4>1. cursor # NoId /\ (i = cursor \/ Ahead(i, cursor))
          BY <1>1, <3>1 DEF Midway
        <4>2. Ahead(cursor, last)
          BY <1>4, <1>5, <4>1
        <4> QED BY <1>1, <1>4, <1>5, <4>1, <4>2, AheadStrict
      <3> QED BY <1>7, <2>1, <3>1
    <2>6. \A i \in stable \ seen' : Ahead(last, i) \/ HiddenByCursor(i)
      BY <1>2, <1>7, <1>8 DEF TopAhead
    <2>7. Midway'
      <3>1. \A i \in stable' \ seen' : (Ahead(cursor, i) \/ HiddenByCursor(i))'
        BY <1>3, <1>4, <1>10, <2>1, <2>6 DEF Ahead
      <3>2. \A i \in seen' \ {cursor'} : Ahead(i, cursor)'
        BY <1>3, <2>1, <2>5 DEF Ahead
      <3> QED BY <1>7, <2>1, <2>4, <3>1, <3>2 DEF Midway
    <2> QED BY <1>3, <1>7, <2>1, <2>2, <2>3, <2>7 DEF PagesInv, NoUserTwice, CursorWalkComplete
  <1>12. CASE ~(hasMore /\ data # {})
    <2>1. pc' = "done" /\ cursor' = cursor /\ cursors' = cursors
      BY <1>2, <1>12
    <2>2. TypeOK'
      BY <1>1, <1>3, <1>4, <1>7, <2>1 DEF TypeOK
    <2>3. WalkType'
      BY <1>1, <1>3, <1>4, <1>7, <2>1 DEF PagesInv, WalkType, Visible
    <2>4. limit = 0 \/ data = from
      <3>1. CASE hasMore
        <4>1. data = {} /\ Cardinality(data) = limit
          BY <1>2, <1>4, <1>12, <3>1 DEF TopAhead
        <4> QED BY <4>1, FS_EmptySet
      <3>2. CASE ~hasMore
        BY <1>2, <1>4, <3>2 DEF TopAhead
      <3> QED BY <3>1, <3>2
    <2>5. CursorWalkComplete'
      <3> SUFFICES ASSUME limit # 0, NEW i \in stable, i \notin seen' PROVE HiddenByCursor(i)'
        BY <1>3 DEF CursorWalkComplete
      <3>1. HiddenByCursor(i) /\ i \in Ids
        BY <1>4, <1>7, <1>8, <2>4
      <3> QED BY <1>10, <3>1
    <2> QED BY <1>7, <2>1, <2>2, <2>3, <2>5 DEF PagesInv, NoUserTwice
  <1> QED BY <1>11, <1>12

\* A row that signs up stands outside everything the walk has dealt with.
LEMMA InsertStep == PagesInv /\ (\E i \in Ids : Insert(i)) => PagesInv'
  <1> SUFFICES ASSUME PagesInv, NEW i \in Ids, Insert(i) PROVE PagesInv'
    OBVIOUS
  <1>1. PICK t \in Stamps : created' = [created EXCEPT ![i] = t]
    BY DEF Insert
  <1>2. i \notin rows /\ rows' = rows \cup {i}
        /\ UNCHANGED <<hidden, mode, limit, pc, cursor, bound, page, counted, seen, again,
                       stable, cursors>>
    BY DEF Insert, request, given
  <1>3. \A j \in rows : created'[j] = created[j]
    BY <1>1, <1>2 DEF PagesInv, TypeOK
  <1>4. seen \subseteq rows /\ stable \subseteq rows /\ cursors \subseteq rows
    BY DEF PagesInv, TypeOK, WalkType
  <1>5. TypeOK'
    BY <1>1, <1>2 DEF PagesInv, TypeOK, Insert
  <1>6. WalkType'
    BY <1>2 DEF PagesInv, WalkType, Visible
  <1>7. \A j \in rows : HiddenByCursor(j) => HiddenByCursor(j)'
    BY <1>2, <1>3, <1>4 DEF HiddenByCursor
  <1>8. \A j, k \in rows : Ahead(j, k) => Ahead(j, k)'
    BY <1>3 DEF Ahead
  <1>9. ASSUME Midway PROVE Midway'
    <2>1. cursor # NoId => cursor \in rows
      BY <1>4, <1>9 DEF Midway
    <2>2. cursor # NoId => /\ \A j \in seen \ {cursor} : Ahead(j, cursor)'
                           /\ \A j \in stable \ seen : (Ahead(cursor, j) \/ HiddenByCursor(j))'
      <3>1. \A j \in rows : cursor # NoId => (Ahead(j, cursor) => Ahead(j, cursor)')
                                         /\ (Ahead(cursor, j) => Ahead(cursor, j)')
        BY <1>2, <1>3, <2>1 DEF Ahead
      <3> QED BY <1>4, <1>7, <1>9, <3>1 DEF Midway
    <2> QED BY <1>2, <1>3, <1>9, <2>1, <2>2 DEF Midway
  <1>10. CursorWalkComplete'
    BY <1>2, <1>4, <1>7 DEF PagesInv, CursorWalkComplete
  <1> QED BY <1>2, <1>5, <1>6, <1>9, <1>10 DEF PagesInv, NoUserTwice

LEMMA StepInv == PagesInv /\ [Next]_vars => PagesInv'
  <1> SUFFICES ASSUME PagesInv, [Next]_vars PROVE PagesInv'
    OBVIOUS
  <1>1. CASE \E i \in Ids : Insert(i)
    BY <1>1, InsertStep
  <1>2. ASSUME NEW i \in Ids, SoftDelete(i) PROVE PagesInv'
    <2>1. /\ i \in rows /\ hidden' = hidden \cup {i} /\ stable' = stable \ {i}
          /\ UNCHANGED <<rows, created, mode, limit, pc, cursor, bound, page, counted, seen, again,
                         cursors>>
      BY <1>2 DEF SoftDelete, Visible, request, given
    <2>2. TypeOK'
      BY <1>2, <2>1 DEF PagesInv, TypeOK, SoftDelete
    <2>3. WalkType'
      BY <2>1 DEF PagesInv, WalkType, Visible
    <2>4. Midway => Midway'
      BY <2>1 DEF Midway, Ahead, HiddenByCursor, Millis
    <2>5. CursorWalkComplete'
      BY <2>1 DEF PagesInv, CursorWalkComplete, HiddenByCursor
    <2> QED BY <2>1, <2>2, <2>3, <2>4, <2>5 DEF PagesInv, NoUserTwice
  <1>3. ASSUME NEW m \in Modes, NEW l \in Limits, Begin(m, l) PROVE PagesInv'
    <2>1. /\ m \in {"cursor", "offset"} /\ l \in Nat
      BY PagesAssumption
    <2>2. TypeOK'
      BY <1>3, <2>1 DEF PagesInv, TypeOK, Begin, table, given, Visible
    <2>3. WalkType' /\ Midway'
      BY <1>3, <2>1 DEF PagesInv, TypeOK, WalkType, Midway, Begin, table, given, Visible
    <2>4. NoUserTwice' /\ CursorWalkComplete'
      BY <1>3 DEF PagesInv, WalkType, NoUserTwice, CursorWalkComplete, Begin, given
    <2> QED BY <2>2, <2>3, <2>4 DEF PagesInv
  <1>4. CASE AskCursor
    <2>1. TypeOK'
      BY <1>4 DEF PagesInv, TypeOK, AskCursor, table, request, given
    <2>2. WalkType'
      BY <1>4 DEF PagesInv, WalkType, AskCursor, table, request, given, Visible
    <2>3. Midway'
      BY <1>4 DEF PagesInv, Midway, AskCursor, table, request, given, Ahead, HiddenByCursor
    <2> QED
      BY <1>4, <2>1, <2>2, <2>3
         DEF PagesInv, AskCursor, request, given, NoUserTwice, CursorWalkComplete
  <1>5. CASE LookupCursor
    <2>1. mode = "cursor" /\ Midway /\ pc = "lookup"
      BY <1>5 DEF PagesInv, WalkType, LookupCursor
    <2>2. cursor \in rows
      BY <2>1 DEF PagesInv, TypeOK, WalkType, Midway
    <2>3. bound' = <<Millis(created[cursor]), cursor>>
      BY <1>5, <2>2 DEF LookupCursor
    <2>4. bound' \in Stamps \X (Ids \cup {NoId})
      BY <2>2, <2>3, MillisType DEF PagesInv, TypeOK
    <2>5. TypeOK'
      BY <1>5, <2>4 DEF PagesInv, TypeOK, LookupCursor, table, given
    <2>6. WalkType'
      BY <1>5 DEF PagesInv, WalkType, LookupCursor, table, given, Visible
    <2>7. Midway'
      BY <1>5, <2>1, <2>3 DEF Midway, LookupCursor, table, given, Ahead, HiddenByCursor, Millis
    <2> QED
      BY <1>5, <2>1, <2>5, <2>6, <2>7
         DEF PagesInv, LookupCursor, given, NoUserTwice, CursorWalkComplete
  <1>6. CASE FetchCursor
    BY <1>6, FetchStep
  <1>7. CASE AskOffset
    <2>1. TypeOK'
      BY <1>7 DEF PagesInv, TypeOK, AskOffset, table, request, given
    <2>2. WalkType'
      BY <1>7 DEF PagesInv, WalkType, AskOffset, table, request, given, Visible
    <2> QED
      BY <1>7, <2>1, <2>2 DEF PagesInv, AskOffset, request, given, NoUserTwice, CursorWalkComplete
  <1>8. CASE CountRows
    <2>1. counted' \in Nat /\ page' \in Nat
      BY <1>8, CountType DEF PagesInv, TypeOK, CountRows, TurnPage
    <2>2. TypeOK'
      BY <1>8, <2>1 DEF PagesInv, TypeOK, CountRows, TurnPage, table, given
    <2>3. WalkType'
      BY <1>8 DEF PagesInv, WalkType, CountRows, TurnPage, table, given, Visible
    <2> QED
      BY <1>8, <2>2, <2>3 DEF PagesInv, CountRows, given, NoUserTwice, CursorWalkComplete
  <1>9. CASE FetchOffset
    <2>1. PICK data \in SUBSET Visible : seen' = seen \cup data /\ again' = again \cup (seen \cap data)
      BY <1>9 DEF FetchOffset, Give
    <2>2. page' \in Nat
      BY <1>9 DEF PagesInv, TypeOK, FetchOffset, TurnPage
    <2>3. TypeOK'
      BY <1>9, <2>1, <2>2 DEF PagesInv, TypeOK, FetchOffset, TurnPage, table, Visible
    <2>4. WalkType'
      BY <1>9, <2>1 DEF PagesInv, WalkType, FetchOffset, TurnPage, table, Visible
    <2> QED
      BY <1>9, <2>3, <2>4 DEF PagesInv, FetchOffset, NoUserTwice, CursorWalkComplete
  <1>10. CASE UNCHANGED vars
    <2>1. TypeOK' /\ WalkType'
      BY <1>10 DEF vars, PagesInv, TypeOK, WalkType, Visible
    <2>2. Midway => Midway'
      BY <1>10 DEF vars, Midway, Ahead, HiddenByCursor, Millis
    <2>3. NoUserTwice' /\ CursorWalkComplete'
      BY <1>10 DEF vars, PagesInv, NoUserTwice, CursorWalkComplete, HiddenByCursor
    <2> QED BY <1>10, <2>1, <2>2, <2>3 DEF vars, PagesInv
  <1> QED
    BY <1>1, <1>2, <1>3, <1>4, <1>5, <1>6, <1>7, <1>8, <1>9, <1>10 DEF Next, WalkStep

LEMMA Invariance == Spec => []PagesInv
  BY InitInv, StepInv, PTL DEF Spec
-----------------------------------------------------------------------------
(* Type correctness of the listing's state.                                *)
THEOREM TypeCorrect == Spec => []TypeOK
  <1>1. PagesInv => TypeOK
    BY DEF PagesInv
  <1> QED BY <1>1, Invariance, PTL

(* No walk along afterCursor gives a user twice.                           *)
THEOREM NoRepeats == Spec => []NoUserTwice
  <1>1. PagesInv => NoUserTwice
    BY DEF PagesInv
  <1> QED BY <1>1, Invariance, PTL

(* A finished walk along afterCursor with pages of at least one row missed *)
(* only users in the millisecond of a cursor whose row has microseconds.   *)
THEOREM NothingElseMissed == Spec => []CursorWalkComplete
  <1>1. PagesInv => CursorWalkComplete
    BY DEF PagesInv
  <1> QED BY <1>1, Invariance, PTL
-----------------------------------------------------------------------------
(* A walk along page numbers.  Where no two rows have one createdAt, a     *)
(* row's place in the listing is the number of users newer than it.        *)
Newer(j) == {i \in Visible : Earlier(created[j], created[i])}

\* How many places the walk has passed.
Fetched == IF pc \in {"count", "done"} THEN page * limit ELSE Skipped

\* Nobody left to give has slipped in front of the next page ...
AllYetToCome ==
    /\ pc # "done" => \A j \in stable \ seen : Cardinality(Newer(j)) >= Fetched
    /\ "torn" \notin disturbed => /\ pc = "rows" => Cardinality(Visible) <= counted
                                  /\ pc = "done" => stable \subseteq seen

\* ... and nobody given was pushed back onto it.
NoneToCome ==
    /\ again = {}
    /\ pc # "done" => \A i \in seen \cap Visible : Cardinality(Newer(i)) < Fetched

OffsetInv ==
    /\ PagesInv /\ page >= 1
    /\ pc = "idle" => page = 1 /\ disturbed = {}
    /\ mode = "offset" /\ ~Ties =>
          /\ "deletion" \notin disturbed => AllYetToCome
          /\ "insertion" \notin disturbed => NoneToCome

LEMMA PageStart ==
    ASSUME NEW p \in Nat, NEW l \in Nat, p >= 1
    PROVE  p * l \in Nat /\ (p - 1) * l \in Nat /\ (p - 1) * l + l = p * l
  OBVIOUS

LEMMA NewerCounts ==
    ASSUME TypeOK, NEW j
    PROVE  IsFiniteSet(Newer(j)) /\ Cardinality(Newer(j)) \in Nat /\ Newer(j) \subseteq Visible
           /\ Cardinality(Newer(j)) <= Cardinality(Visible)
  <1>1. Newer(j) \subseteq Visible
    BY DEF Newer
  <1> QED BY <1>1, VisibleFinite, FS_Subset, FS_CardinalityType

\* Of two rows that differ in createdAt one is earlier.
LEMMA EarlierFacts ==
    ASSUME TypeOK, NEW i \in Ids, NEW j \in Ids
    PROVE  /\ ~Earlier(created[i], created[i])
           /\ Earlier(created[i], created[j]) => ~Earlier(created[j], created[i])
           /\ created[i] # created[j] =>
                Earlier(created[i], created[j]) \/ Earlier(created[j], created[i])
           /\ \A k \in Ids : Earlier(created[i], created[j]) /\ Earlier(created[j], created[k])
                                => Earlier(created[i], created[k])
  <1>1. \A l \in Ids : created[l] \in Stamps
    BY DEF TypeOK
  <1>2. \A l \in Ids : created[l][1] \in Int /\ created[l][2] \in Int
                       /\ created[l] = <<created[l][1], created[l][2]>>
    BY <1>1, StampType
  <1> QED BY <1>2 DEF Earlier

\* LIMIT n keeps the first n places.
LEMMA TopPlaces ==
    ASSUME TypeOK, ~Ties, NEW n \in Nat, NEW top, top \subseteq Visible,
           TopNewest(top, Visible, n), NEW j \in Visible
    PROVE  j \in top <=> Cardinality(Newer(j)) < n
  <1>1. /\ IsFiniteSet(Visible) /\ IsFiniteSet(top) /\ Cardinality(top) \in Nat
        /\ Cardinality(Visible) \in Nat /\ Visible \subseteq Ids /\ Visible \subseteq rows
        /\ IsFiniteSet(Newer(j)) /\ Cardinality(Newer(j)) \in Nat
    BY VisibleFinite, NewerCounts, FS_Subset, FS_CardinalityType DEF Visible, TypeOK
  <1>2. ASSUME j \in top PROVE Cardinality(Newer(j)) < n
    <2>1. Newer(j) \subseteq top \ {j}
      BY <1>1, <1>2, EarlierFacts DEF Newer, TopNewest
    <2>2. IsFiniteSet(top \ {j}) /\ Cardinality(top \ {j}) = Cardinality(top) - 1
      BY <1>1, <1>2, FS_RemoveElement
    <2>3. Cardinality(Newer(j)) <= Cardinality(top) - 1
      BY <2>1, <2>2, FS_Subset
    <2>4. Cardinality(top) <= n
      BY <1>1 DEF TopNewest
    <2> QED BY <1>1, <2>3, <2>4
  <1>3. ASSUME j \notin top PROVE Cardinality(Newer(j)) >= n
    <2>1. Cardinality(top) = n
      BY <1>3 DEF TopNewest
    <2>2. \A i \in top : created[i] # created[j]
      BY <1>1, <1>3 DEF Ties
    <2>3. top \subseteq Newer(j)
      BY <1>1, <1>3, <2>2, EarlierFacts DEF Newer, TopNewest
    <2> QED BY <1>1, <2>1, <2>3, FS_Subset
  <1> QED BY <1>1, <1>2, <1>3

\* A page after the rows skipped keeps the next places.
LEMMA TopsJoin ==
    ASSUME TypeOK, NEW n \in Nat, NEW m \in Nat, NEW skip, NEW data,
           skip \subseteq Visible, data \subseteq Visible \ skip,
           TopNewest(skip, Visible, n), TopNewest(data, Visible \ skip, m)
    PROVE  TopNewest(skip \cup data, Visible, n + m)
  <1>1. /\ IsFiniteSet(Visible) /\ IsFiniteSet(skip) /\ IsFiniteSet(data)
        /\ Cardinality(skip) \in Nat /\ Cardinality(data) \in Nat /\ Cardinality(Visible) \in Nat
    BY VisibleFinite, FS_Subset, FS_CardinalityType
  <1>2. Cardinality(Visible \ skip) = Cardinality(Visible) - Cardinality(skip)
    <2>1. Visible \cap skip = skip
      OBVIOUS
    <2> QED BY <1>1, <2>1, FS_Difference
  <1>3. Cardinality(skip \cup data) = Cardinality(skip) + Cardinality(data)
    <2>1. skip \cap data = {}
      OBVIOUS
    <2> QED BY <1>1, <2>1, FS_Union, FS_EmptySet
  <1>4. IF Cardinality(Visible) <= n + m THEN skip \cup data = Visible
        ELSE Cardinality(skip \cup data) = n + m
    <2>1. CASE Cardinality(Visible) <= n
      BY <1>1, <2>1 DEF TopNewest
    <2>2. CASE Cardinality(Visible) > n
      <3>1. Cardinality(skip) = n
        BY <1>1, <2>2 DEF TopNewest
      <3>2. CASE Cardinality(Visible) <= n + m
        <4>1. data = Visible \ skip
          BY <1>1, <1>2, <3>1, <3>2 DEF TopNewest
        <4> QED BY <3>2, <4>1
      <3>3. CASE ~(Cardinality(Visible) <= n + m)
        <4>1. Cardinality(data) = m
          BY <1>1, <1>2, <3>1, <3>3 DEF TopNewest
        <4> QED BY <1>3, <3>1, <3>3, <4>1
      <3> QED BY <3>2, <3>3
    <2> QED BY <1>1, <2>1, <2>2
  <1>5. \A i \in skip \cup data, j \in Visible \ (skip \cup data) : ~Earlier(created[i], created[j])
    BY DEF TopNewest
  <1> QED BY <1>4, <1>5 DEF TopNewest

LEMMA PlaceBelow ==
    ASSUME TypeOK, NEW j \in Visible
    PROVE  Cardinality(Newer(j)) < Cardinality(Visible)
  <1>1. j \in Ids /\ IsFiniteSet(Visible) /\ Cardinality(Visible) \in Nat
    BY VisibleFinite, CountType DEF Visible, TypeOK
  <1>2. Newer(j) \subseteq Visible /\ j \notin Newer(j)
    BY <1>1, EarlierFacts DEF Newer
  <1> QED BY <1>1, <1>2, NewerCounts, FS_Subset

\* The walk only reads the table.
LEMMA SamePlaces ==
    ASSUME UNCHANGED <<rows, created, hidden>>
    PROVE  (\A j : Newer(j)' = Newer(j)) /\ Visible' = Visible /\ (Ties' <=> Ties)
  BY DEF Newer, Visible, Ties

LEMMA FetchOffsetStep ==
    ASSUME OffsetInv, FetchOffset, mode = "offset", ~Ties
    PROVE  /\ page' >= 1
           /\ "deletion" \notin disturbed => AllYetToCome'
           /\ "insertion" \notin disturbed => NoneToCome'
  <1> DEFINE passed == page * limit
  <1>1. /\ TypeOK /\ page \in Nat /\ page >= 1 /\ limit \in Nat /\ counted \in Nat
        /\ stable \subseteq Visible
    BY DEF OffsetInv, PagesInv, WalkType, TypeOK
  <1>2. Skipped \in Nat /\ passed \in Nat /\ Skipped + limit = passed
    BY <1>1, PageStart DEF Skipped
  <1>3. PICK skip \in SUBSET Visible : \E data \in SUBSET (Visible \ skip) :
           /\ TopNewest(skip, Visible, Skipped) /\ TopNewest(data, Visible \ skip, limit)
           /\ Give(data)
    BY DEF FetchOffset
  <1>4. PICK data \in SUBSET (Visible \ skip) :
           /\ TopNewest(skip, Visible, Skipped) /\ TopNewest(data, Visible \ skip, limit)
           /\ Give(data)
    BY <1>3
  <1>5. /\ pc \in {"both", "rows"} /\ UNCHANGED <<rows, created, hidden, limit, counted, stable, disturbed>>
        /\ IF pc = "both" THEN pc' = "count" /\ UNCHANGED page ELSE TurnPage(counted)
    BY DEF FetchOffset, table
  <1> HIDE DEF passed
  <1>6. \A j \in Visible : /\ j \in skip <=> Cardinality(Newer(j)) < Skipped
                           /\ j \in skip \cup data <=> Cardinality(Newer(j)) < passed
    <2>1. TopNewest(skip \cup data, Visible, passed)
      BY <1>1, <1>2, <1>4, TopsJoin
    <2>2. skip \cup data \subseteq Visible
      OBVIOUS
    <2>3. \A j \in Visible : j \in skip <=> Cardinality(Newer(j)) < Skipped
      BY <1>1, <1>2, <1>4, TopPlaces
    <2>4. \A j \in Visible : j \in skip \cup data <=> Cardinality(Newer(j)) < passed
      BY <1>1, <1>2, <2>1, <2>2, TopPlaces
    <2> QED BY <2>3, <2>4
  <1>7. /\ pc' \in {"count", "ask", "done"} /\ page' >= 1
        /\ page' = IF pc' = "ask" THEN page + 1 ELSE page
        /\ pc' = "done" => pc = "rows" /\ ~(page * limit < counted)
    BY <1>1, <1>5 DEF TurnPage, HasNext
  <1>8. Fetched = Skipped /\ Fetched' = passed
    <2>1. pc' = "ask" => (page' - 1) * limit' = page * limit
      <3>1. pc' = "ask" => page' - 1 = page
        BY <1>1, <1>7
      <3> QED BY <1>5, <3>1
    <2> QED BY <1>5, <1>7, <2>1 DEF Fetched, Skipped, passed
  <1>9. (\A j : Newer(j)' = Newer(j)) /\ Visible' = Visible
    BY <1>5, SamePlaces
  <1>10. seen' = seen \cup data /\ again' = again \cup (seen \cap data)
    BY <1>4 DEF Give
  <1>11. \A j \in Visible : Cardinality(Newer(j)) \in Nat /\ Cardinality(Newer(j)) < Cardinality(Visible)
         /\ Cardinality(Visible) \in Nat
    BY <1>1, NewerCounts, PlaceBelow, CountType
  <1>12. ASSUME "deletion" \notin disturbed PROVE AllYetToCome'
    <2>1. AllYetToCome
      BY <1>12 DEF OffsetInv
    <2>2. \A j \in stable \ seen' : Cardinality(Newer(j)) >= passed
      <3> SUFFICES ASSUME NEW j \in stable \ seen' PROVE Cardinality(Newer(j)) >= passed
        OBVIOUS
      <3>1. Cardinality(Newer(j)) >= Skipped /\ j \in Visible /\ j \notin data
        BY <1>1, <1>5, <1>8, <1>10, <2>1 DEF AllYetToCome
      <3>2. j \notin skip
        BY <1>2, <1>6, <1>11, <3>1
      <3> QED BY <1>2, <1>6, <1>11, <3>1, <3>2
    <2>3. ASSUME "torn" \notin disturbed, pc' = "done" PROVE stable \subseteq seen'
      <3>1. Cardinality(Visible) <= counted /\ counted <= passed
        BY <1>1, <1>2, <1>5, <1>7, <2>1, <2>3 DEF AllYetToCome, passed
      <3> QED BY <1>1, <1>2, <1>11, <2>2, <3>1
    <2> QED BY <1>5, <1>7, <1>8, <1>9, <2>2, <2>3 DEF AllYetToCome
  <1>13. ASSUME "insertion" \notin disturbed PROVE NoneToCome'
    <2>1. NoneToCome
      BY <1>13 DEF OffsetInv
    <2>2. \A i \in seen \cap Visible : i \in skip
      BY <1>5, <1>6, <1>8, <2>1 DEF NoneToCome
    <2>3. again' = {}
      BY <1>10, <2>1, <2>2 DEF NoneToCome
    <2>4. \A i \in seen' \cap Visible : Cardinality(Newer(i)) < passed
      BY <1>6, <1>10, <2>2
    <2> QED BY <1>8, <1>9, <2>3, <2>4 DEF NoneToCome
  <1> QED BY <1>7, <1>12, <1>13

LEMMA CountRowsStep ==
    ASSUME OffsetInv, CountRows, mode = "offset", ~Ties
    PROVE  /\ page' >= 1
           /\ "deletion" \notin disturbed => AllYetToCome'
           /\ "insertion" \notin disturbed => NoneToCome'
  <1>1. /\ TypeOK /\ page \in Nat /\ page >= 1 /\ limit \in Nat
        /\ stable \subseteq Visible /\ page * limit \in Nat
    BY PageStart DEF OffsetInv, PagesInv, WalkType, TypeOK
  <1>2. /\ pc \in {"both", "count"}
        /\ UNCHANGED <<rows, created, hidden, limit, stable, disturbed, seen, again>>
        /\ counted' = Cardinality(Visible)
        /\ IF pc = "both" THEN pc' = "rows" /\ UNCHANGED page ELSE TurnPage(counted')
    BY DEF CountRows, table, given
  <1>3. /\ pc' \in {"rows", "ask", "done"} /\ page' >= 1
        /\ page' = IF pc' = "ask" THEN page + 1 ELSE page
        /\ pc' = "rows" <=> pc = "both"
        /\ pc' = "done" => pc = "count" /\ ~(page * limit < Cardinality(Visible))
    BY <1>1, <1>2 DEF TurnPage, HasNext
  <1>4. Fetched' = Fetched
    <2>1. pc' = "ask" => (page' - 1) * limit' = page * limit
      <3>1. pc' = "ask" => page' - 1 = page
        BY <1>1, <1>3
      <3> QED BY <1>2, <3>1
    <2> QED BY <1>2, <1>3, <2>1 DEF Fetched, Skipped
  <1>5. (\A j : Newer(j)' = Newer(j)) /\ Visible' = Visible
    BY <1>2, SamePlaces
  <1>6. \A j \in Visible : Cardinality(Newer(j)) \in Nat /\ Cardinality(Newer(j)) < Cardinality(Visible)
        /\ Cardinality(Visible) \in Nat
    BY <1>1, NewerCounts, PlaceBelow, CountType
  <1>7. ASSUME "deletion" \notin disturbed PROVE AllYetToCome'
    <2>1. AllYetToCome
      BY <1>7 DEF OffsetInv
    <2>2. \A j \in stable \ seen : Cardinality(Newer(j)) >= Fetched
      BY <1>2, <2>1 DEF AllYetToCome
    <2>3. ASSUME pc' = "done" PROVE stable \subseteq seen
      <3>1. Fetched = page * limit /\ Cardinality(Visible) \in Nat
        BY <1>1, <1>3, <2>3, CountType DEF Fetched
      <3>2. Cardinality(Visible) <= Fetched
        BY <1>1, <1>3, <2>3, <3>1
      <3> QED BY <1>1, <1>6, <2>2, <3>1, <3>2
    <2>4. Cardinality(Visible) <= counted'
      BY <1>1, <1>2, CountType
    <2> QED BY <1>2, <1>4, <1>5, <2>2, <2>3, <2>4 DEF AllYetToCome
  <1>8. ASSUME "insertion" \notin disturbed PROVE NoneToCome'
    <2>1. NoneToCome
      BY <1>8 DEF OffsetInv
    <2> QED BY <1>2, <1>4, <1>5, <2>1 DEF NoneToCome
  <1> QED BY <1>3, <1>7, <1>8

\* A sign-up can only push rows back.
LEMMA InsertPlaces ==
    ASSUME OffsetInv, NEW i \in Ids, Insert(i), mode = "offset", ~Ties'
    PROVE  /\ ~Ties
           /\ "deletion" \notin disturbed' => AllYetToCome'
           /\ "insertion" \notin disturbed' => NoneToCome'
  <1>1. /\ TypeOK /\ hidden \subseteq rows /\ rows \subseteq Ids /\ i \notin rows /\ rows' = rows \cup {i}
        /\ UNCHANGED <<hidden, mode, limit, page, counted, pc, seen, again, stable>>
        /\ stable \subseteq Visible
        /\ disturbed' = disturbed \cup (IF pc \in {"idle", "done"} THEN {} ELSE {"insertion"})
                                  \cup (IF mode = "offset" /\ pc = "rows" THEN {"torn"} ELSE {})
        /\ pc # "idle"
    BY DEF OffsetInv, PagesInv, WalkType, TypeOK, Insert, request, given
  <1>2. PICK t \in Stamps : created' = [created EXCEPT ![i] = t]
    BY DEF Insert
  <1>3. \A j \in rows : created'[j] = created[j]
    BY <1>1, <1>2 DEF TypeOK
  <1>4. ~Ties
    BY <1>1, <1>3 DEF Ties
  <1>5. Visible \subseteq Visible' /\ Visible \subseteq rows /\ TypeOK'
    <2>1. PagesInv'
      BY StepInv DEF OffsetInv, Next
    <2> QED BY <1>1, <2>1 DEF Visible, PagesInv
  <1>6. \A j \in rows : Cardinality(Newer(j)) \in Nat /\ Cardinality(Newer(j)') \in Nat
                        /\ Cardinality(Newer(j)') >= Cardinality(Newer(j))
    <2> SUFFICES ASSUME NEW j \in rows
                 PROVE  Cardinality(Newer(j)) \in Nat /\ Cardinality(Newer(j)') \in Nat
                        /\ Cardinality(Newer(j)') >= Cardinality(Newer(j))
      OBVIOUS
    <2>1. Newer(j) \subseteq Newer(j)'
      BY <1>3, <1>5 DEF Newer
    <2>2. IsFiniteSet(Visible') /\ Newer(j)' \subseteq Visible'
      BY <1>1, <1>5, PagesAssumption, FS_Subset DEF TypeOK, Visible, Newer
    <2>3. IsFiniteSet(Newer(j)')
      BY <2>2, FS_Subset
    <2> QED BY <2>1, <2>3, FS_Subset, FS_CardinalityType
  <1>7. Fetched' = Fetched /\ Fetched \in Nat
    BY <1>1, PageStart DEF Fetched, Skipped, TypeOK, OffsetInv
  <1>8. ASSUME "deletion" \notin disturbed' PROVE AllYetToCome'
    <2>1. AllYetToCome
      BY <1>1, <1>4, <1>8 DEF OffsetInv
    <2>2. pc # "done" => \A j \in stable \ seen : Cardinality(Newer(j)') >= Fetched
      BY <1>1, <1>5, <1>6, <1>7, <2>1 DEF AllYetToCome
    <2> QED BY <1>1, <1>7, <2>1, <2>2 DEF AllYetToCome
  <1>9. ASSUME "insertion" \notin disturbed' PROVE NoneToCome'
    BY <1>1, <1>4, <1>9 DEF OffsetInv, NoneToCome
  <1> QED BY <1>4, <1>8, <1>9

\* Who is deleted before being given stood behind what was given.
LEMMA DeletePlaces ==
    ASSUME OffsetInv, NEW i \in Ids, SoftDelete(i), mode = "offset", ~Ties
    PROVE  /\ "deletion" \notin disturbed' => AllYetToCome'
           /\ "insertion" \notin disturbed' => NoneToCome'
  <1>1. /\ TypeOK /\ rows \subseteq Ids /\ i \in Visible /\ hidden' = hidden \cup {i}
        /\ UNCHANGED <<rows, created, mode, limit, page, counted, pc, seen, again>>
        /\ stable' = stable \ {i} /\ stable \subseteq Visible
        /\ disturbed' = disturbed \cup
             (IF pc \in {"idle", "done"} \/ i \in stable \ seen THEN {} ELSE {"deletion"})
        /\ pc # "idle"
    BY DEF OffsetInv, PagesInv, WalkType, TypeOK, SoftDelete, request, given
  <1>2. Visible' = Visible \ {i} /\ Visible \subseteq Ids
    BY <1>1 DEF Visible
  <1>3. \A j : Newer(j)' = Newer(j) \ {i}
    BY <1>1, <1>2 DEF Newer
  <1>4. Fetched' = Fetched /\ Fetched \in Nat
    BY <1>1, PageStart DEF Fetched, Skipped, TypeOK, OffsetInv
  <1>5. ASSUME "deletion" \notin disturbed' PROVE AllYetToCome'
    <2>1. AllYetToCome
      BY <1>1, <1>5 DEF OffsetInv
    <2>2. ASSUME pc # "done", NEW j \in stable' \ seen
          PROVE  Cardinality(Newer(j)') >= Fetched
      <3>1. i \in stable \ seen /\ j \in stable \ seen
        BY <1>1, <1>5, <2>2
      <3>2. Cardinality(Newer(i)) >= Fetched /\ Cardinality(Newer(j)) >= Fetched
        BY <2>1, <2>2, <3>1 DEF AllYetToCome
      <3>3. CASE i \notin Newer(j)
        <4>1. Newer(j)' = Newer(j)
          BY <1>3, <3>3
        <4> QED BY <3>2, <4>1
      <3>4. CASE i \in Newer(j)
        <4>1. Newer(i) \subseteq Newer(j) \ {i}
          BY <1>1, <1>2, <3>1, <3>4, EarlierFacts DEF Newer
        <4>2. IsFiniteSet(Newer(j) \ {i})
          BY <1>1, NewerCounts, FS_Subset
        <4>3. Cardinality(Newer(i)) <= Cardinality(Newer(j) \ {i})
              /\ Cardinality(Newer(j) \ {i}) \in Nat /\ Cardinality(Newer(i)) \in Nat
          BY <1>1, <4>1, <4>2, NewerCounts, FS_Subset, FS_CardinalityType
        <4> QED BY <1>3, <1>4, <3>2, <4>3
      <3> QED BY <3>3, <3>4
    <2>3. Cardinality(Visible') <= Cardinality(Visible)
          /\ Cardinality(Visible') \in Nat /\ Cardinality(Visible) \in Nat
      BY <1>1, <1>2, VisibleFinite, FS_Subset, FS_CardinalityType
    <2>4. counted \in Nat
      BY <1>1 DEF TypeOK
    <2>5. "torn" \notin disturbed' /\ pc = "rows" => Cardinality(Visible') <= counted
      BY <1>1, <2>1, <2>3, <2>4 DEF AllYetToCome
    <2> QED BY <1>1, <1>4, <2>1, <2>2, <2>5 DEF AllYetToCome
  <1>6. ASSUME "insertion" \notin disturbed' PROVE NoneToCome'
    <2>1. NoneToCome
      BY <1>1, <1>6 DEF OffsetInv
    <2>2. ASSUME pc # "done", NEW j \in seen \cap Visible' PROVE Cardinality(Newer(j)') < Fetched
      <3>1. Cardinality(Newer(j)) < Fetched
        BY <1>2, <2>1, <2>2 DEF NoneToCome
      <3>2. Cardinality(Newer(j) \ {i}) <= Cardinality(Newer(j))
            /\ Cardinality(Newer(j) \ {i}) \in Nat /\ Cardinality(Newer(j)) \in Nat
        BY <1>1, NewerCounts, FS_Subset, FS_CardinalityType
      <3> QED BY <1>3, <1>4, <3>1, <3>2
    <2> QED BY <1>1, <1>4, <2>1, <2>2 DEF NoneToCome
  <1> QED BY <1>5, <1>6

LEMMA OffsetStep == OffsetInv /\ [Next]_vars => OffsetInv'
  <1> SUFFICES ASSUME OffsetInv, [Next]_vars PROVE OffsetInv'
    OBVIOUS
  <1>1. PagesInv'
    BY StepInv DEF OffsetInv
  <1>2. /\ TypeOK /\ WalkType /\ page >= 1 /\ page \in Nat
        /\ pc = "idle" => page = 1 /\ disturbed = {} /\ mode = "none" /\ seen = {} /\ again = {}
    BY DEF OffsetInv, PagesInv, WalkType, TypeOK
  <1>3. ASSUME NEW i \in Ids, Insert(i) PROVE OffsetInv'
    <2>1. UNCHANGED <<mode, page, pc>> /\ (pc = "idle" => disturbed' = disturbed)
      BY <1>2, <1>3 DEF Insert, request
    <2> QED BY <1>1, <1>2, <1>3, <2>1, InsertPlaces DEF OffsetInv
  <1>4. ASSUME NEW i \in Ids, SoftDelete(i) PROVE OffsetInv'
    <2>1. UNCHANGED <<mode, page, pc>> /\ (pc = "idle" => disturbed' = disturbed)
          /\ (Ties' <=> Ties)
      BY <1>2, <1>4 DEF SoftDelete, request, Ties
    <2> QED BY <1>1, <1>2, <1>4, <2>1, DeletePlaces DEF OffsetInv
  <1>5. ASSUME NEW m \in Modes, NEW l \in Limits, Begin(m, l) PROVE OffsetInv'
    <2>1. pc' = "ask" /\ page' = 1 /\ seen' = {} /\ again' = {} /\ l \in Nat /\ limit' = l
      BY <1>2, <1>5, PagesAssumption DEF Begin, given
    <2>2. Fetched' = 0 /\ TypeOK'
      BY <1>1, <2>1 DEF Fetched, Skipped, PagesInv
    <2>3. \A j : Cardinality(Newer(j)') \in Nat
      <3>1. \A j : Newer(j)' = Newer(j)
        BY <1>5, SamePlaces DEF Begin, table
      <3> QED BY <1>2, <3>1, NewerCounts
    <2> QED BY <1>1, <2>1, <2>2, <2>3 DEF OffsetInv, AllYetToCome, NoneToCome
  <1>6. CASE AskCursor \/ LookupCursor \/ FetchCursor
    <2>1. UNCHANGED <<mode, page>> /\ mode # "offset" /\ pc' # "idle"
      BY <1>2, <1>6 DEF AskCursor, LookupCursor, FetchCursor, WalkType, request
    <2> QED BY <1>1, <1>2, <2>1 DEF OffsetInv
  <1>7. CASE AskOffset
    <2>1. pc = "ask" /\ pc' = "both"
          /\ UNCHANGED <<rows, created, hidden, mode, limit, page, counted, seen, again, stable, disturbed>>
      BY <1>7 DEF AskOffset, table, request, given
    <2>2. (\A j : Newer(j)' = Newer(j)) /\ (Ties' <=> Ties) /\ Visible' = Visible
      BY <2>1, SamePlaces
    <2>3. Fetched' = Fetched
      BY <2>1 DEF Fetched, Skipped
    <2>4. (AllYetToCome => AllYetToCome') /\ (NoneToCome => NoneToCome')
      <3>1. \A j : Cardinality(Newer(j))' = Cardinality(Newer(j))
        BY <2>2
      <3>2. AllYetToCome => AllYetToCome'
        BY <2>1, <2>3, <3>1 DEF AllYetToCome
      <3>3. NoneToCome => NoneToCome'
        BY <2>1, <2>2, <2>3, <3>1 DEF NoneToCome
      <3> QED BY <3>2, <3>3
    <2> QED BY <1>1, <1>2, <2>1, <2>2, <2>4 DEF OffsetInv
  <1>8. CASE CountRows
    <2>1. /\ UNCHANGED <<mode, disturbed>> /\ (Ties' <=> Ties) /\ mode = "offset" /\ pc' # "idle"
      BY <1>8 DEF CountRows, TurnPage, table, Ties
    <2>2. page' >= 1
      BY <1>2, <1>8 DEF CountRows, TurnPage
    <2> QED BY <1>1, <1>8, <2>1, <2>2, CountRowsStep DEF OffsetInv
  <1>9. CASE FetchOffset
    <2>1. /\ UNCHANGED <<mode, disturbed>> /\ (Ties' <=> Ties) /\ mode = "offset" /\ pc' # "idle"
      BY <1>9 DEF FetchOffset, TurnPage, table, Ties
    <2>2. page' >= 1
      BY <1>2, <1>9 DEF FetchOffset, TurnPage
    <2> QED BY <1>1, <1>9, <2>1, <2>2, FetchOffsetStep DEF OffsetInv
  <1>10. CASE UNCHANGED vars
    <2>1. UNCHANGED <<rows, created, hidden, mode, limit, pc, page, counted, seen, again, stable, disturbed>>
      BY <1>10 DEF vars
    <2>2. (\A j : Newer(j)' = Newer(j)) /\ (Ties' <=> Ties) /\ Visible' = Visible
      BY <2>1, SamePlaces
    <2>3. Fetched' = Fetched
      BY <2>1 DEF Fetched, Skipped
    <2>4. (AllYetToCome => AllYetToCome') /\ (NoneToCome => NoneToCome')
      <3>1. \A j : Cardinality(Newer(j))' = Cardinality(Newer(j))
        BY <2>2
      <3>2. Cardinality(Visible)' = Cardinality(Visible)
        BY <2>2
      <3>3. AllYetToCome => AllYetToCome'
        BY <2>1, <2>3, <3>1, <3>2 DEF AllYetToCome
      <3>4. NoneToCome => NoneToCome'
        BY <2>1, <2>2, <2>3, <3>1 DEF NoneToCome
      <3> QED BY <3>3, <3>4
    <2> QED BY <1>1, <1>2, <2>1, <2>2, <2>4 DEF OffsetInv
  <1> QED
    BY <1>3, <1>4, <1>5, <1>6, <1>7, <1>8, <1>9, <1>10 DEF Next, WalkStep

LEMMA OffsetWalks == Spec => []OffsetInv
  <1>1. Init => OffsetInv
    BY InitInv DEF Init, OffsetInv
  <1> QED BY <1>1, OffsetStep, PTL DEF Spec

(* A finished walk along page numbers gave every user that was there all   *)
(* the time, for any page size, unless one of the listed disturbances      *)
(* happened or two rows have one createdAt; sign-ups between two pages and *)
(* deletions of users still to come are not among them.                    *)
THEOREM NothingElseSkipped == Spec => []OffsetWalkComplete
  <1>1. OffsetInv => OffsetWalkComplete
    BY DEF OffsetInv, AllYetToCome, OffsetWalkComplete
  <1> QED BY <1>1, OffsetWalks, PTL

(* A walk along page numbers gives a user twice only if somebody signed up *)
(* meanwhile or two rows have one createdAt: no deletion makes it repeat.  *)
THEOREM RepeatsFollowSignUps == Spec => []OffsetRepeatsExplained
  <1>1. OffsetInv => OffsetRepeatsExplained
    BY DEF OffsetInv, NoneToCome, OffsetRepeatsExplained
  <1> QED BY <1>1, OffsetWalks, PTL
=============================================================================
