----------------------- MODULE KeysetPaginatorProofs ------------------------
(***************************************************************************)
(* Proofs about KeysetPaginator: what a forward walk repeats and what it   *)
(* misses, and what a client that turns round is given, for any table, key *)
(* list, order, limit and timestamps.  For the forward walk the two orders *)
(* involved, of the sort and of the cursors, need not agree: the argument  *)
(* uses that the cursors' order is a strict one and that a walk's cursors  *)
(* ascend in it, and of the sort only what one page has of it.             *)
(***************************************************************************)
EXTENDS KeysetPaginator, FiniteSetTheorems, TLAPS

Known == rows \cup dead

\* i comes before j for the where clause.
CursorBefore(i, j) ==
    IF order = "ASC" THEN Less(Encoded(i), Encoded(j)) ELSE Less(Encoded(j), Encoded(i))

Covered(i, C) == \E l \in C : i = l \/ Precedes(i, l)
Hidden(j) == \E l \in cursors : HiddenBy(j, l)

WalkType ==
    /\ client = "none" => pc = "idle"
    /\ pc = "idle" => seen = {} /\ after = NoCursor /\ before = NoCursor /\ nextAfter = NoCursor
    /\ client # "forward" => seen = {} /\ stable = {}
    /\ seen \subseteq Known

\* The cursor asked for is the furthest of the cursors so far.
AtCursor ==
    /\ before = NoCursor
    /\ \/ after = NoCursor /\ cursors = {}
       \/ \E c \in cursors : after = Encoded(c) /\ \A l \in cursors : ~CursorBefore(c, l)

\* Before a page: the rows given lie before some cursor, and the others that
\* were there all the time are yet to come or hidden.
Asked ==
    /\ nextAfter = NoCursor
    /\ \A i \in seen : Covered(i, cursors)
    /\ \A j \in stable : j \in seen \/ Selected(j) \/ Hidden(j)

\* After a page that ends in last, or is the final one.
Answered ==
    \/ nextAfter = NoCursor /\ \A j \in stable : j \in seen \/ Hidden(j)
    \/ \E last \in seen :
          /\ nextAfter = Encoded(last)
          /\ \A l \in cursors : ~CursorBefore(last, l)
          /\ \A i \in seen : Covered(i, cursors \cup {last})
          /\ \A j \in stable : j \in seen \/ Precedes(last, j) \/ Hidden(j)

WalkInv ==
    /\ TypeOK /\ WalkType
    /\ client = "forward" =>
          /\ AtCursor
          /\ pc = "query" => Asked
          /\ pc = "answered" => Answered
    /\ RepeatsExplained
-----------------------------------------------------------------------------
\* Comparing key by key is a strict order on the values of one key list.
LEMMA LessStrict ==
    ASSUME NEW n \in Nat, NEW u \in [1 .. n -> Int], NEW v \in [1 .. n -> Int],
           NEW w \in [1 .. n -> Int]
    PROVE  ~Less(u, u) /\ (Less(u, v) /\ Less(v, w) => Less(u, w))
  <1>1. ~Less(u, u)
    BY DEF Less
  <1>2. ASSUME Less(u, v), Less(v, w) PROVE Less(u, w)
    <2>1. PICK a \in 1 .. n : u[a] < v[a] /\ \A m \in 1 .. (a - 1) : u[m] = v[m]
      BY <1>2 DEF Less
    <2>2. PICK b \in 1 .. n : v[b] < w[b] /\ \A m \in 1 .. (b - 1) : v[m] = w[m]
      BY <1>2 DEF Less
    <2>3. CASE a <= b
      <3>1. u[a] < w[a]
        BY <2>1, <2>2, <2>3
      <3>2. \A m \in 1 .. (a - 1) : u[m] = w[m]
        BY <2>1, <2>2, <2>3
      <3> QED BY <3>1, <3>2 DEF Less
    <2>4. CASE b < a
      <3>1. u[b] < w[b]
        BY <2>1, <2>2, <2>4
      <3>2. \A m \in 1 .. (b - 1) : u[m] = w[m]
        BY <2>1, <2>2, <2>4
      <3> QED BY <3>1, <3>2 DEF Less
    <2> QED BY <2>3, <2>4
  <1> QED BY <1>1, <1>2

LEMMA TruncateType == \A t \in Nat : Truncate(t) \in Nat
  <1> SUFFICES ASSUME NEW t \in Nat PROVE Truncate(t) \in Nat
    OBVIOUS
  <1>1. t \div Milli \in Nat
    BY PaginatorAssumption
  <1> QED BY <1>1, PaginatorAssumption DEF Truncate

\* The key lists of the paginator end in the id.
LEMMA KeysFacts ==
    ASSUME TypeOK, client # "none"
    PROVE  /\ Len(keys) \in Nat \ {0} /\ DOMAIN keys = 1 .. Len(keys)
           /\ keys[Len(keys)] = "id"
  BY PaginatorAssumption DEF TypeOK

\* A cursor has one number for each key, and the last of them is the id.
LEMMA EncodedFacts ==
    ASSUME TypeOK, client # "none", NEW i \in Ids
    PROVE  /\ Encoded(i) \in [1 .. Len(keys) -> Int]
           /\ Encoded(i) \in CursorValues /\ Encoded(i) # NoCursor
           /\ Encoded(i)[Len(Encoded(i))] = i
  <1>1. i \in Nat /\ created[i] \in Nat /\ Truncate(created[i]) \in Nat
    <2>1. i \in Nat /\ created[i] \in Nat
      BY PaginatorAssumption DEF TypeOK, Times
    <2> QED BY <2>1, TruncateType
  <1>2. Encoded(i) \in [1 .. Len(keys) -> Nat]
    BY <1>1, KeysFacts DEF Encoded
  <1>3. Encoded(i) \in Seq(Nat) /\ Len(Encoded(i)) = Len(keys)
    BY <1>2, KeysFacts
  <1>4. Encoded(i) # NoCursor
    BY <1>3, KeysFacts DEF NoCursor
  <1>5. Encoded(i)[Len(keys)] = i
    BY KeysFacts DEF Encoded
  <1> QED BY <1>2, <1>3, <1>4, <1>5 DEF CursorValues

\* The order of the cursors is a strict one.
LEMMA CursorStrict ==
    ASSUME TypeOK, client # "none", NEW i \in Ids, NEW j \in Ids, NEW k \in Ids
    PROVE  /\ ~CursorBefore(i, i)
           /\ CursorBefore(i, j) /\ CursorBefore(j, k) => CursorBefore(i, k)
  <1> DEFINE n == Len(keys)
  <1>1. n \in Nat
    BY KeysFacts
  <1>2. /\ Encoded(i) \in [1 .. n -> Int]
        /\ Encoded(j) \in [1 .. n -> Int]
        /\ Encoded(k) \in [1 .. n -> Int]
    BY EncodedFacts
  <1> HIDE DEF n
  <1>3. ~Less(Encoded(i), Encoded(i))
    BY <1>1, <1>2, LessStrict
  <1>4. Less(Encoded(i), Encoded(j)) /\ Less(Encoded(j), Encoded(k)) => Less(Encoded(i), Encoded(k))
    BY <1>1, <1>2, LessStrict
  <1>5. Less(Encoded(k), Encoded(j)) /\ Less(Encoded(j), Encoded(i)) => Less(Encoded(k), Encoded(i))
    BY <1>1, <1>2, LessStrict
  <1> QED BY <1>3, <1>4, <1>5 DEF CursorBefore

\* After the cursor of c, the where clause selects what comes behind c.
LEMMA SelectedBehind ==
    ASSUME TypeOK, client # "none", NEW c \in Ids, after = Encoded(c), NEW i \in Ids
    PROVE  Selected(i) <=> CursorBefore(c, i)
  <1>1. after # NoCursor
    BY EncodedFacts
  <1> QED BY <1>1 DEF Selected, Backward, Beyond, CursorBefore
LEMMA CountFacts ==
    ASSUME TypeOK
    PROVE  /\ limit \in Nat \ {0}
           /\ Cardinality({i \in rows : Selected(i)}) \in Nat
  <1>1. IsFiniteSet({i \in rows : Selected(i)})
    BY PaginatorAssumption, FS_Subset DEF TypeOK
  <1> QED BY <1>1, FS_CardinalityType DEF TypeOK

\* Neither order changes unless a row or the options do.
LEMMA SameOrders ==
    ASSUME UNCHANGED <<created, keys, order>>
    PROVE  /\ \A i : Encoded(i)' = Encoded(i)
           /\ \A i, j : Precedes(i, j)' <=> Precedes(i, j)
           /\ \A i, j : CursorBefore(i, j)' <=> CursorBefore(i, j)
           /\ \A i, j : HiddenBy(i, j)' <=> HiddenBy(i, j)
           /\ \A i, C : Covered(i, C)' <=> Covered(i, C)
           /\ cursors' = cursors => \A j : Hidden(j)' <=> Hidden(j)
  BY DEF Encoded, Stored, Precedes, CursorBefore, HiddenBy, Covered, Hidden
-----------------------------------------------------------------------------
LEMMA InitInv == Init => WalkInv
  <1> SUFFICES ASSUME Init PROVE WalkInv
    OBVIOUS
  <1>1. created \in [Ids -> Times] /\ limit \in Nat \ {0} /\ calm \in 0 .. 3
    BY PaginatorAssumption DEF Init, Times
  <1>2. {after, before, nextAfter, nextBefore} \subseteq CursorValues
    BY DEF Init, CursorValues
  <1>3. TypeOK
    BY <1>1, <1>2 DEF Init, TypeOK
  <1> QED BY <1>3 DEF Init, WalkInv, WalkType, RepeatsExplained

\* A query given a page of the selected rows.
LEMMA PaginateStep == WalkInv /\ Paginate => WalkInv'
  <1> SUFFICES ASSUME WalkInv, Paginate PROVE WalkInv'
    OBVIOUS
  <1> DEFINE from == {i \in rows : Selected(i)}
             hasMore == Cardinality(from) > limit
  <1>1. TypeOK /\ WalkType /\ pc = "query" /\ pc' = "answered" /\ client # "none"
    BY DEF WalkInv, WalkType, Paginate
  <1>2. UNCHANGED <<rows, dead, created, client, keys, order, limit, after, before, stable, cursors,
                    came, prev, turned, expected>>
    BY DEF Paginate, table, options, asked, browseHistory
  <1>3. PICK data \in SUBSET from :
           /\ Taken(data, from)
           /\ page' = data
           /\ IF data = {}
              THEN UNCHANGED <<nextAfter, nextBefore>>
              ELSE \E first, last \in data :
                      Ends(first, last, data) /\ NextCursors(first, last, hasMore)
           /\ IF client = "forward"
              THEN seen' = seen \cup data /\ again' = again \cup (seen \cap data)
              ELSE UNCHANGED <<seen, again>>
    BY DEF Paginate
  <1>4. data \subseteq rows /\ rows \subseteq Ids /\ seen \subseteq Ids /\ cursors \subseteq seen
        /\ stable \subseteq rows
    BY <1>1 DEF TypeOK
  <1>5. nextAfter' \in CursorValues /\ nextBefore' \in CursorValues
    <2>1. CASE data = {}
      BY <1>1, <1>3, <2>1 DEF TypeOK
    <2>2. CASE data # {}
      <3>1. PICK first, last \in data : NextCursors(first, last, hasMore)
        BY <1>3, <2>2
      <3>2. Encoded(first) \in CursorValues /\ Encoded(last) \in CursorValues
        BY <1>1, <1>4, EncodedFacts
      <3> QED BY <1>1, <3>1, <3>2 DEF NextCursors, TypeOK
    <2> QED BY <2>1, <2>2
  <1>6. calm' \in 0 .. 3
    BY <1>1 DEF Paginate, TypeOK
  <1>7. TypeOK'
    BY <1>1, <1>2, <1>3, <1>4, <1>5, <1>6 DEF TypeOK
  <1>8. WalkType'
    BY <1>1, <1>2, <1>3, <1>4 DEF WalkType, Known
  <1>9. CASE client # "forward"
    <2>1. again' = again
      BY <1>3, <1>9
    <2> QED BY <1>2, <1>7, <1>8, <1>9, <2>1 DEF WalkInv, RepeatsExplained, HiddenBy, Precedes,
                                                 Stored, Encoded
  <1>10. CASE client = "forward"
    <2>1. AtCursor /\ Asked /\ RepeatsExplained
      BY <1>1, <1>10 DEF WalkInv
    <2>2. before = NoCursor /\ ~Backward
      BY <2>1 DEF AtCursor, Backward
    <2>3. seen' = seen \cup data /\ again' = again \cup (seen \cap data)
      BY <1>3, <1>10
    <2>4. \A i \in data, l \in cursors : ~CursorBefore(i, l)
      <3> SUFFICES ASSUME NEW i \in data, NEW l \in cursors, CursorBefore(i, l) PROVE FALSE
        OBVIOUS
      <3>1. PICK c \in cursors : after = Encoded(c) /\ \A m \in cursors : ~CursorBefore(c, m)
        BY <2>1 DEF AtCursor
      <3>2. CursorBefore(c, i)
        BY <1>1, <1>3, <1>4, <3>1, SelectedBehind
      <3> QED BY <1>1, <1>4, <3>1, <3>2, CursorStrict
    <2>5. \A i \in seen \cap data : \E l \in cursors : HiddenBy(l, i)
      <3> SUFFICES ASSUME NEW i \in seen \cap data PROVE \E l \in cursors : HiddenBy(l, i)
        OBVIOUS
      <3>1. PICK l \in cursors : i = l \/ Precedes(i, l)
        BY <2>1 DEF Asked, Covered
      <3>2. ~CursorBefore(i, l)
        BY <2>4
      <3>3. i # l
        <4>1. PICK c \in cursors : after = Encoded(c) /\ \A m \in cursors : ~CursorBefore(c, m)
          BY <2>1, <3>1 DEF AtCursor
        <4>2. CursorBefore(c, i)
          BY <1>1, <1>3, <1>4, <4>1, SelectedBehind
        <4> QED BY <3>1, <4>1, <4>2
      <3> QED BY <3>1, <3>2, <3>3 DEF HiddenBy, CursorBefore
    <2>6. RepeatsExplained'
      <3>1. \A i \in again \cup (seen \cap data) : \E l \in cursors : HiddenBy(l, i)
        BY <2>1, <2>5 DEF RepeatsExplained
      <3>2. \A i, l : HiddenBy(l, i)' <=> HiddenBy(l, i)
        BY <1>2 DEF HiddenBy, Precedes, Stored, Encoded
      <3> QED BY <1>2, <2>3, <3>1, <3>2 DEF RepeatsExplained
    <2>7. AtCursor'
      BY <1>2, <2>1 DEF AtCursor, CursorBefore, Encoded
    <2>8. \A j \in stable : j \in seen' \/ j \in from \ data \/ Hidden(j)
      BY <1>4, <2>1, <2>3 DEF Asked
    <2>9. Answered'
      <3>1. CASE hasMore
        <4>1. data # {}
          <5>1. Cardinality(data) # 0
            BY <1>1, <1>3, <3>1, CountFacts DEF Taken
          <5> QED BY <5>1, FS_EmptySet
        <4>2. PICK first, last \in data : Ends(first, last, data) /\ NextCursors(first, last, hasMore)
          BY <1>3, <4>1
        <4>3. nextAfter' = Encoded(last) /\ last \in seen'
          BY <2>3, <3>1, <4>2 DEF NextCursors
        <4>4. \A i \in seen' : Covered(i, cursors \cup {last})
          BY <2>1, <2>3, <4>2 DEF Asked, Covered, Ends
        <4>5. \A j \in from \ data : Precedes(last, j)
          BY <1>3, <2>2, <4>2 DEF Taken
        <4>6. \A j \in stable : j \in seen' \/ Precedes(last, j) \/ Hidden(j)
          BY <2>8, <4>5
        <4>7. \A l \in cursors : ~CursorBefore(last, l)
          BY <2>4, <4>2
        <4> QED BY <1>2, <4>3, <4>4, <4>6, <4>7, SameOrders DEF Answered
      <3>2. CASE ~hasMore
        <4>1. data = from
          BY <1>1, <1>3, <3>2, CountFacts DEF Taken
        <4>2. nextAfter' = NoCursor
          <5>1. nextAfter = NoCursor
            BY <2>1 DEF Asked
          <5>2. CASE data # {}
            <6>1. PICK first, last \in data : NextCursors(first, last, hasMore)
              BY <1>3, <5>2
            <6> QED BY <2>2, <3>2, <5>1, <6>1 DEF NextCursors
          <5> QED BY <1>3, <5>1, <5>2
        <4>3. \A j \in stable : j \in seen' \/ Hidden(j)
          BY <2>8, <4>1
        <4> QED BY <1>2, <4>2, <4>3, SameOrders DEF Answered
      <3> QED BY <3>1, <3>2
    <2> QED BY <1>1, <1>7, <1>8, <2>6, <2>7, <2>9 DEF WalkInv
  <1> QED BY <1>9, <1>10

\* A row that is inserted is none of those the walk has dealt with.
LEMMA InsertStep == WalkInv /\ (\E i \in Ids : Insert(i)) => WalkInv'
  <1> SUFFICES ASSUME WalkInv, NEW i \in Ids, Insert(i) PROVE WalkInv'
    OBVIOUS
  <1>1. PICK t \in Times : created' = [created EXCEPT ![i] = t]
    BY DEF Insert
  <1>2. /\ i \notin Known /\ rows' = rows \cup {i} /\ calm' = 0
        /\ UNCHANGED <<dead, client, keys, order, limit, after, before, nextAfter, nextBefore, pc,
                       page, seen, again, stable, cursors, came, prev, turned, expected>>
    BY DEF Insert, Known, options, asked, answer, forwardHistory, browseHistory
  <1>3. TypeOK /\ WalkType /\ RepeatsExplained
    BY DEF WalkInv
  <1>4. seen \subseteq Known /\ stable \subseteq Known /\ cursors \subseteq seen /\ again \subseteq seen
        /\ Known \subseteq Ids
    BY <1>3 DEF TypeOK, WalkType, Known
  <1>5. TypeOK'
    BY <1>1, <1>2, <1>3 DEF TypeOK, Known
  <1>6. WalkType'
    BY <1>2, <1>3 DEF WalkType, Known
  <1>7. \A j \in Known : created'[j] = created[j]
    BY <1>1, <1>2, <1>3 DEF TypeOK
  <1>8. \A j \in Known : Encoded(j)' = Encoded(j) /\ Stored(j)' = Stored(j)
    BY <1>2, <1>7 DEF Encoded, Stored
  <1>9. /\ \A j, k \in Known : Precedes(j, k)' <=> Precedes(j, k)
        /\ \A j, k \in Known : CursorBefore(j, k)' <=> CursorBefore(j, k)
    BY <1>2, <1>8 DEF Precedes, CursorBefore
  <1>10. \A j, k \in Known : HiddenBy(j, k)' <=> HiddenBy(j, k)
    BY <1>2, <1>8, <1>9 DEF HiddenBy
  <1>11. RepeatsExplained'
    BY <1>2, <1>3, <1>4, <1>10 DEF RepeatsExplained
  <1>12. \A j \in Known : Hidden(j) => Hidden(j)'
    BY <1>2, <1>4, <1>10 DEF Hidden
  <1>13. ASSUME AtCursor PROVE AtCursor'
    BY <1>2, <1>4, <1>8, <1>9, <1>13 DEF AtCursor
  <1>14. ASSUME Asked PROVE Asked'
    <2>1. \A j \in Known : Selected(j)' <=> Selected(j)
      BY <1>2, <1>8 DEF Selected, Backward, Beyond
    <2>2. \A j \in seen : Covered(j, cursors)'
      BY <1>2, <1>4, <1>9, <1>14 DEF Asked, Covered
    <2> QED BY <1>2, <1>4, <1>12, <1>14, <2>1, <2>2 DEF Asked
  <1>15. ASSUME Answered PROVE Answered'
    <2>1. CASE nextAfter = NoCursor /\ \A j \in stable : j \in seen \/ Hidden(j)
      BY <1>2, <1>4, <1>12, <2>1 DEF Answered
    <2>2. ASSUME NEW last \in seen, nextAfter = Encoded(last),
                 \A l \in cursors : ~CursorBefore(last, l),
                 \A j \in seen : Covered(j, cursors \cup {last}),
                 \A j \in stable : j \in seen \/ Precedes(last, j) \/ Hidden(j)
          PROVE  Answered'
      <3>1. nextAfter' = Encoded(last)' /\ last \in seen'
        BY <1>2, <1>4, <1>8, <2>2
      <3>2. \A l \in cursors' : ~CursorBefore(last, l)'
        BY <1>2, <1>4, <1>9, <2>2
      <3>3. \A j \in seen' : Covered(j, cursors \cup {last})'
        BY <1>2, <1>4, <1>9, <2>2 DEF Covered
      <3>4. \A j \in stable' : j \in seen' \/ Precedes(last, j)' \/ Hidden(j)'
        BY <1>2, <1>4, <1>9, <1>12, <2>2
      <3> QED BY <3>1, <3>2, <3>3, <3>4 DEF Answered
    <2> QED BY <1>15, <2>1, <2>2 DEF Answered
  <1> QED BY <1>2, <1>5, <1>6, <1>11, <1>13, <1>14, <1>15 DEF WalkInv

\* The next page begins where the last one ended: a row behind that end is
\* behind its cursor too, or hidden by it.
LEMMA AskNextStep == WalkInv /\ AskNext => WalkInv'
  <1> SUFFICES ASSUME WalkInv, AskNext PROVE WalkInv'
    OBVIOUS
  <1>1. /\ pc = "answered" /\ pc' = "query" /\ nextAfter # NoCursor
        /\ after' = nextAfter /\ before' = NoCursor
        /\ nextAfter' = NoCursor /\ nextBefore' = NoCursor
        /\ UNCHANGED <<rows, dead, created, client, keys, order, limit, page, seen, again, stable,
                       calm>>
    BY DEF AskNext, Ask, table, options
  <1>2. TypeOK /\ WalkType /\ RepeatsExplained /\ client # "none"
    BY <1>1 DEF WalkInv, WalkType
  <1>3. came' \in {"forward", "back"} /\ turned' \in BOOLEAN /\ prev' \subseteq Ids
        /\ expected' \subseteq Ids
    BY <1>2 DEF AskNext, Remember, browseHistory, TypeOK
  <1>4. WalkType'
    BY <1>1, <1>2 DEF WalkType, Known
  <1>5. CASE client # "forward"
    <2>1. cursors' = cursors
      BY <1>5 DEF AskNext
    <2>2. TypeOK'
      BY <1>1, <1>2, <1>3, <2>1 DEF TypeOK, CursorValues
    <2>3. RepeatsExplained'
      BY <1>1, <1>2, <2>1, SameOrders DEF RepeatsExplained
    <2> QED BY <1>1, <1>4, <1>5, <2>2, <2>3 DEF WalkInv
  <1>6. CASE client = "forward"
    <2>1. AtCursor /\ Answered
      BY <1>1, <1>6 DEF WalkInv
    <2>2. PICK last \in seen :
             /\ nextAfter = Encoded(last)
             /\ \A l \in cursors : ~CursorBefore(last, l)
             /\ \A i \in seen : Covered(i, cursors \cup {last})
             /\ \A j \in stable : j \in seen \/ Precedes(last, j) \/ Hidden(j)
      BY <1>1, <2>1 DEF Answered
    <2>3. last \in Ids /\ stable \subseteq Ids
      BY <1>2 DEF TypeOK
    <2>4. cursors' = cursors \cup {last}
      BY <1>2, <1>6, <2>2, <2>3, EncodedFacts DEF AskNext
    <2>5. TypeOK'
      BY <1>1, <1>2, <1>3, <2>4 DEF TypeOK, CursorValues
    <2>6. after' = Encoded(last)'
      BY <1>1, <2>2, SameOrders
    <2>7. RepeatsExplained'
      BY <1>1, <1>2, <2>4, SameOrders DEF RepeatsExplained
    <2>8. AtCursor'
      <3>1. \A l \in cursors' : ~CursorBefore(last, l)
        BY <1>2, <2>2, <2>3, <2>4, CursorStrict
      <3>2. \A l \in cursors' : ~CursorBefore(last, l)'
        BY <1>1, <3>1, SameOrders
      <3> QED BY <1>1, <2>4, <2>6, <3>2 DEF AtCursor
    <2>9. Asked'
      <3>1. \A i \in seen' : Covered(i, cursors)'
        BY <1>1, <2>2, <2>4, SameOrders DEF Covered
      <3>2. ASSUME NEW j \in stable, Hidden(j) PROVE Hidden(j)'
        BY <1>1, <2>4, <3>2, SameOrders DEF Hidden
      <3>3. ASSUME NEW j \in stable, Precedes(last, j), ~CursorBefore(last, j) PROVE Hidden(j)'
        <4>1. HiddenBy(j, last)
          BY <3>3 DEF HiddenBy, CursorBefore
        <4> QED BY <1>1, <2>4, <4>1, SameOrders DEF Hidden
      <3>4. ASSUME NEW j \in stable, CursorBefore(last, j) PROVE Selected(j)'
        <4>1. Encoded(j)' = Encoded(j)
          BY <1>1, SameOrders
        <4> QED BY <1>1, <2>2, <3>4, <4>1 DEF Selected, Backward, Beyond, CursorBefore
      <3> QED BY <1>1, <2>2, <3>1, <3>2, <3>3, <3>4 DEF Asked
    <2> QED BY <1>1, <1>4, <1>6, <2>5, <2>7, <2>8, <2>9 DEF WalkInv
  <1> QED BY <1>5, <1>6

LEMMA StepInv == WalkInv /\ [Next]_vars => WalkInv'
  <1> SUFFICES ASSUME WalkInv, [Next]_vars PROVE WalkInv'
    OBVIOUS
  <1>1. TypeOK /\ WalkType /\ RepeatsExplained
    BY DEF WalkInv
  <1>2. CASE \E i \in Ids : Insert(i)
    BY <1>2, InsertStep
  <1>3. ASSUME NEW i \in Ids, Delete(i) PROVE WalkInv'
    <2>1. /\ i \in rows /\ rows' = rows \ {i} /\ dead' = dead \cup {i} /\ stable' = stable \ {i}
          /\ calm' = 0
          /\ UNCHANGED <<created, client, keys, order, limit, after, before, nextAfter, nextBefore,
                         pc, page, seen, again, cursors, came, prev, turned, expected>>
      BY <1>3 DEF Delete, options, asked, answer, browseHistory
    <2>2. TypeOK'
      BY <1>1, <2>1 DEF TypeOK
    <2>3. WalkType'
      BY <1>1, <2>1 DEF WalkType, Known
    <2>4. RepeatsExplained'
      BY <1>1, <2>1, SameOrders DEF RepeatsExplained
    <2>5. AtCursor => AtCursor'
      BY <2>1, SameOrders DEF AtCursor
    <2>6. Asked => Asked'
      BY <2>1, SameOrders DEF Asked, Selected, Backward, Beyond
    <2>7. Answered => Answered'
      BY <2>1, SameOrders DEF Answered
    <2> QED BY <2>1, <2>2, <2>3, <2>4, <2>5, <2>6, <2>7 DEF WalkInv
  <1>4. ASSUME NEW c \in Clients, NEW ks \in KeyChoices, NEW o \in {"ASC", "DESC"},
               NEW l \in Limits, Begin(c, ks, o, l)
        PROVE  WalkInv'
    <2>1. /\ pc = "idle" /\ client' = c /\ keys' = ks /\ order' = o
          /\ limit' = (IF l = 0 THEN DefaultLimit ELSE l)
          /\ pc' = "query" /\ stable' = (IF c = "forward" THEN rows ELSE {})
          /\ UNCHANGED <<rows, dead, created, after, before, nextAfter, nextBefore, page, seen,
                         again, cursors, came, prev, turned, expected, calm>>
      BY <1>4 DEF Begin, table, asked, answer, browseHistory
    <2>2. c \in {"forward", "browse"} /\ limit' \in Nat \ {0}
      BY <2>1, PaginatorAssumption
    <2>3. TypeOK'
      BY <1>1, <2>1, <2>2 DEF TypeOK
    <2>4. seen = {} /\ cursors = {} /\ again = {} /\ after = NoCursor /\ before = NoCursor
          /\ nextAfter = NoCursor
      BY <1>1, <2>1 DEF WalkType, TypeOK
    <2>5. WalkType'
      BY <1>1, <2>1, <2>2 DEF WalkType, Known
    <2>6. AtCursor' /\ Asked'
      BY <2>1, <2>4 DEF AtCursor, Asked, Selected, Backward
    <2> QED BY <2>1, <2>3, <2>4, <2>5, <2>6 DEF WalkInv, RepeatsExplained
  <1>5. CASE Paginate
    BY <1>5, PaginateStep
  <1>6. CASE AskNext
    BY <1>6, AskNextStep
  <1>7. CASE AskPrevious
    <2>1. /\ pc = "answered" /\ pc' = "query" /\ client = "browse"
          /\ after' = NoCursor /\ before' = nextBefore
          /\ nextAfter' = NoCursor /\ nextBefore' = NoCursor
          /\ UNCHANGED <<rows, dead, created, client, keys, order, limit, page, seen, again, stable,
                         calm, cursors>>
      BY <1>7 DEF AskPrevious, Ask, table, options
    <2>2. came' \in {"forward", "back"} /\ turned' \in BOOLEAN /\ prev' \subseteq Ids
          /\ expected' \subseteq Ids
      BY <1>1, <1>7 DEF AskPrevious, Remember, browseHistory, TypeOK
    <2>3. TypeOK'
      BY <1>1, <2>1, <2>2 DEF TypeOK, CursorValues
    <2>4. WalkType'
      BY <1>1, <2>1 DEF WalkType, Known
    <2>5. RepeatsExplained'
      BY <1>1, <2>1, SameOrders DEF RepeatsExplained
    <2> QED BY <2>1, <2>3, <2>4, <2>5 DEF WalkInv
  <1>8. CASE UNCHANGED vars
    <2>1. TypeOK' /\ WalkType'
      BY <1>1, <1>8 DEF vars, TypeOK, WalkType, Known
    <2>2. RepeatsExplained'
      BY <1>1, <1>8, SameOrders DEF vars, RepeatsExplained
    <2>3. (AtCursor => AtCursor') /\ (Answered => Answered')
      BY <1>8, SameOrders DEF vars, AtCursor, Answered
    <2>4. Asked => Asked'
      BY <1>8, SameOrders DEF vars, Asked, Selected, Backward, Beyond
    <2> QED BY <1>8, <2>1, <2>2, <2>3, <2>4 DEF vars, WalkInv
  <1> QED BY <1>2, <1>3, <1>4, <1>5, <1>6, <1>7, <1>8 DEF Next

LEMMA Walks == Spec => []WalkInv
  BY InitInv, StepInv, PTL DEF Spec
-----------------------------------------------------------------------------
(* Every reachable state of the paginator and its clients is well-typed,    *)
(* cursors (buildPaginator, paginate) included.                             *)
THEOREM TypeCorrect == Spec => []TypeOK
  <1>1. WalkInv => TypeOK
    BY DEF WalkInv
  <1> QED BY <1>1, Walks, PTL

(* A forward walk gives a row twice only where the sort and the where       *)
(* clause of buildCursorQuery disagree about the row and a cursor's row.    *)
THEOREM RepeatsAreTies == Spec => []RepeatsExplained
  <1>1. WalkInv => RepeatsExplained
    BY DEF WalkInv
  <1> QED BY <1>1, Walks, PTL

(* A forward walk that ended has given every row that stayed, but for those *)
(* the where clause of buildCursorQuery places before a cursor and the sort *)
(* behind it.                                                               *)
THEOREM NothingElseMissed == Spec => []ForwardComplete
  <1>1. WalkInv => ForwardComplete
    <2> SUFFICES ASSUME WalkInv, client = "forward", Done, NEW j \in stable
                 PROVE  j \in seen \/ Hidden(j)
      BY DEF ForwardComplete, Hidden
    <2>1. TypeOK /\ Answered /\ nextAfter = NoCursor
      BY DEF WalkInv, Done
    <2>2. \A i \in seen : Encoded(i) # NoCursor
      BY <2>1, EncodedFacts DEF TypeOK
    <2> QED BY <2>1, <2>2 DEF Answered
  <1> QED BY <1>1, Walks, PTL
-----------------------------------------------------------------------------
(* A client that turns round.  While the table is at rest and the two      *)
(* orders agree, a page is what a query takes of the rows that its         *)
(* neighbour's cursor leaves, so the way back takes the same rows again.   *)
Ways == {"forward", "back"}
Opposite(way) == IF way = "forward" THEN "back" ELSE "forward"

\* A row lies beyond a cursor in the way the client goes.
Ahead(way, c, i) == IF (order = "ASC") = (way = "forward") THEN Less(c, Encoded(i)) ELSE Less(Encoded(i), c)
Rest(way, i) == {j \in rows : Ahead(way, Encoded(i), j)}

\* D is what a query that goes this way takes of S.
Takes(way, D, S) ==
    /\ D \subseteq S
    /\ IF Cardinality(S) <= limit THEN D = S ELSE Cardinality(D) = limit
    /\ \A i \in D, j \in S \ D : Ahead(way, Encoded(i), j)

\* A page that ends in i is what a query back from beyond i takes.
EndsAt(way, D, i) == i \in D /\ Takes(Opposite(way), D, {i} \cup Rest(Opposite(way), i))

Cursor(way) == IF way = "forward" THEN after ELSE before
NextCursor(way) == IF way = "forward" THEN nextAfter ELSE nextBefore
\* The rows beyond the cursor asked for.
Beyonds == {j \in rows : Cursor(came) # NoCursor => Ahead(came, Cursor(came), j)}
Agree == \A i, j \in rows : ~HiddenBy(j, i)

Values == [1 .. Len(keys) -> Int]

\* Which cursors there can be.
BrowseCursors ==
    /\ {after, before, nextAfter, nextBefore} \subseteq {NoCursor} \cup Values
    /\ came \in Ways
    /\ Cursor(Opposite(came)) = NoCursor
    /\ pc # "answered" => nextAfter = NoCursor /\ nextBefore = NoCursor
    /\ pc = "idle" => after = NoCursor /\ before = NoCursor
    /\ after = NoCursor /\ before = NoCursor => came = "forward" /\ ~turned /\ nextBefore = NoCursor
    /\ client # "browse" => ~turned /\ came = "forward"

\* Of a page: it ends at the rows of its cursors.
PageEnds ==
    \A way \in Ways : NextCursor(way) # NoCursor =>
        \E i \in page : NextCursor(way) = Encoded(i) /\ EndsAt(way, page, i)

\* Of a query: it goes on where the page before ended.
GoesOn ==
    Cursor(came) # NoCursor =>
        \E i \in prev : i \in rows /\ Cursor(came) = Encoded(i) /\ EndsAt(came, prev, i)

\* Of a page: its cursor back is the neighbour of the page before.
Adjoins ==
    Cursor(came) # NoCursor /\ NextCursor(Opposite(came)) # NoCursor =>
        \E i \in prev, b \in page :
            /\ EndsAt(came, prev, i) /\ NextCursor(Opposite(came)) = Encoded(b)
            /\ Rest(Opposite(came), b) = {i} \cup Rest(Opposite(came), i)

\* Of a query that turns: it takes from what the page it turns to was taken from.
TurnsBack ==
    turned => \E i \in expected, b \in rows :
        /\ EndsAt(Opposite(came), expected, i) /\ Cursor(came) = Encoded(b)
        /\ Rest(came, b) = {i} \cup Rest(came, i)

BrowseInv ==
    /\ BrowseCursors
    /\ client = "browse" /\ Agree =>
        /\ pc = "answered" /\ calm > 0 => page \subseteq rows /\ PageEnds
        /\ pc = "query" /\ calm > 0 => GoesOn
        /\ pc = "answered" /\ calm > 1 => Adjoins
        /\ pc = "query" /\ calm > 1 => TurnsBack
        /\ pc = "answered" /\ calm > 2 /\ turned => page = expected

TurnInv == WalkInv /\ BrowseInv

\* Two cursors are equal, or one comes before the other.
LEMMA LessTotal ==
    ASSUME NEW n \in {1, 2}, NEW v \in [1 .. n -> Int], NEW w \in [1 .. n -> Int]
    PROVE  v = w \/ Less(v, w) \/ Less(w, v)
  <1> SUFFICES ASSUME v # w PROVE Less(v, w) \/ Less(w, v)
    OBVIOUS
  <1>1. v[1] < w[1] => Less(v, w)
    BY DEF Less
  <1>2. w[1] < v[1] => Less(w, v)
    BY DEF Less
  <1>3. CASE v[1] = w[1]
    <2>1. n = 2 /\ v[2] # w[2]
      BY <1>3
    <2>2. \A m \in 1 .. (2 - 1) : v[m] = w[m]
      BY <1>3
    <2> QED BY <2>1, <2>2 DEF Less
  <1> QED BY <1>1, <1>2, <1>3

\* Both ways of going are strict total orders of the rows.
LEMMA AheadFacts ==
    ASSUME TypeOK, client # "none", NEW way \in Ways, NEW i \in Ids, NEW j \in Ids
    PROVE  /\ Encoded(i) \in Values /\ Encoded(i) # NoCursor /\ (Encoded(i) = Encoded(j) => i = j)
           /\ Ahead(way, Encoded(i), j) <=> Ahead(Opposite(way), Encoded(j), i)
           /\ ~Ahead(way, Encoded(i), i)
           /\ i # j => Ahead(way, Encoded(i), j) \/ Ahead(way, Encoded(j), i)
           /\ ~(Ahead(way, Encoded(i), j) /\ Ahead(way, Encoded(j), i))
  <1>1. Encoded(i) \in Values /\ Encoded(j) \in Values /\ Encoded(i) # NoCursor
        /\ (Encoded(i) = Encoded(j) => i = j)
    BY EncodedFacts DEF Values
  <1>2. Len(keys) \in {1, 2}
    BY PaginatorAssumption DEF TypeOK
  <1>3. /\ ~Less(Encoded(i), Encoded(i))
        /\ ~(Less(Encoded(i), Encoded(j)) /\ Less(Encoded(j), Encoded(i)))
    BY <1>1, <1>2, LessStrict DEF Values
  <1>4. i # j => Less(Encoded(i), Encoded(j)) \/ Less(Encoded(j), Encoded(i))
    BY <1>1, <1>2, LessTotal DEF Values
  <1>5. Ahead(way, Encoded(i), j) <=> Ahead(Opposite(way), Encoded(j), i)
    BY DEF Ahead, Opposite, Ways
  <1> QED BY <1>1, <1>3, <1>4, <1>5 DEF Ahead

LEMMA AheadChain ==
    ASSUME TypeOK, client # "none", NEW way \in Ways, NEW c \in Values, NEW i \in Ids, NEW j \in Ids
    PROVE  /\ Ahead(way, c, i) /\ Ahead(way, Encoded(i), j) => Ahead(way, c, j)
           /\ Ahead(way, c, i) /\ ~Ahead(way, c, j) => Ahead(way, Encoded(j), i)
  <1> DEFINE u == Encoded(i)
             v == Encoded(j)
  <1>1. u \in Values /\ v \in Values
    BY AheadFacts
  <1>2. Len(keys) \in {1, 2}
    BY PaginatorAssumption DEF TypeOK
  <1> HIDE DEF u, v
  <1>3. \A x, y, z \in Values : Less(x, y) /\ Less(y, z) => Less(x, z)
    BY <1>2, LessStrict DEF Values
  <1>4. \A x, y \in Values : x = y \/ Less(x, y) \/ Less(y, x)
    BY <1>2, LessTotal DEF Values
  <1>5. Less(c, u) /\ ~Less(c, v) => Less(v, u)
    BY <1>1, <1>3, <1>4
  <1>6. Less(u, c) /\ ~Less(v, c) => Less(u, v)
    BY <1>1, <1>3, <1>4
  <1> QED BY <1>1, <1>3, <1>5, <1>6 DEF Ahead, u, v

\* There is one way to take from a set.
LEMMA TakesOne ==
    ASSUME TypeOK, client # "none", NEW way \in Ways, NEW S \in SUBSET rows, NEW D, NEW E,
           Takes(way, D, S), Takes(way, E, S)
    PROVE  D = E
  <1>1. IsFiniteSet(S) /\ IsFiniteSet(D) /\ IsFiniteSet(E) /\ D \subseteq Ids /\ E \subseteq Ids
    <2>1. IsFiniteSet(S)
      BY PaginatorAssumption, FS_Subset DEF TypeOK
    <2> QED BY <2>1, FS_Subset DEF Takes, TypeOK
  <1>2. CASE Cardinality(S) <= limit
    BY <1>2 DEF Takes
  <1>3. CASE ~(Cardinality(S) <= limit)
    <2>1. Cardinality(D) = Cardinality(E)
      BY <1>3 DEF Takes
    <2>2. CASE D \subseteq E \/ E \subseteq D
      BY <1>1, <2>1, <2>2, FS_Subset
    <2>3. ASSUME NEW i \in D \ E, NEW j \in E \ D PROVE FALSE
      <3>1. Ahead(way, Encoded(i), j) /\ Ahead(way, Encoded(j), i)
        BY <2>3 DEF Takes
      <3> QED BY <1>1, <2>3, <3>1, AheadFacts
    <2> QED BY <2>2, <2>3
  <1> QED BY <1>2, <1>3

LEMMA OppositeFacts == \A way \in Ways : Opposite(way) \in Ways /\ Opposite(Opposite(way)) = way /\ Opposite(way) # way
  BY DEF Ways, Opposite

\* A page that reaches its limit ends at its last row ...
LEMMA FullEnds ==
    ASSUME TypeOK, client # "none", NEW way \in Ways, NEW from \in SUBSET rows, NEW D, Takes(way, D, from),
           Cardinality(D) = limit,
           \/ from = rows
           \/ \E c \in Values : from = {j \in rows : Ahead(way, c, j)},
           NEW e \in D, \A i \in D : i = e \/ Ahead(way, Encoded(i), e)
    PROVE  EndsAt(way, D, e)
  <1> DEFINE back == Opposite(way)
             S == {e} \cup Rest(back, e)
  <1>1. back \in Ways /\ D \subseteq rows /\ rows \subseteq Ids
    BY OppositeFacts DEF Takes, TypeOK
  <1>2. \A i, j \in Ids : Ahead(back, Encoded(i), j) <=> Ahead(way, Encoded(j), i)
    BY <1>1, AheadFacts, OppositeFacts
  <1>3. D \subseteq S /\ S \subseteq rows
    BY <1>1, <1>2 DEF Rest
  <1>4. IsFiniteSet(S)
    BY <1>1, <1>3, PaginatorAssumption, FS_Subset
  <1> HIDE DEF S
  <1>5. Cardinality(D) \in Nat /\ Cardinality(S) \in Nat /\ Cardinality(D) <= Cardinality(S)
        /\ (Cardinality(S) = Cardinality(D) => S = D)
    BY <1>3, <1>4, FS_Subset, FS_CardinalityType
  <1>6. ASSUME NEW i \in D, NEW j \in S \ D PROVE Ahead(back, Encoded(i), j)
    <2>1. j \in rows /\ j # e /\ Ahead(back, Encoded(e), j)
      BY <1>6, <1>3 DEF S, Rest
    <2>2. Ahead(way, Encoded(j), e)
      BY <1>1, <1>2, <2>1
    <2>3. j \notin from
      <3>1. j \in from => Ahead(way, Encoded(e), j)
        BY <1>6 DEF Takes
      <3> QED BY <1>1, <2>1, <2>2, <3>1, AheadFacts
    <2>4. PICK c \in Values : from = {k \in rows : Ahead(way, c, k)}
      BY <2>1, <2>3
    <2>5. Ahead(way, c, i) /\ ~Ahead(way, c, j)
      BY <1>6, <2>1, <2>3, <2>4 DEF Takes
    <2>6. Ahead(way, Encoded(j), i)
      BY <1>1, <1>6, <2>1, <2>5, AheadChain
    <2> QED BY <1>1, <1>2, <1>6, <2>1, <2>6
  <1>7. limit \in Nat
    BY DEF TypeOK
  <1>8. IF Cardinality(S) <= limit THEN D = S ELSE Cardinality(D) = limit
    BY <1>5, <1>7
  <1> QED BY <1>3, <1>6, <1>8 DEF EndsAt, Takes, S

\* ... and any page after a cursor begins at its first row.
LEMMA CursorBegins ==
    ASSUME TypeOK, client # "none", NEW way \in Ways, NEW c \in Values, NEW D,
           Takes(way, D, {j \in rows : Ahead(way, c, j)}),
           NEW b \in D, \A i \in D : i = b \/ Ahead(way, Encoded(b), i)
    PROVE  /\ {j \in rows : Ahead(way, c, j)} = {b} \cup Rest(way, b)
           /\ EndsAt(Opposite(way), D, b)
  <1> DEFINE from == {j \in rows : Ahead(way, c, j)}
  <1>1. D \subseteq from /\ rows \subseteq Ids
    BY DEF Takes, TypeOK
  <1>2. \A j \in from : j = b \/ Ahead(way, Encoded(b), j)
    BY DEF Takes
  <1>3. \A j \in rows : Ahead(way, Encoded(b), j) => Ahead(way, c, j)
    BY <1>1, AheadChain
  <1>4. from = {b} \cup Rest(way, b)
    BY <1>1, <1>2, <1>3 DEF Rest
  <1> QED BY <1>4, OppositeFacts DEF EndsAt

\* The first row after i has behind it what i has, and i.
LEMMA Neighbours ==
    ASSUME TypeOK, client # "none", NEW way \in Ways, NEW i \in rows, NEW b \in rows,
           Rest(way, i) = {b} \cup Rest(way, b)
    PROVE  Rest(Opposite(way), b) = {i} \cup Rest(Opposite(way), i)
  <1>1. rows \subseteq Ids
    BY DEF TypeOK
  <1>2. \A j, k \in rows : Ahead(Opposite(way), Encoded(j), k) <=> Ahead(way, Encoded(k), j)
    BY <1>1, AheadFacts, OppositeFacts
  <1>3. \A j, k \in rows : j = k \/ Ahead(way, Encoded(j), k) \/ Ahead(way, Encoded(k), j)
    BY <1>1, AheadFacts
  <1>4. \A j, k \in rows : ~(Ahead(way, Encoded(j), k) /\ Ahead(way, Encoded(k), j))
    BY <1>1, AheadFacts
  <1>5. \A j \in rows : Ahead(way, Encoded(i), j) <=> j = b \/ Ahead(way, Encoded(b), j)
    BY DEF Rest
  <1>6. \A j \in rows : ~Ahead(way, Encoded(j), j)
    BY <1>4
  <1> QED BY <1>2, <1>3, <1>4, <1>5, <1>6 DEF Rest

LEMMA SameTakes ==
    ASSUME UNCHANGED <<rows, created, keys, order, limit>>
    PROVE  /\ \A i : Encoded(i)' = Encoded(i)
           /\ \A way, i : Rest(way, i)' = Rest(way, i)
           /\ \A way, D, i : EndsAt(way, D, i)' <=> EndsAt(way, D, i)
           /\ Agree' <=> Agree
           /\ Values' = Values
  <1>1. \A i : Encoded(i)' = Encoded(i)
    BY SameOrders
  <1>2. \A way, c, i : Ahead(way, c, i)' <=> Ahead(way, c, i)
    BY <1>1 DEF Ahead
  <1>3. \A way, i : Rest(way, i)' = Rest(way, i)
    BY <1>1, <1>2 DEF Rest
  <1>4. \A way, D, S : Takes(way, D, S)' <=> Takes(way, D, S)
    BY <1>1, <1>2 DEF Takes
  <1>5. \A way, D, i : EndsAt(way, D, i)' <=> EndsAt(way, D, i)
    BY <1>3, <1>4 DEF EndsAt
  <1> QED BY <1>1, <1>3, <1>5, SameOrders DEF Agree, Values

\* What a query answers, told by the way the client goes.
LEMMA PageTaken ==
    ASSUME TurnInv, Paginate, Agree
    PROVE  /\ Takes(came, page', Beyonds)
           /\ \/ NextCursor(came)' = NoCursor /\ NextCursor(Opposite(came))' = NoCursor
              \/ \E b, e \in page' :
                    /\ \A i \in page' : /\ i = b \/ Ahead(came, Encoded(b), i)
                                        /\ i = e \/ Ahead(came, Encoded(i), e)
                    /\ NextCursor(came)' # NoCursor =>
                            NextCursor(came)' = Encoded(e) /\ Cardinality(Beyonds) > limit
                    /\ NextCursor(Opposite(came))' # NoCursor =>
                            NextCursor(Opposite(came))' = Encoded(b) /\ Cursor(came) # NoCursor
  <1> DEFINE from == Beyonds
  <1>1. /\ TypeOK /\ came \in Ways /\ Cursor(Opposite(came)) = NoCursor
        /\ (after = NoCursor /\ before = NoCursor => came = "forward")
        /\ nextAfter = NoCursor /\ nextBefore = NoCursor /\ pc = "query" /\ rows \subseteq Ids /\ came' = came
    BY DEF TurnInv, WalkInv, BrowseInv, BrowseCursors, Paginate, TypeOK, browseHistory
  <1>2. Backward <=> came = "back"
    BY <1>1 DEF Backward, Cursor, Opposite, Ways
  <1>3. from = {i \in rows : Selected(i)}
    BY <1>1, <1>2 DEF Beyonds, Selected, Beyond, Ahead, Cursor, Opposite, Ways, Backward
  <1>4. \A i, j \in rows : Precedes(i, j) => Ahead("forward", Encoded(i), j) /\ Ahead("back", Encoded(j), i)
    BY DEF Agree, HiddenBy, Ahead
  <1>5. PICK data \in SUBSET from :
           /\ Taken(data, from)
           /\ page' = data
           /\ IF data = {}
              THEN UNCHANGED <<nextAfter, nextBefore>>
              ELSE \E first, last \in data :
                      Ends(first, last, data) /\ NextCursors(first, last, Cardinality(from) > limit)
    BY <1>3 DEF Paginate
  <1> HIDE DEF from
  <1>6. from \subseteq rows
    BY DEF from, Beyonds
  <1>7. Takes(came, data, from)
    <2>1. \A i \in data, j \in from \ data : Ahead(came, Encoded(i), j)
      BY <1>1, <1>2, <1>4, <1>5, <1>6 DEF Taken, Ways
    <2> QED BY <1>5, <2>1 DEF Takes, Taken
  <1> DEFINE Turned(b, e) ==
                /\ b \in page' /\ e \in page'
                /\ \A i \in page' : /\ i = b \/ Ahead(came, Encoded(b), i)
                                    /\ i = e \/ Ahead(came, Encoded(i), e)
                /\ NextCursor(came)' # NoCursor =>
                        NextCursor(came)' = Encoded(e) /\ Cardinality(from) > limit
                /\ NextCursor(Opposite(came))' # NoCursor =>
                        NextCursor(Opposite(came))' = Encoded(b) /\ Cursor(came) # NoCursor
  <1>8. CASE data = {}
    BY <1>1, <1>5, <1>7, <1>8 DEF NextCursor, from
  <1>9. CASE data # {}
    <2>1. PICK first, last \in data :
              Ends(first, last, data) /\ NextCursors(first, last, Cardinality(from) > limit)
      BY <1>5, <1>9
    <2>2. /\ \A i \in data : i = first \/ Precedes(first, i)
          /\ \A i \in data : i = last \/ Precedes(i, last)
      BY <2>1 DEF Ends
    <2>3. CASE came = "forward"
      <3>1. before = NoCursor
        BY <1>1, <2>3 DEF Cursor, Opposite
      <3>2. \A i \in data : /\ i = first \/ Ahead(came, Encoded(first), i)
                            /\ i = last \/ Ahead(came, Encoded(i), last)
        BY <1>4, <1>5, <1>6, <2>2, <2>3
      <3>3. /\ nextAfter' # NoCursor => nextAfter' = Encoded(last) /\ Cardinality(from) > limit
            /\ nextBefore' # NoCursor => nextBefore' = Encoded(first) /\ after # NoCursor
        BY <1>1, <2>1, <3>1 DEF NextCursors
      <3>4. /\ NextCursor(came)' = nextAfter' /\ NextCursor(Opposite(came))' = nextBefore'
            /\ Cursor(came) = after
        BY <1>1, <2>3 DEF NextCursor, Opposite, Cursor
      <3>5. Turned(first, last)
        BY <1>5, <3>2, <3>3, <3>4
      <3> QED BY <1>5, <1>7, <3>5 DEF from
    <2>4. CASE came = "back"
      <3>1. after = NoCursor /\ before # NoCursor
        BY <1>1, <2>4 DEF Cursor, Opposite
      <3>2. \A i \in data : /\ i = last \/ Ahead(came, Encoded(last), i)
                            /\ i = first \/ Ahead(came, Encoded(i), first)
        BY <1>4, <1>5, <1>6, <2>2, <2>4
      <3>3. /\ nextBefore' # NoCursor => nextBefore' = Encoded(first) /\ Cardinality(from) > limit
            /\ nextAfter' # NoCursor => nextAfter' = Encoded(last) /\ before # NoCursor
        BY <1>1, <2>1, <3>1 DEF NextCursors
      <3>4. /\ NextCursor(came)' = nextBefore' /\ NextCursor(Opposite(came))' = nextAfter'
            /\ Cursor(came) = before
        BY <1>1, <2>4 DEF NextCursor, Opposite, Cursor
      <3>5. Turned(last, first)
        BY <1>5, <3>2, <3>3, <3>4
      <3> QED BY <1>5, <1>7, <3>5 DEF from
    <2> QED BY <1>1, <2>3, <2>4 DEF Ways
  <1> QED BY <1>8, <1>9

\* A page to which the cursors lead keeps them.
LEMMA PaginateBrowses ==
    ASSUME TurnInv, Paginate, client = "browse", Agree
    PROVE  /\ page' \subseteq rows /\ PageEnds'
           /\ calm > 0 => Adjoins'
           /\ calm > 1 /\ turned => page' = expected
  <1>0. /\ TypeOK /\ client # "none" /\ came \in Ways /\ came' = came /\ pc = "query"
        /\ rows \subseteq Ids
    BY DEF TurnInv, WalkInv, BrowseInv, BrowseCursors, Paginate, TypeOK, browseHistory
  <1> SUFFICES ASSUME NEW way \in Ways, came = way
               PROVE  /\ page' \subseteq rows /\ PageEnds'
                      /\ calm > 0 => Adjoins'
                      /\ calm > 1 /\ turned => page' = expected
    BY <1>0
  <1> DEFINE back == Opposite(way)
             c == Cursor(way)
  <1>1. back \in Ways /\ Opposite(back) = way /\ (\A w \in Ways : w = way \/ w = back)
        /\ c \in {NoCursor} \cup Values
    BY OppositeFacts DEF TurnInv, BrowseInv, BrowseCursors, Cursor, Ways, Opposite
  <1>2. UNCHANGED <<rows, created, keys, order, limit, came, prev>> /\ Cursor(way)' = c
    BY DEF Paginate, table, options, asked, browseHistory, Cursor
  <1>3. /\ \A i : Encoded(i)' = Encoded(i)
        /\ \A w, i : Rest(w, i)' = Rest(w, i)
        /\ \A w, D, i : EndsAt(w, D, i)' <=> EndsAt(w, D, i)
    BY <1>2, SameTakes
  <1>4. Takes(way, page', Beyonds)
    BY PageTaken
  <1>5. Beyonds \subseteq rows /\ page' \subseteq Beyonds
    BY <1>4 DEF Takes, Beyonds
  <1>6. /\ c # NoCursor => Beyonds = {j \in rows : Ahead(way, c, j)}
        /\ c = NoCursor => Beyonds = rows
    BY DEF Beyonds
  <1>7. NextCursor(came)' = NextCursor(way)' /\ NextCursor(Opposite(came))' = NextCursor(back)'
    BY <1>0 DEF NextCursor, Opposite
  <1>8. \/ NextCursor(way)' = NoCursor /\ NextCursor(back)' = NoCursor
        \/ \E b, e \in page' :
              /\ \A i \in page' : /\ i = b \/ Ahead(way, Encoded(b), i)
                                  /\ i = e \/ Ahead(way, Encoded(i), e)
              /\ NextCursor(way)' # NoCursor =>
                      NextCursor(way)' = Encoded(e) /\ Cardinality(Beyonds) > limit
              /\ NextCursor(back)' # NoCursor =>
                      NextCursor(back)' = Encoded(b) /\ c # NoCursor
    BY <1>7, PageTaken
  <1>9. limit \in Nat \ {0} /\ IsFiniteSet(Beyonds) /\ Cardinality(Beyonds) \in Nat
    <2>1. IsFiniteSet(Beyonds)
      BY <1>0, <1>5, PaginatorAssumption, FS_Subset DEF TypeOK
    <2> QED BY <1>0, <2>1, FS_CardinalityType DEF TypeOK
  <1> DEFINE D == page'
             na == NextCursor(way)'
             nb == NextCursor(back)'
             Reached(b, e) ==
                /\ b \in D /\ e \in D
                /\ \A i \in D : i = b \/ Ahead(way, Encoded(b), i)
                /\ \A i \in D : i = e \/ Ahead(way, Encoded(i), e)
                /\ na # NoCursor => na = Encoded(e) /\ Cardinality(Beyonds) > limit
                /\ nb # NoCursor => nb = Encoded(b) /\ c # NoCursor
  <1>10. \/ na = NoCursor /\ nb = NoCursor
         \/ \E b, e : Reached(b, e)
    BY <1>8
  <1> HIDE DEF back, c, D, na, nb
  <1>11. ASSUME NEW b, NEW e, Reached(b, e), nb # NoCursor
         PROVE  /\ b \in rows /\ Beyonds = {b} \cup Rest(way, b)
                /\ EndsAt(back, D, b) /\ nb = Encoded(b)
    <2>1. c \in Values /\ Beyonds = {j \in rows : Ahead(way, c, j)}
      BY <1>1, <1>6, <1>11
    <2>2. Takes(way, D, {j \in rows : Ahead(way, c, j)})
      BY <1>4, <2>1 DEF D
    <2>3. /\ {j \in rows : Ahead(way, c, j)} = {b} \cup Rest(way, b)
          /\ EndsAt(Opposite(way), D, b)
      BY <1>0, <1>11, <2>1, <2>2, CursorBegins
    <2> QED BY <1>5, <1>11, <2>1, <2>3 DEF back, D
  <1>12. ASSUME NEW b, NEW e, Reached(b, e), na # NoCursor
         PROVE  EndsAt(way, D, e) /\ na = Encoded(e)
    <2>1. Cardinality(D) = limit
      BY <1>4, <1>9, <1>12 DEF Takes, D
    <2>2. Takes(way, D, Beyonds) /\ Beyonds \in SUBSET rows
      BY <1>4, <1>5 DEF D
    <2>3. Beyonds = rows \/ \E x \in Values : Beyonds = {j \in rows : Ahead(way, x, j)}
      BY <1>1, <1>6
    <2> QED BY <1>0, <1>12, <2>1, <2>2, <2>3, FullEnds
  <1>13. \A w \in Ways : NextCursor(w)' # NoCursor =>
            \E i \in D : NextCursor(w)' = Encoded(i) /\ EndsAt(w, D, i)
    <2> SUFFICES ASSUME NEW w \in Ways, NextCursor(w)' # NoCursor
                 PROVE  \E i \in D : NextCursor(w)' = Encoded(i) /\ EndsAt(w, D, i)
      OBVIOUS
    <2>1. CASE w = way
      BY <1>10, <1>12, <2>1 DEF na, nb
    <2>2. CASE w = back
      BY <1>10, <1>11, <2>2 DEF na, nb
    <2> QED BY <1>1, <2>1, <2>2
  <1>14. PageEnds'
    BY <1>3, <1>13 DEF PageEnds, D
  <1>15. ASSUME calm > 0 PROVE Adjoins'
    <2>1. ASSUME c # NoCursor, nb # NoCursor
          PROVE  \E i \in prev, b \in D :
                    EndsAt(way, prev, i) /\ nb = Encoded(b) /\ Rest(back, b) = {i} \cup Rest(back, i)
      <3>1. PICK i \in prev : i \in rows /\ c = Encoded(i) /\ EndsAt(way, prev, i)
        BY <1>0, <1>15, <2>1 DEF TurnInv, BrowseInv, GoesOn, c
      <3>2. PICK b, e : Reached(b, e)
        BY <1>10, <2>1
      <3>3. b \in rows /\ Beyonds = {b} \cup Rest(way, b) /\ nb = Encoded(b) /\ b \in D
        BY <1>11, <2>1, <3>2
      <3>4. Beyonds = Rest(way, i)
        BY <1>6, <2>1, <3>1 DEF Rest
      <3>5. Rest(back, b) = {i} \cup Rest(back, i)
        BY <1>0, <3>1, <3>3, <3>4, Neighbours DEF back
      <3> QED BY <3>1, <3>3, <3>5
    <2>2. Cursor(came)' = c /\ NextCursor(Opposite(came))' = nb
      BY <1>0, <1>2, <1>7 DEF c, nb, Cursor
    <2>3. \A i, b : /\ EndsAt(came, prev, i)' <=> EndsAt(way, prev, i)
                    /\ Rest(Opposite(came), b)' = Rest(back, b)
      BY <1>2, <1>3 DEF back
    <2> QED BY <1>2, <1>3, <2>1, <2>2, <2>3 DEF Adjoins, D, back
  <1>16. ASSUME calm > 1, turned PROVE page' = expected
    <2>1. PICK i \in expected, b \in rows :
              /\ EndsAt(back, expected, i) /\ c = Encoded(b)
              /\ Rest(way, b) = {i} \cup Rest(way, i)
      BY <1>0, <1>16 DEF TurnInv, BrowseInv, TurnsBack, c, back
    <2>2. c # NoCursor
      BY <1>0, <2>1, AheadFacts
    <2>3. Beyonds = {i} \cup Rest(way, i)
      BY <1>6, <2>1, <2>2 DEF Rest
    <2>4. Takes(way, expected, Beyonds)
      BY <1>1, <2>1, <2>3 DEF EndsAt, back
    <2> QED BY <1>0, <1>4, <1>5, <2>4, TakesOne
  <1> QED BY <1>5, <1>14, <1>15, <1>16

LEMMA PaginateCursors == TurnInv /\ Paginate => BrowseCursors'
  <1> SUFFICES ASSUME TurnInv, Paginate PROVE BrowseCursors'
    OBVIOUS
  <1>1. /\ TypeOK /\ client # "none" /\ pc = "query" /\ rows \subseteq Ids /\ BrowseCursors
        /\ nextAfter = NoCursor /\ nextBefore = NoCursor
    BY DEF TurnInv, WalkInv, WalkType, BrowseInv, BrowseCursors, Paginate, TypeOK
  <1>2. UNCHANGED <<after, before, came, turned, client, keys>> /\ pc' = "answered"
    BY DEF Paginate, options, asked, browseHistory
  <1>3. \A i \in rows : Encoded(i) \in Values
    BY <1>1, AheadFacts DEF Ways
  <1>4. \/ UNCHANGED <<nextAfter, nextBefore>>
        \/ \E first, last \in rows, more \in BOOLEAN : NextCursors(first, last, more)
    <2> DEFINE from == {i \in rows : Selected(i)}
    <2>1. PICK data \in SUBSET from :
             IF data = {}
             THEN UNCHANGED <<nextAfter, nextBefore>>
             ELSE \E first, last \in data : NextCursors(first, last, Cardinality(from) > limit)
      BY DEF Paginate
    <2>2. data \subseteq rows /\ (Cardinality(from) > limit) \in BOOLEAN
      OBVIOUS
    <2> HIDE DEF from
    <2> QED BY <2>1, <2>2
  <1>5. /\ {nextAfter, nextBefore}' \subseteq {NoCursor} \cup Values
        /\ after = NoCursor /\ before = NoCursor => nextBefore' = NoCursor
    BY <1>1, <1>3, <1>4 DEF NextCursors
  <1>6. Values' = Values
    BY <1>2 DEF Values
  <1> QED BY <1>1, <1>2, <1>5, <1>6 DEF BrowseCursors, Cursor, Opposite

LEMMA PaginateTurns == TurnInv /\ Paginate => BrowseInv'
  <1> SUFFICES ASSUME TurnInv, Paginate, (client = "browse" /\ Agree)'
               PROVE  /\ page' \subseteq rows' /\ PageEnds'
                      /\ (calm > 1)' => Adjoins'
                      /\ (calm > 2 /\ turned)' => page' = expected'
    BY PaginateCursors DEF BrowseInv, Paginate
  <1>1. UNCHANGED <<rows, created, keys, order, limit, client, turned, expected>>
        /\ calm \in 0 .. 3 /\ calm' = (IF calm < 3 THEN calm + 1 ELSE 3)
    BY DEF Paginate, table, options, browseHistory, TurnInv, WalkInv, TypeOK
  <1>2. client = "browse" /\ Agree
    BY <1>1, SameTakes
  <1>3. (calm' > 1 => calm > 0) /\ (calm' > 2 => calm > 1)
    BY <1>1
  <1> QED BY <1>1, <1>2, <1>3, PaginateBrowses

\* Asking on from a page, whichever way.
LEMMA AskTurns ==
    ASSUME TurnInv, NEW way \in Ways, NextCursor(way) # NoCursor,
           Ask(IF way = "forward" THEN nextAfter ELSE NoCursor,
               IF way = "forward" THEN NoCursor ELSE nextBefore),
           Remember(way), client = "browse" \/ way = "forward"
    PROVE  BrowseInv'
  <1>1. /\ TypeOK /\ pc = "answered" /\ pc' = "query" /\ BrowseCursors
        /\ nextAfter' = NoCursor /\ nextBefore' = NoCursor
        /\ UNCHANGED <<rows, created, client, keys, order, limit, calm>>
    BY DEF TurnInv, WalkInv, BrowseInv, Ask, table, options
  <1>2. /\ after' = (IF way = "forward" THEN nextAfter ELSE NoCursor)
        /\ before' = (IF way = "forward" THEN NoCursor ELSE nextBefore)
    BY DEF Ask
  <1>3. /\ client = "browse" => came' = way /\ prev' = page /\ turned' = (came # way) /\ expected' = prev
        /\ client # "browse" => UNCHANGED <<came, prev, turned, expected>>
    BY <1>1 DEF Remember, browseHistory
  <1>4. came' = way
    BY <1>1, <1>3 DEF BrowseCursors
  <1>5. Cursor(way)' = NextCursor(way) /\ Cursor(Opposite(way))' = NoCursor
    BY <1>2 DEF Cursor, NextCursor, Opposite, Ways
  <1>6. BrowseCursors'
    <2>1. Values' = Values
      BY <1>1 DEF Values
    <2>2. {after, before, nextAfter, nextBefore}' \subseteq {NoCursor} \cup Values
      BY <1>1, <1>2 DEF BrowseCursors
    <2>3. Cursor(Opposite(came))' = NoCursor
      BY <1>4, <1>5 DEF Cursor, Opposite
    <2>4. ~(after' = NoCursor /\ before' = NoCursor)
      BY <1>2 DEF NextCursor
    <2>5. client' # "browse" => ~turned' /\ came' = "forward"
      BY <1>1, <1>3 DEF BrowseCursors
    <2> QED BY <1>1, <1>4, <2>1, <2>2, <2>3, <2>4, <2>5 DEF BrowseCursors
  <1>7. /\ \A i : Encoded(i)' = Encoded(i)
        /\ \A w, i : Rest(w, i)' = Rest(w, i)
        /\ \A w, D, i : EndsAt(w, D, i)' <=> EndsAt(w, D, i)
        /\ Agree' <=> Agree
    BY <1>1, SameTakes
  <1>8. ASSUME client = "browse", Agree, calm > 0 PROVE GoesOn'
    <2>1. PICK i \in page : i \in rows /\ NextCursor(way) = Encoded(i) /\ EndsAt(way, page, i)
      BY <1>1, <1>8 DEF TurnInv, BrowseInv, PageEnds
    <2>2. Cursor(came)' = Encoded(i)
      BY <1>4, <1>5, <2>1 DEF Cursor
    <2>3. EndsAt(came, prev, i)' <=> EndsAt(way, page, i)
      BY <1>3, <1>4, <1>7, <1>8
    <2> QED BY <1>1, <1>3, <1>7, <1>8, <2>1, <2>2, <2>3 DEF GoesOn
  <1>9. ASSUME client = "browse", Agree, calm > 1 PROVE TurnsBack'
    <2> SUFFICES ASSUME came # way PROVE TurnsBack'
      BY <1>3, <1>9 DEF TurnsBack
    <2>1. way = Opposite(came) /\ came = Opposite(way) /\ came \in Ways
      BY <1>1 DEF BrowseCursors, Ways, Opposite
    <2>2. Cursor(came) # NoCursor
      BY <1>1, <2>1 DEF BrowseCursors, Cursor, NextCursor, Opposite
    <2>3. page \subseteq rows /\ Adjoins
      BY <1>1, <1>9 DEF TurnInv, BrowseInv, TypeOK
    <2>4. PICK i \in prev, b \in page :
              /\ EndsAt(Opposite(way), prev, i) /\ NextCursor(way) = Encoded(b)
              /\ Rest(way, b) = {i} \cup Rest(way, i)
      BY <2>1, <2>2, <2>3 DEF Adjoins
    <2>5. Cursor(came)' = Encoded(b)
      BY <1>4, <1>5, <2>4 DEF Cursor
    <2>6. /\ EndsAt(Opposite(came), expected, i)' <=> EndsAt(Opposite(way), prev, i)
          /\ \A x : Rest(came, x)' = Rest(way, x)
      BY <1>3, <1>4, <1>7, <1>9
    <2> QED BY <1>1, <1>3, <1>7, <1>9, <2>3, <2>4, <2>5, <2>6 DEF TurnsBack
  <1> QED BY <1>1, <1>6, <1>7, <1>8, <1>9 DEF BrowseInv

LEMMA StepTurns == TurnInv /\ [Next]_vars => BrowseInv'
  <1> SUFFICES ASSUME TurnInv, [Next]_vars PROVE BrowseInv'
    OBVIOUS
  <1>1. TypeOK /\ BrowseInv /\ (client = "none" => pc = "idle")
    BY DEF TurnInv, WalkInv, WalkType
  <1>2. ASSUME NEW i \in Ids, Insert(i) \/ Delete(i) PROVE BrowseInv'
    <2>1. UNCHANGED <<client, keys, after, before, nextAfter, nextBefore, pc, came, turned>>
      BY <1>2 DEF Insert, Delete, options, asked, answer, browseHistory
    <2>2. calm' = 0
      BY <1>2 DEF Insert, Delete
    <2>3. BrowseCursors'
      BY <1>1, <2>1 DEF BrowseInv, BrowseCursors, Values, Cursor
    <2> QED BY <2>2, <2>3 DEF BrowseInv
  <1>3. ASSUME NEW c \in Clients, NEW ks \in KeyChoices, NEW o \in {"ASC", "DESC"}, NEW l \in Limits,
               Begin(c, ks, o, l)
        PROVE  BrowseInv'
    <2>1. /\ after = NoCursor /\ before = NoCursor /\ nextAfter = NoCursor /\ nextBefore = NoCursor
          /\ came = "forward" /\ ~turned
      BY <1>1, <1>3 DEF Begin, BrowseInv, BrowseCursors
    <2>2. UNCHANGED <<after, before, nextAfter, nextBefore, came, turned>> /\ pc' = "query"
      BY <1>3 DEF Begin, asked, answer, browseHistory
    <2>3. BrowseCursors'
      BY <2>1, <2>2 DEF BrowseCursors, Cursor, Ways
    <2>4. GoesOn' /\ TurnsBack'
      BY <2>1, <2>2 DEF GoesOn, TurnsBack, Cursor
    <2> QED BY <2>2, <2>3, <2>4 DEF BrowseInv
  <1>4. CASE Paginate
    BY <1>4, PaginateTurns
  <1>5. CASE AskNext
    BY <1>5, AskTurns DEF AskNext, Ways, NextCursor
  <1>6. CASE AskPrevious
    BY <1>6, AskTurns DEF AskPrevious, Ways, NextCursor
  <1>7. CASE UNCHANGED vars
    <2>1. UNCHANGED <<rows, created, client, keys, order, limit, after, before, nextAfter, nextBefore,
                      pc, page, came, prev, turned, expected, calm>>
      BY <1>7 DEF vars
    <2>2. /\ \A i : Encoded(i)' = Encoded(i)
          /\ \A way, i : Rest(way, i)' = Rest(way, i)
          /\ \A way, D, i : EndsAt(way, D, i)' <=> EndsAt(way, D, i)
          /\ (Agree' <=> Agree) /\ Values' = Values
      BY <2>1, SameTakes
    <2>3. BrowseCursors'
      BY <1>1, <2>1, <2>2 DEF BrowseInv, BrowseCursors, Cursor
    <2>4. (PageEnds' <=> PageEnds) /\ (GoesOn' <=> GoesOn)
      BY <2>1, <2>2 DEF PageEnds, GoesOn, Cursor, NextCursor
    <2>5. (Adjoins' <=> Adjoins) /\ (TurnsBack' <=> TurnsBack)
      BY <2>1, <2>2 DEF Adjoins, TurnsBack, Cursor, NextCursor
    <2> QED BY <1>1, <2>1, <2>2, <2>3, <2>4, <2>5 DEF BrowseInv
  <1> QED BY <1>2, <1>3, <1>4, <1>5, <1>6, <1>7 DEF Next

LEMMA Turns == Spec => []TurnInv
  <1>1. Init => TurnInv
    <2>1. Init => WalkInv
      BY InitInv
    <2>2. Init => BrowseInv
      BY DEF Init, BrowseInv, BrowseCursors, Cursor, Opposite, Ways
    <2> QED BY <2>1, <2>2 DEF TurnInv
  <1>2. TurnInv /\ [Next]_vars => TurnInv'
    BY StepInv, StepTurns DEF TurnInv
  <1> QED BY <1>1, <1>2, PTL DEF Spec

(* A client that turns round while the table is at rest is given the page  *)
(* it came from, all of it and nothing else, unless ids and microseconds   *)
(* disagree somewhere: with either key list, order and limit, any number   *)
(* of rows, and however often it turned before.                            *)
THEOREM TurningBackReturns == Spec => []ThereAndBack
  <1>1. TurnInv => ThereAndBack
    <2> SUFFICES ASSUME TurnInv, pc = "answered", turned, calm = 3, Agree PROVE page = expected
      BY DEF ThereAndBack, Agree
    <2>1. client = "browse"
      BY DEF TurnInv, BrowseInv, BrowseCursors
    <2> QED BY <2>1 DEF TurnInv, BrowseInv
  <1> QED BY <1>1, Turns, PTL
=============================================================================
