-------------------------- MODULE UserProfileProofs -------------------------
(***************************************************************************)
(* Proofs about UserProfile: for any number of requests and users, any     *)
(* bodies and any interleaving.                                            *)
(***************************************************************************)
EXTENDS UserProfile, TLAPS

\* What r can rely on at each await: the fields it was asked to set and has
\* dealt with stand in the row, unless another request wrote them since.
Stands(r, f) ==
    f \in touched[r] \/ ~Asks(dto[r], f) \/ row[user[r]][f] = Stored(f, dto[r][f])

Local(r) ==
    /\ pc[r] = "auth" => change[r] \/ Stands(r, "username")
    /\ pc[r] = "compare" => Asks(dto[r], "username")
    /\ pc[r] = "names" => \A f \in AuthFields : Stands(r, f)
    /\ pc[r] = "find" => \A f \in Fields : Stands(r, f)
    /\ pc[r] \in {"idle", "compare", "auth", "names"} => wrote[r] \cap OwnFields = {}
    /\ pc[r] = "names" \/ wrote[r] \cap OwnFields # {} => AuthChanges(r) \subseteq wrote[r]
    /\ pc[r] # "ok" => returned[r] = Nothing
    /\ pc[r] = "ok" /\ returned[r] # Nothing =>
         \A f \in Fields \ touched[r] : Asks(dto[r], f) => returned[r][f] = Stored(f, dto[r][f])
    /\ pc[r] = "idle" => r \notin late
    /\ r \in late => status[user[r]] = "deleted" /\ returned[r] = Nothing

ProfileInv == TypeOK /\ \A r \in Requests : Local(r)
-----------------------------------------------------------------------------
LEMMA FieldsOf ==
    /\ Fields = {"username", "image", "firstName", "lastName"}
    /\ Nothing \in [Fields -> {Unset}]
    /\ \A f \in Fields : Nothing[f] = Unset
  BY DEF Fields, AuthFields, OwnFields, Nothing

\* Every body, Nothing included, gives each field a value, Null or Unset.
LEMMA BodyType == \A d \in Dtos \cup {Nothing} : d \in [Fields -> Values \cup {Null, Unset}]
  <1>1. Nothing \in [Fields -> Values \cup {Null, Unset}]
    BY FieldsOf
  <1> QED BY <1>1, ProfileAssumption

\* What is stored of a field that is asked for can be stored.
LEMMA AskedValue ==
    ASSUME TypeOK, NEW r \in Requests, NEW f \in Fields, Asks(dto[r], f)
    PROVE  /\ Stored(f, dto[r][f]) \in Values \cup {Null}
           /\ Stored(f, Stored(f, dto[r][f])) = Stored(f, dto[r][f])
  <1>1. dto[r][f] \in Values \cup {Null}
    BY BodyType DEF TypeOK, Asks
  <1> QED BY <1>1, ProfileAssumption DEF Stored

\* A username that is in the row already is there as it would be stored.
LEMMA SameStands ==
    ASSUME TypeOK, NEW u \in Users, NEW v, row[u]["username"] = v
    PROVE  row[u]["username"] = Stored("username", v)
  BY DEF TypeOK, Profiles

\* What a write does to the row, for the writer and for the others.
LEMMA WriteFacts ==
    ASSUME TypeOK, NEW r \in Requests, NEW fs \in SUBSET Fields, Write(r, fs),
           \A f \in fs : Asks(dto[r], f)
    PROVE  /\ row' \in [Users -> Profiles]
           /\ wrote' \in [Requests -> SUBSET Fields]
           /\ touched' \in [Requests -> SUBSET Fields]
           /\ \A f \in Fields : row'[user[r]][f] = IF f \in fs THEN Stored(f, dto[r][f]) ELSE row[user[r]][f]
           /\ \A u \in Users : u # user[r] => row'[u] = row[u]
           /\ wrote'[r] = wrote[r] \cup fs
           /\ \A q \in Requests : q # r => wrote'[q] = wrote[q]
           /\ touched'[r] = touched[r]
           /\ \A q \in Requests : touched[q] \subseteq touched'[q]
           /\ \A q \in Requests : q # r /\ user[q] = user[r] /\ pc[q] \in InService =>
                touched'[q] = touched[q] \cup fs
  <1>1. user[r] \in Users /\ row[user[r]] \in Profiles
    BY DEF TypeOK
  <1>2. \A f \in fs : /\ Stored(f, dto[r][f]) \in Values \cup {Null}
                       /\ Stored(f, Stored(f, dto[r][f])) = Stored(f, dto[r][f])
    BY AskedValue
  <1>3. [f \in Fields |-> IF f \in fs THEN Stored(f, dto[r][f]) ELSE row[user[r]][f]] \in Profiles
    <2> DEFINE new == [f \in Fields |-> IF f \in fs THEN Stored(f, dto[r][f]) ELSE row[user[r]][f]]
    <2>1. new \in [Fields -> Values \cup {Null}]
      BY <1>1, <1>2 DEF Profiles
    <2>2. "username" \in Fields
      BY FieldsOf
    <2>3. new["username"] = Stored("username", new["username"])
      BY <1>1, <1>2, <2>2 DEF Profiles
    <2> QED BY <2>1, <2>3 DEF Profiles
  <1>4. row' = [row EXCEPT ![user[r]] =
                  [f \in Fields |-> IF f \in fs THEN Stored(f, dto[r][f]) ELSE row[user[r]][f]]]
    BY DEF Write
  <1>5. row' \in [Users -> Profiles]
    BY <1>1, <1>3, <1>4 DEF TypeOK
  <1>6. /\ \A f \in Fields : row'[user[r]][f] = IF f \in fs THEN Stored(f, dto[r][f]) ELSE row[user[r]][f]
        /\ \A u \in Users : u # user[r] => row'[u] = row[u]
    BY <1>1, <1>4 DEF TypeOK
  <1>7. /\ wrote' \in [Requests -> SUBSET Fields]
        /\ wrote'[r] = wrote[r] \cup fs
        /\ \A q \in Requests : q # r => wrote'[q] = wrote[q]
    BY DEF TypeOK, Write
  <1>8. /\ touched' \in [Requests -> SUBSET Fields]
        /\ touched'[r] = touched[r]
        /\ \A q \in Requests : touched[q] \subseteq touched'[q]
        /\ \A q \in Requests : q # r /\ user[q] = user[r] /\ pc[q] \in InService =>
             touched'[q] = touched[q] \cup fs
    BY DEF TypeOK, Write
  <1> QED BY <1>5, <1>6, <1>7, <1>8

\* A write by r leaves what stands for another request in service standing.
LEMMA OthersStand ==
    ASSUME TypeOK, NEW r \in Requests, NEW fs \in SUBSET Fields, Write(r, fs),
           \A f \in fs : Asks(dto[r], f), UNCHANGED <<user, dto>>,
           NEW q \in Requests, q # r, pc[q] \in InService, NEW f \in Fields, Stands(q, f)
    PROVE  Stands(q, f)'
  <1>0. user[q] \in Users /\ user[r] \in Users
    BY DEF TypeOK
  <1>1. CASE user[q] # user[r]
    <2>1. row'[user[q]] = row[user[q]] /\ touched[q] \subseteq touched'[q]
      BY <1>0, <1>1, WriteFacts
    <2> QED BY <2>1 DEF Stands
  <1>2. CASE user[q] = user[r]
    <2>1. touched'[q] = touched[q] \cup fs
      BY <1>2, WriteFacts
    <2>2. f \notin fs => row'[user[q]][f] = row[user[q]][f]
      BY <1>2, WriteFacts
    <2> QED BY <2>1, <2>2 DEF Stands
  <1> QED BY <1>1, <1>2
-----------------------------------------------------------------------------
LEMMA InitInv == Init => ProfileInv
  <1> SUFFICES ASSUME Init PROVE ProfileInv
    OBVIOUS
  <1>1. row \in [Users -> Profiles]
    <2>1. PICK v \in Values \cup {Null} : row = [u \in Users |-> [f \in Fields |-> Stored(f, v)]]
      BY DEF Init
    <2>2. /\ \A f \in Fields : Stored(f, v) \in Values \cup {Null}
          /\ Stored("username", Stored("username", v)) = Stored("username", v)
      BY ProfileAssumption DEF Stored
    <2>3. [f \in Fields |-> Stored(f, v)] \in Profiles
      BY <2>2, FieldsOf DEF Profiles
    <2> QED BY <2>1, <2>3
  <1>2. TypeOK
    BY <1>1 DEF Init, TypeOK, InService, Answered
  <1>3. ASSUME NEW r \in Requests PROVE Local(r)
    BY DEF Init, Local
  <1> QED BY <1>2, <1>3 DEF ProfileInv

\* What another request is promised survives a step that is not its own.
LEMMA OthersKept ==
    ASSUME NEW q \in Requests, Local(q), TypeOK,
           pc'[q] = pc[q], user'[q] = user[q], dto'[q] = dto[q], change'[q] = change[q],
           returned'[q] = returned[q], wrote'[q] = wrote[q], q \in late' <=> q \in late,
           touched[q] \subseteq touched'[q],
           \A u \in Users : status[u] = "deleted" => status'[u] = "deleted",
           pc[q] \in InService => \A f \in Fields : Stands(q, f) => Stands(q, f)'
    PROVE  Local(q)'
  <1>1. AuthChanges(q)' = AuthChanges(q)
    BY DEF AuthChanges
  <1>2. user[q] \in Users
    BY DEF TypeOK
  <1>3. AuthFields \subseteq Fields /\ "username" \in Fields
    BY FieldsOf DEF Fields
  <1> QED BY <1>1, <1>2, <1>3 DEF Local, InService

\* Steps that leave the row alone.
LEMMA QuietOthers ==
    ASSUME ProfileInv, NEW r \in Requests, NEW next, Goto(r, next),
           UNCHANGED <<row, user, dto, wrote, touched, late>>,
           \A q \in Requests : q # r => change'[q] = change[q] /\ returned'[q] = returned[q],
           \A u \in Users : status[u] = "deleted" => status'[u] = "deleted",
           NEW q \in Requests, q # r
    PROVE  Local(q)'
  <1>1. pc'[q] = pc[q]
    BY DEF Goto, ProfileInv, TypeOK
  <1>2. \A f \in Fields : Stands(q, f)' = Stands(q, f)
    BY DEF Stands
  <1> QED BY <1>1, <1>2, OthersKept DEF ProfileInv

\* Steps that write fields of the body to the row.
LEMMA WriteOthers ==
    ASSUME ProfileInv, NEW r \in Requests, NEW next, Goto(r, next),
           NEW fs \in SUBSET Fields, Write(r, fs), \A f \in fs : Asks(dto[r], f),
           UNCHANGED <<status, user, dto, change, returned, late>>,
           NEW q \in Requests, q # r
    PROVE  Local(q)'
  <1>1. pc'[q] = pc[q]
    BY DEF Goto, ProfileInv, TypeOK
  <1>2. touched[q] \subseteq touched'[q] /\ wrote'[q] = wrote[q]
    BY WriteFacts DEF ProfileInv
  <1>3. pc[q] \in InService => \A f \in Fields : Stands(q, f) => Stands(q, f)'
    BY OthersStand DEF ProfileInv
  <1> QED BY <1>1, <1>2, <1>3, OthersKept DEF ProfileInv

LEMMA BeginStep ==
    ASSUME ProfileInv, NEW r \in Requests, NEW u \in Users, NEW d \in Dtos \cup {Nothing},
           NEW first \in {"compare", "auth", "find", "exists"}, Begin(r, u, d, first),
           first = "auth" => ~Asks(d, "username"), first = "find" => d = Nothing,
           first = "compare" => Asks(d, "username")
    PROVE  ProfileInv'
  <1>1. /\ pc'[r] = first /\ user'[r] = u /\ dto'[r] = d
        /\ \A q \in Requests : q # r => /\ pc'[q] = pc[q] /\ user'[q] = user[q]
                                        /\ dto'[q] = dto[q] /\ change'[q] = change[q]
    BY DEF Begin, Goto, ProfileInv, TypeOK
  <1>2. TypeOK'
    <2>1. late' \subseteq Requests
      BY DEF Begin, ProfileInv, TypeOK
    <2>2. pc' \in [Requests -> {"idle"} \cup InService \cup Answered]
      BY DEF Begin, Goto, ProfileInv, TypeOK, InService
    <2>3. change' \in [Requests -> BOOLEAN]
      <3>1. Asks(d, "username") \in BOOLEAN
        BY DEF Asks
      <3> QED BY <3>1 DEF Begin, ProfileInv, TypeOK
    <2> QED BY <2>1, <2>2, <2>3 DEF Begin, ProfileInv, TypeOK
  <1>3. ASSUME NEW q \in Requests, q # r PROVE Local(q)'
    <2>1. \A f \in Fields : Stands(q, f)' = Stands(q, f)
      BY <1>1, <1>3 DEF Stands, Begin
    <2> QED BY <1>1, <1>3, <2>1, OthersKept DEF Begin, ProfileInv
  <1>4. Local(r)'
    <2>1. /\ wrote'[r] \cap OwnFields = {} /\ returned'[r] = Nothing
          /\ r \in late' => status'[user'[r]] = "deleted"
      BY <1>1 DEF Begin, ProfileInv, Local
    <2>2. first = "auth" => Stands(r, "username")'
      BY <1>1 DEF Stands
    <2>3. first = "find" => \A f \in Fields : Stands(r, f)'
      BY <1>1, FieldsOf DEF Stands, Asks
    <2> QED BY <1>1, <2>1, <2>2, <2>3 DEF Local
  <1> QED BY <1>2, <1>3, <1>4 DEF ProfileInv

LEMMA StepInv == ProfileInv /\ [Next]_vars => ProfileInv'
  <1> SUFFICES ASSUME ProfileInv, [Next]_vars PROVE ProfileInv'
    OBVIOUS
  <1> USE DEF ProfileInv
  <1>1. ASSUME NEW r \in Requests, NEW u \in Users, FindOneUser(r, u) PROVE ProfileInv'
    BY <1>1, BeginStep DEF FindOneUser
  <1>2. ASSUME NEW r \in Requests, NEW u \in Users, DeleteUser(r, u) PROVE ProfileInv'
    BY <1>2, BeginStep DEF DeleteUser
  <1>3. ASSUME NEW r \in Requests, NEW u \in Users, NEW d \in Dtos, UpdateUserProfile(r, u, d)
        PROVE  ProfileInv'
    BY <1>3, BeginStep DEF UpdateUserProfile
  <1>4. ASSUME NEW r \in Requests, CompareUsername(r) PROVE ProfileInv'
    <2>1. TypeOK'
      BY <1>4 DEF CompareUsername, Goto, TypeOK, InService, Answered, history
    <2>2. ASSUME NEW q \in Requests, q # r PROVE Local(q)'
      BY <1>4, <2>2, QuietOthers DEF CompareUsername, Goto, TypeOK, history
    <2>3. Local(r)'
      <3>1. /\ pc[r] = "compare" /\ pc'[r] \in {"auth", "notFound"}
            /\ pc'[r] = "auth" => change'[r] = (row[user[r]]["username"] # dto[r]["username"])
        BY <1>4 DEF CompareUsername, Goto, TypeOK
      <3>2. UNCHANGED <<status, row, user, dto, returned, wrote, touched, late>>
        BY <1>4 DEF CompareUsername, history
      <3>3. pc'[r] = "auth" /\ ~change'[r] => Stands(r, "username")'
        <4>1. user[r] \in Users
          BY DEF TypeOK
        <4> QED BY <3>1, <3>2, <4>1, SameStands DEF Stands
      <3> QED BY <3>1, <3>2, <3>3 DEF Local
    <2> QED BY <2>1, <2>2, <2>3
  <1>5. ASSUME NEW r \in Requests, AuthUpdate(r) PROVE ProfileInv'
    <2>1. CASE Write(r, AuthChanges(r))
      <3>1. /\ AuthChanges(r) \in SUBSET Fields
            /\ \A f \in AuthChanges(r) : Asks(dto[r], f)
            /\ AuthChanges(r) \cap OwnFields = {}
        BY DEF AuthChanges, Fields, AuthFields, OwnFields
      <3>2. PICK next \in {"names", "failed"} : Goto(r, next)
        BY <1>5 DEF AuthUpdate
      <3>3. TypeOK'
        <4>1. row' \in [Users -> Profiles] /\ wrote' \in [Requests -> SUBSET Fields]
              /\ touched' \in [Requests -> SUBSET Fields]
          BY <2>1, <3>1, WriteFacts
        <4> QED BY <1>5, <4>1 DEF AuthUpdate, Goto, Fault, TypeOK, InService, Answered
      <3>4. ASSUME NEW q \in Requests, q # r PROVE Local(q)'
        BY <1>5, <2>1, <3>1, <3>2, <3>4, WriteOthers DEF AuthUpdate
      <3>5. Local(r)'
        <4>1. \A f \in AuthChanges(r) : row'[user[r]][f] = Stored(f, dto[r][f])
          BY <2>1, <3>1, WriteFacts
        <4>2. \A f \in AuthFields : f \notin AuthChanges(r) => row'[user[r]][f] = row[user[r]][f]
          BY <2>1, <3>1, WriteFacts, FieldsOf DEF Fields
        <4>3. touched'[r] = touched[r] /\ wrote'[r] = wrote[r] \cup AuthChanges(r)
          BY <2>1, <3>1, WriteFacts
        <4>4. \A f \in AuthFields : Stands(r, f)'
          BY <1>5, <4>1, <4>2, <4>3 DEF AuthUpdate, Local, Stands, AuthChanges, AuthFields
        <4>5. AuthChanges(r)' = AuthChanges(r)
          BY <1>5 DEF AuthUpdate, AuthChanges
        <4>6. pc'[r] = next /\ pc[r] = "auth"
          BY <1>5, <3>2 DEF AuthUpdate, Goto, TypeOK
        <4> QED BY <1>5, <3>1, <4>3, <4>4, <4>5, <4>6 DEF AuthUpdate, Local
      <3> QED BY <3>3, <3>4, <3>5
    <2>2. CASE NoWrite /\ Goto(r, "failed") /\ Fault(r)
      <3>1. TypeOK'
        BY <1>5, <2>2 DEF AuthUpdate, NoWrite, Goto, Fault, TypeOK, InService, Answered
      <3>2. ASSUME NEW q \in Requests, q # r PROVE Local(q)'
        BY <1>5, <2>2, <3>2, QuietOthers DEF AuthUpdate, NoWrite
      <3>3. Local(r)'
        BY <1>5, <2>2 DEF AuthUpdate, NoWrite, Goto, TypeOK, Local, AuthChanges
      <3> QED BY <3>1, <3>2, <3>3
    <2> QED BY <1>5, <2>1, <2>2 DEF AuthUpdate
  <1>6. ASSUME NEW r \in Requests, NamesUpdate(r) PROVE ProfileInv'
    <2>1. CASE Write(r, NameChanges(r))
      <3>1. /\ NameChanges(r) \in SUBSET Fields
            /\ \A f \in NameChanges(r) : Asks(dto[r], f)
        BY DEF NameChanges, Fields, AuthFields, OwnFields
      <3>2. PICK next \in {"find", "failed"} : Goto(r, next)
        BY <1>6, <2>1 DEF NamesUpdate, NoWrite, Write
      <3>3. TypeOK'
        <4>1. row' \in [Users -> Profiles] /\ wrote' \in [Requests -> SUBSET Fields]
              /\ touched' \in [Requests -> SUBSET Fields]
          BY <2>1, <3>1, WriteFacts
        <4> QED BY <1>6, <4>1 DEF NamesUpdate, Goto, Fault, TypeOK, InService, Answered
      <3>4. ASSUME NEW q \in Requests, q # r PROVE Local(q)'
        BY <1>6, <2>1, <3>1, <3>2, <3>4, WriteOthers DEF NamesUpdate
      <3>5. Local(r)'
        <4>1. touched'[r] = touched[r] /\ wrote'[r] = wrote[r] \cup NameChanges(r)
          BY <2>1, <3>1, WriteFacts
        <4>2. \A f \in Fields : row'[user[r]][f] =
                IF f \in NameChanges(r) THEN Stored(f, dto[r][f]) ELSE row[user[r]][f]
          BY <2>1, <3>1, WriteFacts
        <4>3. \A f \in Fields : Stands(r, f)'
          BY <1>6, <4>1, <4>2 DEF NamesUpdate, Local, Stands, NameChanges, Fields
        <4>4. AuthChanges(r)' = AuthChanges(r)
          BY <1>6 DEF NamesUpdate, AuthChanges
        <4>5. pc'[r] = next /\ pc[r] = "names"
          BY <1>6, <3>2 DEF NamesUpdate, Goto, TypeOK
        <4> QED BY <1>6, <4>1, <4>3, <4>4, <4>5 DEF NamesUpdate, Local
      <3> QED BY <3>3, <3>4, <3>5
    <2>2. CASE NoWrite /\ Goto(r, "failed") /\ UNCHANGED faulted
      <3>1. TypeOK'
        BY <1>6, <2>2 DEF NamesUpdate, NoWrite, Goto, TypeOK, InService, Answered
      <3>2. ASSUME NEW q \in Requests, q # r PROVE Local(q)'
        BY <1>6, <2>2, <3>2, QuietOthers DEF NamesUpdate, NoWrite
      <3>3. Local(r)'
        BY <1>6, <2>2 DEF NamesUpdate, NoWrite, Goto, TypeOK, Local, AuthChanges
      <3> QED BY <3>1, <3>2, <3>3
    <2> QED BY <1>6, <2>1, <2>2 DEF NamesUpdate
  <1>7. ASSUME NEW r \in Requests, ReadRow(r) PROVE ProfileInv'
    <2>0. user[r] \in Users /\ row[user[r]] \in Profiles
      BY DEF TypeOK
    <2>1. TypeOK'
      BY <1>7, <2>0 DEF ReadRow, Goto, TypeOK, InService, Answered, history
    <2>2. ASSUME NEW q \in Requests, q # r PROVE Local(q)'
      BY <1>7, <2>2, QuietOthers DEF ReadRow, Goto, TypeOK, history
    <2>3. Local(r)'
      BY <1>7, <2>0 DEF ReadRow, Found, Goto, TypeOK, history, Local, Stands, AuthChanges
    <2> QED BY <2>1, <2>2, <2>3
  <1>8. ASSUME NEW r \in Requests, CheckExists(r) PROVE ProfileInv'
    <2>1. TypeOK'
      BY <1>8 DEF CheckExists, Goto, TypeOK, InService, Answered, history
    <2>2. ASSUME NEW q \in Requests, q # r PROVE Local(q)'
      BY <1>8, <2>2, QuietOthers DEF CheckExists, history
    <2>3. Local(r)'
      BY <1>8 DEF CheckExists, Goto, TypeOK, history, Local, AuthChanges
    <2> QED BY <2>1, <2>2, <2>3
  <1>9. ASSUME NEW r \in Requests, MarkDeleted(r) PROVE ProfileInv'
    <2>0. PICK next \in {"ok", "failed"} : Goto(r, next)
      BY <1>9 DEF MarkDeleted
    <2>1. TypeOK'
      BY <1>9, <2>0 DEF MarkDeleted, Goto, Fault, TypeOK, InService, Answered
    <2>2. ASSUME NEW q \in Requests, q # r PROVE Local(q)'
      BY <1>9, <2>0, <2>2, QuietOthers DEF MarkDeleted, TypeOK
    <2>3. Local(r)'
      BY <1>9, <2>0 DEF MarkDeleted, Goto, TypeOK, Local, AuthChanges
    <2> QED BY <2>1, <2>2, <2>3
  <1>10. ASSUME NEW r \in Requests, Fail(r) PROVE ProfileInv'
    <2>1. TypeOK'
      BY <1>10 DEF Fail, Goto, Fault, TypeOK, InService, Answered
    <2>2. ASSUME NEW q \in Requests, q # r PROVE Local(q)'
      BY <1>10, <2>2, QuietOthers DEF Fail
    <2>3. Local(r)'
      BY <1>10 DEF Fail, Goto, TypeOK, Local, AuthChanges, InService
    <2> QED BY <2>1, <2>2, <2>3
  <1>11. CASE UNCHANGED vars
    <2>1. TypeOK'
      BY <1>11 DEF vars, TypeOK
    <2>2. ASSUME NEW q \in Requests PROVE Local(q)'
      BY <1>11 DEF vars, Local, Stands, AuthChanges
    <2> QED BY <2>1, <2>2
  <1> QED
    BY <1>1, <1>2, <1>3, <1>4, <1>5, <1>6, <1>7, <1>8, <1>9, <1>10, <1>11 DEF Next

LEMMA Invariance == Spec => []ProfileInv
  BY InitInv, StepInv, PTL DEF Spec
-----------------------------------------------------------------------------
(* Type correctness of the state of the user operations.                   *)
THEOREM TypeCorrect == Spec => []TypeOK
  <1>1. ProfileInv => TypeOK
    BY DEF ProfileInv
  <1> QED BY <1>1, Invariance, PTL

(* A successful profile update answers with every field it was asked to    *)
(* set that no overlapping request wrote, as Better Auth stores it: the    *)
(* username in lower case, whatever case the body or the row had it in.    *)
THEOREM AnswersAreCurrent == Spec => []ReturnsWhatWasAsked
  <1>1. ProfileInv => ReturnsWhatWasAsked
    BY DEF ProfileInv, Local, ReturnsWhatWasAsked
  <1> QED BY <1>1, Invariance, PTL

(* The names are never written by an update whose Better Auth half is      *)
(* missing.                                                                *)
THEOREM HalvesInOrder == Spec => []NamesComeLast
  <1>1. ProfileInv => NamesComeLast
    BY DEF ProfileInv, Local, NamesComeLast
  <1> QED BY <1>1, Invariance, PTL

(* Who asks after the deletion of a user is never given the row.           *)
THEOREM DeletionIsFinal == Spec => []DeletedIsGone
  <1>1. ProfileInv => DeletedIsGone
    <2> SUFFICES ASSUME ProfileInv, NEW r \in late PROVE returned[r] = Nothing
      BY DEF DeletedIsGone
    <2>1. r \in Requests
      BY DEF ProfileInv, TypeOK
    <2>2. Local(r)
      BY <2>1 DEF ProfileInv
    <2> QED BY <2>2 DEF Local
  <1> QED BY <1>1, Invariance, PTL

(* No step changes a field that no request in service asked to change.     *)
THEOREM NoLostFields == Spec => ChangesAreAsked
  <1>1. ProfileInv /\ [Next]_vars =>
          [\A u \in Users, f \in Fields : row'[u][f] # row[u][f] =>
             \E r \in Requests :
                 /\ pc[r] \in {"auth", "names"} /\ user[r] = u
                 /\ Asks(dto[r], f) /\ row'[u][f] = Stored(f, dto[r][f])]_vars
    <2> SUFFICES ASSUME ProfileInv, [Next]_vars, NEW u \in Users, NEW f \in Fields,
                        row'[u][f] # row[u][f]
                 PROVE  \E r \in Requests :
                            /\ pc[r] \in {"auth", "names"} /\ user[r] = u
                            /\ Asks(dto[r], f) /\ row'[u][f] = Stored(f, dto[r][f])
      OBVIOUS
    <2>1. row' # row
      OBVIOUS
    <2>2. PICK r \in Requests : AuthUpdate(r) \/ NamesUpdate(r)
      <3>1. ASSUME NEW r \in Requests, NEW v \in Users, NEW d, NEW first, Begin(r, v, d, first)
            PROVE  row' = row
        BY <3>1 DEF Begin
      <3>2. ASSUME NEW r \in Requests,
                   CompareUsername(r) \/ ReadRow(r) \/ CheckExists(r) \/ MarkDeleted(r) \/ Fail(r)
            PROVE  row' = row
        BY <3>2 DEF CompareUsername, ReadRow, CheckExists, MarkDeleted, Fail
      <3>3. UNCHANGED vars => row' = row
        BY DEF vars
      <3> QED BY <2>1, <3>1, <3>2, <3>3 DEF Next, FindOneUser, DeleteUser, UpdateUserProfile
    <2>3. \/ pc[r] = "auth" /\ Write(r, AuthChanges(r))
          \/ pc[r] = "names" /\ Write(r, NameChanges(r))
      BY <2>1, <2>2 DEF AuthUpdate, NamesUpdate, NoWrite
    <2>4. PICK fs \in SUBSET Fields : Write(r, fs) /\ \A g \in fs : Asks(dto[r], g)
      BY <2>3 DEF AuthChanges, NameChanges, Fields, AuthFields, OwnFields
    <2>5. /\ row'[user[r]][f] = IF f \in fs THEN Stored(f, dto[r][f]) ELSE row[user[r]][f]
          /\ u # user[r] => row'[u] = row[u]
      BY <2>4, WriteFacts DEF ProfileInv
    <2> QED BY <2>3, <2>4, <2>5
  <1> QED BY <1>1, Invariance, PTL DEF Spec, ChangesAreAsked
=============================================================================
