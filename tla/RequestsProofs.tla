---------------------------- MODULE RequestsProofs ---------------------------
(***************************************************************************)
(* Proofs about Requests: for any number of requests, any inputs and       *)
(* configurations, and any interleaving, failure and crash.                *)
(***************************************************************************)
EXTENDS Requests, TLAPS, FiniteSetTheorems

LEMMA InputType ==
    ASSUME NEW i \in Inputs
    PROVE  /\ i.route \in Routes /\ i.files \in 0..2 /\ i.files \in Nat /\ i.form \in BOOLEAN
           /\ i.peer \in Addresses /\ i.client \in Addresses
  <1>1. i.files \in 0..2
    BY RequestsAssumption
  <1> QED BY <1>1, RequestsAssumption DEF Addresses

LEMMA ConfigType ==
    ASSUME NEW c \in Configs
    PROVE  c.limit \in Nat /\ c.ttl \in Nat /\ c.reports \in BOOLEAN
  BY RequestsAssumption

\* A list of the first files is a sequence of files.
LEMMA ListType ==
    /\ <<>> \in Seq(Files)
    /\ \A n \in 0..2 : [f \in 1..n |-> f] \in Seq(Files)
  BY DEF Files

AnswerType == [Requests -> [status : Nat, files : Seq(Files), reported : BOOLEAN]]
PcType == [Requests -> {"idle", "answered", "lost"} \cup Open]

\* The ways a request goes on keep the types.
LEMMA GoType ==
    ASSUME TypeOK, NEW q \in Requests, NEW next \in Open, Go(q, next)
    PROVE  pc' \in PcType /\ answer' \in AnswerType
  BY DEF TypeOK, Go, PcType, AnswerType

LEMMA RespondType ==
    ASSUME TypeOK, NEW q \in Requests, NEW status \in Nat, NEW files \in Seq(Files),
           NEW reported \in BOOLEAN, Respond(q, status, files, reported)
    PROVE  pc' \in PcType /\ answer' \in AnswerType
  BY DEF TypeOK, Respond, PcType, AnswerType

LEMMA AnswerKeeps ==
    ASSUME TypeOK, NEW q \in Requests, NEW status \in Nat, Answer(q, status)
    PROVE  pc' \in PcType /\ answer' \in AnswerType
  BY ListType, RespondType DEF Answer

LEMMA ThrowKeeps ==
    ASSUME TypeOK, NEW q \in Requests, Throw(q)
    PROVE  pc' \in PcType /\ answer' \in AnswerType
  <1>1. config.reports \in BOOLEAN
    BY ConfigType DEF TypeOK
  <1>2. Respond(q, 500, <<>>, config.reports)
    BY DEF Throw
  <1> QED BY <1>1, <1>2, ListType DEF Respond, TypeOK, PcType, AnswerType

LEMMA FailingType ==
    ASSUME TypeOK, NEW q \in Requests, NEW calls \in SUBSET Outside, Failing(q, calls)
    PROVE  faults' \in [Requests -> SUBSET Outside]
  BY DEF TypeOK, Failing
-----------------------------------------------------------------------------
LEMMA ArriveType == ASSUME TypeOK, NEW q \in Requests, NEW i \in Inputs, Arrive(q, i) PROVE TypeOK'
  <1>1. pc' \in PcType /\ answer' \in AnswerType
    BY GoType DEF Arrive, Open
  <1> QED BY <1>1 DEF TypeOK, Arrive, PcType, AnswerType

LEMMA HookType == ASSUME TypeOK, NEW q \in Requests, Hook(q) PROVE TypeOK'
  <1>1. pc' \in PcType /\ answer' \in AnswerType
    <2>1. CASE Answer(q, 401)
      BY <2>1, AnswerKeeps
    <2>2. CASE Go(q, "handler")
      BY <2>2, GoType DEF Open
    <2>3. CASE Go(q, "throttle")
      BY <2>3, GoType DEF Open
    <2> QED BY <2>1, <2>2, <2>3 DEF Hook
  <1> QED BY <1>1 DEF TypeOK, Hook, PcType, AnswerType

LEMMA HitType ==
    ASSUME TypeOK, NEW h \in [count : Nat, expires : Nat, blocked : Nat]
    PROVE  Hit(h) \in [count : Nat, expires : Nat, blocked : Nat]
  <1>1. config.ttl \in Nat /\ now \in Nat
    BY ConfigType DEF TypeOK
  <1> QED BY <1>1 DEF Hit

LEMMA ThrottleType == ASSUME TypeOK, NEW q \in Requests, Throttle(q) PROVE TypeOK'
  <1>1. /\ asked[q] \in Inputs /\ asked[q].route \in Routes
        /\ Tracker(asked[q]) # "throws" => Tracker(asked[q]) \in Addresses
    BY InputType DEF TypeOK, Tracker
  <1>2. CASE /\ Answer(q, 500)
             /\ UNCHANGED <<hits, admitted>>
             /\ faults' = faults \/ Failing(q, {"counters"})
    <2>1. pc' \in PcType /\ answer' \in AnswerType
      BY <1>2, AnswerKeeps
    <2>2. faults' \in [Requests -> SUBSET Outside]
      BY <1>2, FailingType DEF Outside, TypeOK
    <2> QED BY <1>2, <2>1, <2>2 DEF TypeOK, Throttle, PcType, AnswerType
  <1>3. ASSUME NEW k \in Routes \X Addresses, NEW h, h = Hit(hits[k]),
               hits' = IF config.ttl = 0 THEN hits ELSE [hits EXCEPT ![k] = h],
               IF config.ttl > 0 /\ now < h.blocked
               THEN Answer(q, 429) /\ UNCHANGED admitted
               ELSE /\ Go(q, IF asked[q].route \in Guarded THEN "guard" ELSE "pipe")
                    /\ admitted' = [admitted EXCEPT ![q] = now],
               UNCHANGED faults
        PROVE  TypeOK'
    <2>1. hits' \in [Routes \X Addresses -> [count : Nat, expires : Nat, blocked : Nat]]
      BY <1>3, HitType DEF TypeOK
    <2>2. pc' \in PcType /\ answer' \in AnswerType
      <3>1. CASE Answer(q, 429)
        BY <3>1, AnswerKeeps
      <3>2. CASE Go(q, "guard") \/ Go(q, "pipe")
        BY <3>2, GoType DEF Open
      <3> QED BY <1>3, <3>1, <3>2
    <2>3. admitted' \in [Requests -> Nat \cup {-1}]
      BY <1>3 DEF TypeOK
    <2> QED BY <1>3, <2>1, <2>2, <2>3 DEF TypeOK, Throttle, PcType, AnswerType
  <1> QED BY <1>1, <1>2, <1>3 DEF Throttle

LEMMA GuardType == ASSUME TypeOK, NEW q \in Requests, Guard(q) PROVE TypeOK'
  <1>1. pc' \in PcType /\ answer' \in AnswerType
    <2>1. CASE Go(q, "pipe")
      BY <2>1, GoType DEF Open
    <2>2. CASE Answer(q, 401) \/ Answer(q, 500)
      BY <2>2, AnswerKeeps
    <2> QED BY <2>1, <2>2 DEF Guard
  <1>2. faults' \in [Requests -> SUBSET Outside]
    BY FailingType DEF Guard, Outside, TypeOK
  <1> QED BY <1>1, <1>2 DEF TypeOK, Guard, PcType, AnswerType

LEMMA PipeType == ASSUME TypeOK, NEW q \in Requests, Pipe(q) PROVE TypeOK'
  <1>1. pc' \in PcType /\ answer' \in AnswerType
    <2>1. CASE Go(q, "handler")
      BY <2>1, GoType DEF Open
    <2>2. CASE \E status \in {400, 413, 422} : Answer(q, status)
      BY <2>2, AnswerKeeps
    <2> QED BY <2>1, <2>2 DEF Pipe
  <1> QED BY <1>1 DEF TypeOK, Pipe, PcType, AnswerType

LEMMA HandleType == ASSUME TypeOK, NEW q \in Requests, Handle(q) PROVE TypeOK'
  <1>1. CASE HandleUser(q)
    <2>1. pc' \in PcType /\ answer' \in AnswerType
      <3>1. CASE Throw(q)
        BY <3>1, ThrowKeeps
      <3>2. CASE Answer(q, 200) \/ Answer(q, 404)
        BY <3>2, AnswerKeeps
      <3> QED BY <1>1, <3>1, <3>2 DEF HandleUser
    <2>2. faults' \in [Requests -> SUBSET Outside]
      BY <1>1, FailingType DEF HandleUser, Outside, TypeOK
    <2> QED BY <1>1, <2>1, <2>2 DEF TypeOK, Handle, HandleUser, PcType, AnswerType
  <1>2. CASE HandleHealth(q)
    <2>1. PICK down \in SUBSET ({"database", "redis"} \cup IF config.docs THEN {"docs"} ELSE {}) :
            /\ Failing(q, down)
            /\ IF "database" \in down THEN Throw(q) ELSE Answer(q, IF down = {} THEN 200 ELSE 503)
      BY <1>2 DEF HandleHealth
    <2>2. pc' \in PcType /\ answer' \in AnswerType
      <3>1. CASE Throw(q)
        BY <3>1, ThrowKeeps
      <3>2. CASE Answer(q, 200) \/ Answer(q, 503)
        BY <3>2, AnswerKeeps
      <3> QED BY <2>1, <3>1, <3>2
    <2>3. faults' \in [Requests -> SUBSET Outside]
      BY <2>1, FailingType DEF Outside
    <2> QED BY <1>2, <2>2, <2>3 DEF TypeOK, Handle, HandleHealth, PcType, AnswerType
  <1>3. CASE HandleNative(q)
    <2>1. pc' \in PcType /\ answer' \in AnswerType
      BY <1>3, AnswerKeeps DEF HandleNative
    <2>2. faults' \in [Requests -> SUBSET Outside]
      BY <1>3, FailingType DEF HandleNative, Outside, TypeOK
    <2> QED BY <1>3, <2>1, <2>2 DEF TypeOK, Handle, HandleNative, PcType, AnswerType
  <1>4. CASE HandleUpload(q)
    <2> DEFINE n == IF asked[q].form THEN asked[q].files ELSE 0
    <2>1. n \in 0..2 /\ 1..n \subseteq Files
      BY InputType DEF TypeOK, Files
    <2>2. (pc' \in PcType /\ answer' \in AnswerType) /\ pending' \subseteq Requests \X Files
      <3>1. CASE (Throw(q) \/ Answer(q, 400)) /\ UNCHANGED pending
        BY <3>1, ThrowKeeps, AnswerKeeps DEF TypeOK
      <3>2. CASE Respond(q, 200, [f \in 1..n |-> f], FALSE) /\ UNCHANGED pending
        BY <3>2, <2>1, ListType DEF Respond, TypeOK, PcType, AnswerType
      <3>3. CASE Go(q, "storing") /\ pending' = pending \cup ({q} \X (1..n))
        BY <3>3, <2>1, GoType DEF Open, TypeOK
      <3> QED BY <1>4, <3>1, <3>2, <3>3 DEF HandleUpload
    <2> QED BY <1>4, <2>2 DEF TypeOK, Handle, HandleUpload, PcType, AnswerType
  <1> QED BY <1>1, <1>2, <1>3, <1>4 DEF Handle

LEMMA PutType ==
    ASSUME TypeOK, NEW q \in Requests, NEW f \in Files, Put(q, f)
    PROVE  TypeOK'
  <1>1. CASE Store(q, f)
    <2>1. pc' \in PcType /\ answer' \in AnswerType
      <3>1. asked[q].files \in 0..2
        BY InputType DEF TypeOK
      <3>2. CASE Respond(q, 200, [g \in 1..asked[q].files |-> g], FALSE)
        BY <3>1, <3>2, ListType DEF Respond, TypeOK, PcType, AnswerType
      <3>3. CASE UNCHANGED <<pc, answer>>
        BY <3>3 DEF TypeOK, PcType, AnswerType
      <3> QED BY <1>1, <3>2, <3>3 DEF Store
    <2> QED BY <1>1, <2>1 DEF TypeOK, Store, PcType, AnswerType
  <1>2. CASE Refuse(q, f)
    <2>1. pc' \in PcType /\ answer' \in AnswerType
      BY <1>2, ThrowKeeps DEF Refuse, TypeOK, PcType, AnswerType
    <2>2. faults' \in [Requests -> SUBSET Outside]
      BY <1>2, FailingType DEF Refuse, Outside
    <2> QED BY <1>2, <2>1, <2>2 DEF TypeOK, Refuse, PcType, AnswerType
  <1> QED BY <1>1, <1>2 DEF Put

\* Every reachable state is well-typed: the throttler's counters, the answers,
\* the calls under way.
LEMMA TypeInit == Init => TypeOK
  <1> SUFFICES ASSUME Init PROVE TypeOK
    OBVIOUS
  <1>1. (CHOOSE i \in Inputs : TRUE) \in Inputs
    BY RequestsAssumption
  <1>2. answer \in AnswerType
    BY ListType DEF Init, NoAnswer, AnswerType
  <1>3. hits \in [Routes \X Addresses -> [count : Nat, expires : Nat, blocked : Nat]]
    BY DEF Init
  <1> QED BY <1>1, <1>2, <1>3 DEF Init, TypeOK, AnswerType

LEMMA TypeStep == TypeOK /\ [Next]_vars => TypeOK'
  <1> SUFFICES ASSUME TypeOK, [Next]_vars PROVE TypeOK'
    OBVIOUS
  <1>1. ASSUME NEW q \in Requests, NEW i \in Inputs, Arrive(q, i) PROVE TypeOK'
    BY <1>1, ArriveType
  <1>2. ASSUME NEW q \in Requests, Step(q) PROVE TypeOK'
    BY <1>2, HookType, ThrottleType, GuardType, PipeType, HandleType DEF Step
  <1>3. ASSUME NEW q \in Requests, NEW f \in Files, Put(q, f) PROVE TypeOK'
    BY <1>3, PutType
  <1>4. CASE Crash
    BY <1>4 DEF TypeOK, Crash
  <1>5. CASE Tick
    BY <1>5 DEF TypeOK, Tick
  <1>6. CASE UNCHANGED vars
    BY <1>6 DEF TypeOK, vars
  <1> QED BY <1>1, <1>2, <1>3, <1>4, <1>5, <1>6 DEF Next

THEOREM TypeCorrect == Spec => []TypeOK
  BY TypeInit, TypeStep, PTL DEF Spec
-----------------------------------------------------------------------------
(* Uploads.  What one request leaves in the bucket, and when: nothing      *)
(* before its handler runs, then every file of it either there or under    *)
(* way until it is answered with all of them, fails, or is lost.           *)
Before == {"idle", "hook", "throttle", "guard", "pipe", "handler"}
Failed(q) == pc[q] = "answered" /\ answer[q].status = 500 /\ "bucket" \in faults[q]
Listed(q) ==
    /\ pc[q] = "answered"
    /\ answer[q].files = [f \in 1..asked[q].files |-> f]
    /\ config.localFileUpload \/ \A f \in 1..asked[q].files : <<q, f>> \in stored

UploadInv(q) ==
    /\ pc[q] \in Before \cup {"storing", "lost"} => answer[q] = NoAnswer
    /\ pc[q] \in Before => \A f \in Files : <<q, f>> \notin pending /\ <<q, f>> \notin stored
    /\ pc[q] = "storing" => \A f \in 1..asked[q].files : <<q, f>> \in pending \/ <<q, f>> \in stored
    /\ \A f \in Files : <<q, f>> \in pending => pc[q] = "storing" \/ Failed(q)
    /\ \A f \in Files : <<q, f>> \in stored =>
            /\ f \in 1..asked[q].files
            /\ pc[q] \in {"storing", "lost"} \/ Failed(q) \/ Listed(q)
    /\ \A f \in Files : <<q, f>> \in pending => f \in 1..asked[q].files
    /\ answer[q].status = 200 /\ asked[q].route \in Uploads => Listed(q)

Same(q) ==
    /\ config' = config /\ pc'[q] = pc[q] /\ asked'[q] = asked[q] /\ answer'[q] = answer[q]
    /\ faults[q] \subseteq faults'[q]
    /\ \A f \in Files : /\ <<q, f>> \in pending' <=> <<q, f>> \in pending
                        /\ <<q, f>> \in stored' <=> <<q, f>> \in stored

LEMMA FilesOf == ASSUME TypeOK, NEW q \in Requests PROVE 1..asked[q].files \subseteq Files
  <1>1. asked[q] \in Inputs
    BY DEF TypeOK
  <1>2. asked[q].files \in 0..2
    BY <1>1, InputType
  <1> QED BY <1>2 DEF Files

\* A step of another request.
LEMMA Untouched ==
    ASSUME TypeOK, NEW q \in Requests, UploadInv(q), Same(q)
    PROVE  UploadInv(q)'
  BY FilesOf DEF UploadInv, Same, Failed, Listed

\* A step of the request itself, up to its handler: on, or to an answer.
LEMMA Early ==
    ASSUME TypeOK, NEW q \in Requests, UploadInv(q), pc[q] \in Before,
           config' = config, asked'[q].files \in Nat, pending' = pending, stored' = stored,
           \/ \E next \in Before : Go(q, next)
           \/ \E status \in Nat, files \in Seq(Files), reported \in BOOLEAN :
                 /\ Respond(q, status, files, reported)
                 /\ asked' = asked
                 /\ status = 200 /\ asked[q].route \in Uploads =>
                        config.localFileUpload /\ files = [f \in 1..asked[q].files |-> f]
    PROVE  UploadInv(q)'
  <1>1. CASE \E next \in Before : Go(q, next)
    <2>1. PICK next \in Before : pc'[q] = next /\ answer'[q] = answer[q]
      BY <1>1 DEF Go, TypeOK
    <2>2. answer'[q] = NoAnswer /\ NoAnswer.status = 0
      BY <2>1 DEF UploadInv, NoAnswer
    <2> QED BY <2>1, <2>2 DEF UploadInv, Before
  <1>2. ASSUME NEW status \in Nat, NEW files \in Seq(Files), NEW reported \in BOOLEAN,
               Respond(q, status, files, reported), asked' = asked,
               status = 200 /\ asked[q].route \in Uploads =>
                    config.localFileUpload /\ files = [f \in 1..asked[q].files |-> f]
        PROVE  UploadInv(q)'
    <2>1. pc'[q] = "answered" /\ answer'[q].status = status /\ answer'[q].files = files
      BY <1>2 DEF Respond, TypeOK
    <2> QED BY <1>2, <2>1 DEF UploadInv, Before, Listed
  <1> QED BY <1>1, <1>2

\* Other requests keep what they have when one goes on or answers.
LEMMA OthersKeep ==
    ASSUME TypeOK, NEW q \in Requests, NEW p \in Requests \ {q}
    PROVE  /\ \A next : Go(q, next) => pc'[p] = pc[p] /\ answer'[p] = answer[p]
           /\ \A status, files, reported :
                 Respond(q, status, files, reported) => pc'[p] = pc[p] /\ answer'[p] = answer[p]
           /\ \A calls : Failing(q, calls) => faults'[p] = faults[p]
  BY DEF TypeOK, Go, Respond, Failing

\* An answer of no file but not 200, or for another route, is one of Early's.
LEMMA AnswerEarly ==
    ASSUME TypeOK, NEW q \in Requests, UploadInv(q), pc[q] \in Before,
           config' = config, asked' = asked, pending' = pending, stored' = stored,
           NEW status \in Nat, status = 200 => asked[q].route \notin Uploads, Answer(q, status)
    PROVE  UploadInv(q)'
  <1>1. asked'[q] \in Inputs /\ asked'[q].files \in Nat
    BY InputType DEF TypeOK
  <1>2. Respond(q, status, <<>>, FALSE)
    BY DEF Answer
  <1>3. <<>> \in Seq(Files) /\ FALSE \in BOOLEAN
    BY ListType
  <1> QED BY <1>1, <1>2, <1>3, Early

LEMMA ThrowEarly ==
    ASSUME TypeOK, NEW q \in Requests, UploadInv(q), pc[q] \in Before,
           config' = config, asked' = asked, pending' = pending, stored' = stored, Throw(q)
    PROVE  UploadInv(q)'
  <1>1. pc'[q] = "answered" /\ answer'[q].status = 500
    BY DEF Throw, Respond, TypeOK
  <1> QED BY <1>1 DEF UploadInv, Before

LEMMA GoEarly ==
    ASSUME TypeOK, NEW q \in Requests, UploadInv(q), pc[q] \in Before,
           config' = config, asked'[q] \in Inputs, pending' = pending, stored' = stored,
           NEW next \in Before, Go(q, next)
    PROVE  UploadInv(q)'
  <1>1. asked'[q].files \in Nat
    BY InputType
  <1>2. \E x \in Before : Go(q, x)
    OBVIOUS
  <1> QED BY <1>1, <1>2, Early

Uploading == TypeOK /\ \A q \in Requests : UploadInv(q)

LEMMA ArriveUploads == ASSUME Uploading, NEW q \in Requests, NEW i \in Inputs, Arrive(q, i)
                       PROVE  \A p \in Requests : UploadInv(p)'
  <1>1. TypeOK /\ UploadInv(q) /\ pc[q] \in Before /\ asked'[q] \in Inputs
    BY DEF Uploading, Arrive, Before, TypeOK
  <1>2. UploadInv(q)'
    BY <1>1, GoEarly DEF Arrive, Before
  <1>3. ASSUME NEW p \in Requests \ {q} PROVE UploadInv(p)'
    BY <1>1, <1>3, Untouched, OthersKeep DEF Uploading, Arrive, Same, TypeOK
  <1> QED BY <1>2, <1>3

\* The steps before the handler.
LEMMA FrontUploads ==
    ASSUME Uploading, NEW q \in Requests, Hook(q) \/ Throttle(q) \/ Guard(q) \/ Pipe(q)
    PROVE  \A p \in Requests : UploadInv(p)'
  <1>1. /\ TypeOK /\ UploadInv(q) /\ pc[q] \in Before
        /\ config' = config /\ asked' = asked /\ asked'[q] \in Inputs
        /\ pending' = pending /\ stored' = stored
    BY DEF Uploading, Before, TypeOK, Hook, Throttle, Guard, Pipe
  <1>2. (\E next \in Before : Go(q, next)) \/ (\E status \in {400, 401, 413, 422, 429, 500} : Answer(q, status))
    <2>1. CASE Hook(q)
      BY <2>1 DEF Hook, Before
    <2>2. CASE Throttle(q)
      BY <2>2 DEF Throttle, Before
    <2>3. CASE Guard(q)
      BY <2>3 DEF Guard, Before
    <2>4. CASE Pipe(q)
      BY <2>4 DEF Pipe, Before
    <2> QED BY <2>1, <2>2, <2>3, <2>4
  <1>3. UploadInv(q)'
    BY <1>1, <1>2, GoEarly, AnswerEarly
  <1>4. ASSUME NEW p \in Requests \ {q} PROVE UploadInv(p)'
    <2>1. pc'[p] = pc[p] /\ answer'[p] = answer[p]
      BY <1>1, <1>2, <1>4 DEF Go, Answer, Respond, TypeOK
    <2>2. faults'[p] = faults[p]
      BY <1>1, <1>4, OthersKeep DEF Hook, Throttle, Guard, Pipe
    <2> QED BY <1>1, <2>1, <2>2, Untouched DEF Uploading, Same
  <1> QED BY <1>3, <1>4

LEMMA HandleUploads ==
    ASSUME Uploading, NEW q \in Requests, Handle(q)
    PROVE  \A p \in Requests : UploadInv(p)'
  <1>1. /\ TypeOK /\ UploadInv(q) /\ pc[q] = "handler" /\ pc[q] \in Before
        /\ config' = config /\ asked' = asked /\ stored' = stored
    BY DEF Uploading, Before, Handle
  <1> DEFINE i == asked[q]
             n == IF i.form THEN i.files ELSE 0
  <1>2. i \in Inputs /\ i.route \in Routes /\ i.form \in BOOLEAN /\ i.files \in 0..2
    BY <1>1, InputType DEF TypeOK
  <1> DEFINE Plainly == /\ pending' = pending
                        /\ Throw(q) \/ \E status \in {200, 400, 404, 500, 503} :
                               Answer(q, status) /\ (status = 200 => i.route \notin Uploads)
             Locally == /\ pending' = pending /\ config.localFileUpload /\ n = i.files
                        /\ Respond(q, 200, [f \in 1..n |-> f], FALSE)
             Storing == Go(q, "storing") /\ n = i.files /\ pending' = pending \cup ({q} \X (1..n))
  <1>3. Plainly \/ Locally \/ Storing
    <2>1. CASE HandleUser(q)
      <3>1. i.route \notin Uploads /\ pending' = pending
        BY <2>1 DEF HandleUser, Uploads
      <3>2. Throw(q) \/ Answer(q, 200) \/ Answer(q, 404)
        BY <2>1 DEF HandleUser
      <3> QED BY <3>1, <3>2
    <2>2. CASE HandleHealth(q)
      <3>1. i.route \notin Uploads /\ pending' = pending
        BY <2>2 DEF HandleHealth, Uploads
      <3>2. Throw(q) \/ Answer(q, 200) \/ Answer(q, 503)
        BY <2>2 DEF HandleHealth
      <3> QED BY <3>1, <3>2
    <2>3. CASE HandleNative(q)
      <3>1. i.route \notin Uploads /\ pending' = pending
        BY <2>3 DEF HandleNative, Uploads
      <3>2. Answer(q, 200) \/ Answer(q, 500)
        BY <2>3 DEF HandleNative
      <3> QED BY <3>1, <3>2
    <2>4. CASE HandleUpload(q)
      <3>1. i.route \in {"single", "multiple"} /\ (~i.form => 1..n = {})
        BY <2>4, <1>2 DEF HandleUpload, Uploads
      <3>2. CASE Throw(q) /\ pending' = pending
        BY <3>2
      <3>3. CASE Answer(q, 400) /\ pending' = pending
        <4>1. 400 \in {200, 400, 404, 500, 503} /\ 400 # 200
          OBVIOUS
        <4> QED BY <3>3, <4>1
      <3>4. CASE i.form /\ 1..n # {} /\ config.localFileUpload
        BY <2>4, <3>1, <3>4 DEF HandleUpload
      <3>5. CASE i.form /\ 1..n # {} /\ ~config.localFileUpload /\ config.bucket
        <4>1. Go(q, "storing") /\ pending' = pending \cup ({q} \X (1..n))
          <5>1. 1..n = 1..(IF asked[q].form THEN asked[q].files ELSE 0)
            OBVIOUS
          <5> HIDE DEF n
          <5> QED BY <2>4, <3>5, <5>1 DEF HandleUpload
        <4>2. n = i.files
          BY <3>5
        <4> QED BY <4>1, <4>2
      <3>6. CASE ~i.form \/ 1..n = {} \/ (~config.localFileUpload /\ ~config.bucket)
        <4>1. (Throw(q) \/ Answer(q, 400)) /\ pending' = pending
          BY <2>4, <3>1, <3>6 DEF HandleUpload
        <4> QED BY <4>1, <3>2, <3>3
      <3> QED BY <3>4, <3>5, <3>6
    <2> QED BY <2>1, <2>2, <2>3, <2>4 DEF Handle
  <1>4. UploadInv(q)'
    <2>1. CASE Plainly
      BY <2>1, <1>1, ThrowEarly, AnswerEarly
    <2>2. CASE Locally
      <3>1. [f \in 1..n |-> f] \in Seq(Files) /\ asked'[q].files \in Nat /\ FALSE \in BOOLEAN
        BY <1>1, <1>2, ListType
      <3> QED BY <2>2, <3>1, <1>1, Early
    <2>3. CASE Storing
      <3>1. pc'[q] = "storing" /\ answer'[q] = answer[q]
        BY <2>3, <1>1 DEF Go, TypeOK
      <3>2. answer'[q] = NoAnswer /\ NoAnswer.status = 0
        BY <1>1, <3>1 DEF UploadInv, NoAnswer
      <3>3. \A f \in Files : <<q, f>> \in pending' => f \in 1..i.files
        BY <2>3, <1>1 DEF UploadInv
      <3>4. \A f \in 1..i.files : <<q, f>> \in pending'
        BY <2>3
      <3> QED BY <1>1, <3>1, <3>2, <3>3, <3>4 DEF UploadInv, Before
    <2> QED BY <1>3, <2>1, <2>2, <2>3
  <1>5. ASSUME NEW p \in Requests \ {q} PROVE UploadInv(p)'
    <2>1. pc'[p] = pc[p] /\ answer'[p] = answer[p]
      BY <1>1, <1>3, <1>5 DEF Go, Answer, Throw, Respond, TypeOK
    <2>2. faults'[p] = faults[p]
      BY <1>1, <1>5, OthersKeep DEF Handle, HandleUser, HandleHealth, HandleNative, HandleUpload
    <2>3. \A f \in Files : <<p, f>> \in pending' <=> <<p, f>> \in pending
      <3>1. pending' = pending \/ pending' = pending \cup ({q} \X (1..n))
        BY <1>3
      <3> HIDE DEF n
      <3> QED BY <3>1, <1>5
    <2> QED BY <1>1, <2>1, <2>2, <2>3, Untouched DEF Uploading, Same
  <1> QED BY <1>4, <1>5

\* One PutObject ends.
LEMMA PutUploads ==
    ASSUME Uploading, NEW q \in Requests, NEW f \in Files, Put(q, f)
    PROVE  \A p \in Requests : UploadInv(p)'
  <1>1. /\ TypeOK /\ UploadInv(q) /\ <<q, f>> \in pending /\ f \in 1..asked[q].files
        /\ pending' = pending \ {<<q, f>>} /\ config' = config /\ asked' = asked
        /\ pc[q] = "storing" \/ (pc[q] # "storing" /\ Failed(q))
    BY DEF Uploading, Put, Store, Refuse, UploadInv, TypeOK
  <1>2. 1..asked[q].files \subseteq Files
    BY <1>1, FilesOf
  <1>3. CASE Store(q, f)
    <2>1. stored' = stored \cup {<<q, f>>} /\ faults' = faults
      BY <1>3 DEF Store
    <2>2. UploadInv(q)'
      <3>1. CASE pc[q] = "storing" /\ Rest(q, f) = {}
        <4>1. /\ pc'[q] = "answered" /\ answer'[q].status = 200
              /\ answer'[q].files = [g \in 1..asked[q].files |-> g]
          BY <1>1, <1>3, <3>1 DEF Store, Respond, TypeOK
        <4>2. \A g \in Files : <<q, g>> \notin pending'
          BY <1>1, <3>1 DEF Rest
        <4>3. \A g \in 1..asked[q].files : <<q, g>> \in stored'
          BY <1>1, <1>2, <2>1, <3>1 DEF Rest, UploadInv
        <4>4. \A g \in Files : <<q, g>> \in stored' => g \in 1..asked[q].files
          BY <1>1, <2>1 DEF UploadInv
        <4> QED BY <1>1, <4>1, <4>2, <4>3, <4>4 DEF UploadInv, Listed, Before
      <3>2. CASE ~(pc[q] = "storing" /\ Rest(q, f) = {})
        <4>1. pc' = pc /\ answer' = answer
          BY <1>3, <3>2 DEF Store
        <4> QED BY <1>1, <2>1, <4>1 DEF UploadInv, Failed, Listed, Before
      <3> QED BY <3>1, <3>2
    <2>3. ASSUME NEW p \in Requests \ {q} PROVE UploadInv(p)'
      <3>1. pc'[p] = pc[p] /\ answer'[p] = answer[p]
        BY <1>1, <1>3, <2>3 DEF Store, Respond, TypeOK
      <3> QED BY <1>1, <2>1, <3>1, Untouched DEF Uploading, Same
    <2> QED BY <2>2, <2>3
  <1>4. CASE Refuse(q, f)
    <2>1. /\ stored' = stored /\ "bucket" \in faults'[q]
          /\ \A p \in Requests : faults[p] \subseteq faults'[p]
      BY <1>1, <1>4 DEF Refuse, Failing, TypeOK
    <2>2. UploadInv(q)'
      <3>1. Failed(q)' /\ answer'[q].status = 500
        BY <1>1, <1>4, <2>1 DEF Refuse, Throw, Respond, Failed, TypeOK
      <3>2. pc'[q] = "answered"
        BY <3>1 DEF Failed
      <3> QED BY <1>1, <2>1, <3>1, <3>2 DEF UploadInv, Before
    <2>3. ASSUME NEW p \in Requests \ {q} PROVE UploadInv(p)'
      <3>1. pc'[p] = pc[p] /\ answer'[p] = answer[p]
        BY <1>1, <1>4, <2>3 DEF Refuse, Throw, Respond, TypeOK
      <3> QED BY <1>1, <2>1, <3>1, Untouched DEF Uploading, Same
    <2> QED BY <2>2, <2>3
  <1> QED BY <1>3, <1>4 DEF Put

LEMMA CrashUploads == ASSUME Uploading, Crash PROVE \A p \in Requests : UploadInv(p)'
  <1> SUFFICES ASSUME NEW p \in Requests PROVE UploadInv(p)'
    OBVIOUS
  <1>1. /\ pending' = {} /\ stored' = stored /\ asked' = asked /\ answer' = answer
        /\ faults' = faults /\ config' = config
        /\ pc'[p] = IF pc[p] \in Open THEN "lost" ELSE pc[p]
    BY DEF Crash
  <1>2. TypeOK /\ UploadInv(p)
    BY DEF Uploading
  <1>3. CASE pc[p] \in Open
    <2>1. pc'[p] = "lost" /\ answer'[p] = NoAnswer /\ NoAnswer.status = 0
      BY <1>1, <1>2, <1>3 DEF UploadInv, Open, Before, NoAnswer
    <2>2. \A f \in Files : <<p, f>> \in stored => f \in 1..asked[p].files
      BY <1>2 DEF UploadInv
    <2> QED BY <1>1, <2>1, <2>2 DEF UploadInv, Before
  <1>4. CASE pc[p] \notin Open
    BY <1>1, <1>2, <1>4 DEF UploadInv, Failed, Listed, Open, Before
  <1> QED BY <1>3, <1>4

\* What the invariant says of an upload and of an object is what is promised.
LEMMA UploadsFollow == Uploading => UploadsExplained
  <1> SUFFICES ASSUME Uploading PROVE UploadsExplained
    OBVIOUS
  <1>1. ASSUME NEW q \in Requests, answer[q].status = 200, asked[q].route \in Uploads
        PROVE  /\ answer[q].files = [f \in 1..asked[q].files |-> f]
               /\ config.localFileUpload \/ {q} \X (1..asked[q].files) \subseteq stored
    BY <1>1 DEF Uploading, UploadInv, Listed
  <1>2. ASSUME NEW object \in stored
        PROVE  \/ \E k \in DOMAIN answer[object[1]].files : answer[object[1]].files[k] = object[2]
               \/ pc[object[1]] \in {"storing", "lost"}
               \/ answer[object[1]].status = 500 /\ "bucket" \in faults[object[1]]
    <2>1. PICK q \in Requests, f \in Files : object = <<q, f>>
      BY <1>2 DEF Uploading, TypeOK
    <2>2. f \in 1..asked[q].files /\ (pc[q] \in {"storing", "lost"} \/ Failed(q) \/ Listed(q))
      BY <1>2, <2>1 DEF Uploading, UploadInv
    <2>3. CASE Listed(q)
      <3>1. f \in DOMAIN answer[q].files /\ answer[q].files[f] = f
        BY <2>2, <2>3 DEF Listed
      <3> QED BY <2>1, <3>1
    <2> QED BY <2>1, <2>2, <2>3 DEF Failed
  <1> QED BY <1>1, <1>2 DEF UploadsExplained

\* Every step keeps the invariant.
LEMMA UploadsKept == Spec => []Uploading
  <1>1. Init => Uploading
    <2> SUFFICES ASSUME Init PROVE Uploading
      OBVIOUS
    <2>1. TypeOK
      BY TypeInit
    <2>2. ASSUME NEW q \in Requests PROVE UploadInv(q)
      BY DEF Init, UploadInv, NoAnswer, Before
    <2> QED BY <2>1, <2>2 DEF Uploading
  <1>2. Uploading /\ [Next]_vars => Uploading'
    <2> SUFFICES ASSUME Uploading, [Next]_vars PROVE Uploading'
      OBVIOUS
    <2>1. TypeOK'
      BY TypeStep DEF Uploading
    <2>2. \A p \in Requests : UploadInv(p)'
      <3>1. ASSUME NEW q \in Requests, NEW i \in Inputs, Arrive(q, i) PROVE \A p \in Requests : UploadInv(p)'
        BY <3>1, ArriveUploads
      <3>2. ASSUME NEW q \in Requests, Step(q) PROVE \A p \in Requests : UploadInv(p)'
        BY <3>2, FrontUploads, HandleUploads DEF Step
      <3>3. ASSUME NEW q \in Requests, NEW f \in Files, Put(q, f) PROVE \A p \in Requests : UploadInv(p)'
        BY <3>3, PutUploads
      <3>4. CASE Crash
        BY <3>4, CrashUploads
      <3>5. CASE Tick \/ UNCHANGED vars
        BY <3>5, Untouched DEF Uploading, Same, Tick, vars
      <3> QED BY <3>1, <3>2, <3>3, <3>4, <3>5 DEF Next
    <2> QED BY <2>1, <2>2 DEF Uploading
  <1> QED BY <1>1, <1>2, PTL DEF Spec

(* An upload answered with its files has all of them in the bucket, and    *)
(* every object no answer names has its request to explain it: under way,  *)
(* lost in a crash, or failed for another file.                            *)
THEOREM UploadsListed == Spec => []UploadsExplained
  BY UploadsKept, UploadsFollow, PTL
-----------------------------------------------------------------------------
(* What the pipe lets through to the two lists: the fields of their DTOs,  *)
(* computed from the decorators, and so which of the queries Postgres      *)
(* refuses.                                                                *)
LEMMA OptionalIs ==
    ASSUME NEW t, NEW checks, NEW f,
           f = [type |-> t, changes |-> <<>>, skips |-> {}, checks |-> checks]
    PROVE  Optional(f) = [type |-> t, changes |-> <<>>, skips |-> {Null, Undefined}, checks |-> checks]
  <1> DEFINE parts == {"type", "changes", "skips", "checks"}
             skips == {Null, Undefined}
  <1>1. DOMAIN f = parts /\ f \in [parts -> {t, <<>>, {}, checks}] /\ f.skips = {}
    OBVIOUS
  <1>2. Optional(f) = [x \in parts |-> IF x = "skips" THEN skips ELSE f[x]]
    <2>1. Optional(f) = [f EXCEPT !.skips = skips]
      BY <1>1 DEF Optional
    <2> HIDE DEF skips
    <2> QED BY <1>1, <2>1
  <1>3. [type |-> t, changes |-> <<>>, skips |-> skips, checks |-> checks]
            = [x \in parts |-> IF x = "skips" THEN skips ELSE f[x]]
    <2> HIDE DEF skips
    <2> QED OBVIOUS
  <1> QED BY <1>2, <1>3
LEMMA WholeIs == WholeOptional = [type |-> "Number", changes |-> <<>>, skips |-> {Null, Undefined},
        checks |-> {Check("IsInt", 0, FALSE), Check("NotNull", Null, FALSE)}]
  <1> DEFINE o == [int |-> TRUE, minimum |-> 1]
  <1>1. DOMAIN o = {"int", "minimum"} /\ o.int = TRUE
    OBVIOUS
  <1>2. /\ Each(o) = FALSE /\ Skipped(o) = {} /\ NotNull(o, FALSE) = {Check("NotNull", Null, FALSE)}
        /\ Opt(o, "int", FALSE) = TRUE /\ Opt(o, "isPositive", FALSE) = FALSE
        /\ "min" \notin DOMAIN o /\ "max" \notin DOMAIN o
    BY <1>1 DEF Each, Skipped, Opt, NotNull, If
  <1> HIDE DEF o
  <1>3. NumberField(o) = [type |-> "Number", changes |-> <<>>, skips |-> {},
                          checks |-> {Check("IsInt", 0, FALSE), Check("NotNull", Null, FALSE)}]
    BY <1>2 DEF NumberField, Field, If
  <1>4. NumberFieldOptional(o) = Optional(NumberField(o))
    BY DEF NumberFieldOptional
  <1>5. Optional(NumberField(o)) =
            [type |-> "Number", changes |-> <<>>, skips |-> {Null, Undefined},
             checks |-> {Check("IsInt", 0, FALSE), Check("NotNull", Null, FALSE)}]
    BY <1>3, OptionalIs
  <1> QED BY <1>4, <1>5 DEF WholeOptional, o

\* The minimum that the DTOs add is none of the decorator's options.
LEMMA PlainWholeIs == NumberFieldOptional([int |-> TRUE]) =
        [type |-> "Number", changes |-> <<>>, skips |-> {Null, Undefined},
         checks |-> {Check("IsInt", 0, FALSE), Check("NotNull", Null, FALSE)}]
  <1> DEFINE o == [int |-> TRUE]
  <1>1. DOMAIN o = {"int"} /\ o.int = TRUE
    OBVIOUS
  <1>2. /\ Each(o) = FALSE /\ Skipped(o) = {} /\ NotNull(o, FALSE) = {Check("NotNull", Null, FALSE)}
        /\ Opt(o, "int", FALSE) = TRUE /\ Opt(o, "isPositive", FALSE) = FALSE
        /\ "min" \notin DOMAIN o /\ "max" \notin DOMAIN o
    BY <1>1 DEF Each, Skipped, Opt, NotNull, If
  <1> HIDE DEF o
  <1>3. NumberField(o) = [type |-> "Number", changes |-> <<>>, skips |-> {},
                          checks |-> {Check("IsInt", 0, FALSE), Check("NotNull", Null, FALSE)}]
    BY <1>2 DEF NumberField, Field, If
  <1>4. Optional(NumberField(o)) =
            [type |-> "Number", changes |-> <<>>, skips |-> {Null, Undefined},
             checks |-> {Check("IsInt", 0, FALSE), Check("NotNull", Null, FALSE)}]
    BY <1>3, OptionalIs
  <1> QED BY <1>4 DEF NumberFieldOptional, o
AnyTextField == StringFieldOptional(<<>>)
LEMMA TextIs == AnyTextField = [type |-> "String", changes |-> <<>>, skips |-> {Null, Undefined},
        checks |-> {Check("IsString", 0, FALSE), Check("MinLength", 0, FALSE), Check("NotNull", Null, FALSE)}]
  <1> DEFINE o == <<>>
  <1>1. DOMAIN o = {}
    OBVIOUS
  <1> HIDE DEF o
  <1>2. /\ Each(o) = FALSE /\ Skipped(o) = {} /\ NotNull(o, FALSE) = {Check("NotNull", Null, FALSE)}
        /\ Opt(o, "toLowerCase", FALSE) = FALSE /\ Opt(o, "toUpperCase", FALSE) = FALSE
        /\ Opt(o, "maxLength", 0) = 0 /\ Opt(o, "minLength", 0) = 0
    BY <1>1 DEF Each, Skipped, Opt, NotNull, If
  <1>3. StringFieldOf(o, 0) = [type |-> "String", changes |-> <<>>, skips |-> {},
              checks |-> {Check("IsString", 0, FALSE), Check("MinLength", 0, FALSE), Check("NotNull", Null, FALSE)}]
    <2>1. <<>> \o <<>> = <<>>
      OBVIOUS
    <2> QED BY <1>2, <2>1 DEF StringFieldOf, Field, If
  <1>4. StringFieldOptional(o) = Optional(StringFieldOf(o, 0))
    BY <1>2 DEF StringFieldOptional
  <1>5. Optional(StringFieldOf(o, 0)) =
            [type |-> "String", changes |-> <<>>, skips |-> {Null, Undefined},
             checks |-> {Check("IsString", 0, FALSE), Check("MinLength", 0, FALSE), Check("NotNull", Null, FALSE)}]
    BY <1>3, OptionalIs
  <1> QED BY <1>4, <1>5 DEF AnyTextField, o

LEMMA Plainly == ASSUME NEW f, f.changes = <<>>, NEW v PROVE Transformed(f, v) = Convert(f.type, v)
  BY DEF Transformed
LEMMA NumberWords ==
   /\ \A w \in DOMAIN Words \ {"none", "zero", "seven", "minusOne", "oneAndAHalf"} : Words[w].number = NaN
   /\ Words["none"].number = Number(0) /\ Words["zero"].number = Number(0) /\ Words["seven"].number = Number(14)
   /\ Words["minusOne"].number = Number(-2) /\ Words["oneAndAHalf"].number = Number(3)
  BY DEF Words, Word
LEMMA UuidWords == \A w \in DOMAIN Words : "uuid" \in Words[w].looks <=> w \in {"uuid", "UUID"}
  BY DEF Words, Word

LEMMA WholeTexts ==
    ASSUME NEW w \in DOMAIN Words, Passes(WholeOptional, Transformed(WholeOptional, Text(w)))
    PROVE  /\ w \in {"none", "zero", "seven", "minusOne"}
           /\ Transformed(WholeOptional, Text(w)) = Words[w].number
  <1> DEFINE given == Transformed(WholeOptional, Text(w))
  <1>1. given = Words[w].number
    <2>1. given = Convert("Number", Text(w))
      BY WholeIs, Plainly
    <2>2. Text(w)[1] = "text" /\ Text(w)[2] = w /\ Text(w) \notin {Null, Undefined}
      BY DEF Text, Null, Undefined
    <2>3. Convert("Number", Text(w)) = NumberOf(Text(w))
      BY <2>2 DEF Convert, ConvertOne, IsList
    <2> QED BY <2>1, <2>2, <2>3 DEF NumberOf, IsText
  <1>2. given \in {Null, Undefined} \/ (IsNumber(given) /\ given[2] % 2 = 0)
    <2>1. Check("IsInt", 0, FALSE).name = "IsInt" /\ Check("IsInt", 0, FALSE).arg = 0 /\ ~Check("IsInt", 0, FALSE).each
      BY DEF Check
    <2>2. given \in {Null, Undefined} \/ Holds(Check("IsInt", 0, FALSE), given)
      BY WholeIs DEF Passes
    <2>3. Holds(Check("IsInt", 0, FALSE), given) => HoldsFor("IsInt", 0, given)
      BY <2>1 DEF Holds
    <2> QED BY <2>2, <2>3 DEF HoldsFor
  <1> HIDE DEF given
  <1>3. NaN[1] # "number" /\ NaN \notin {Null, Undefined}
    BY DEF NaN, Null, Undefined
  <1>4. Number(3) \notin {Null, Undefined} /\ Number(3)[2] = 3 /\ 3 % 2 = 1
    BY DEF Number, Null, Undefined
  <1>5. w \in {"none", "zero", "seven", "minusOne"}
    BY <1>1, <1>2, <1>3, <1>4, NumberWords DEF IsNumber
  <1> QED BY <1>1, <1>5 DEF given

LEMMA WholeLists ==
    ASSUME NEW v, IsList(v)
    PROVE ~Passes(WholeOptional, Transformed(WholeOptional, v))
  <1> DEFINE given == Transformed(WholeOptional, v)
  <1>1. given = List([k \in DOMAIN v[2] |-> ConvertOne("Number", v[2][k])])
    <2>1. given = Convert("Number", v)
      BY WholeIs, Plainly
    <2> QED BY <2>1 DEF Convert
  <1>2. given[1] = "list" /\ given \notin {Null, Undefined}
    BY <1>1 DEF List, Null, Undefined
  <1> HIDE DEF given
  <1>3. ~HoldsFor("IsInt", 0, given)
    BY <1>2 DEF HoldsFor, IsNumber
  <1>4. ~Holds(Check("IsInt", 0, FALSE), given)
    BY <1>3 DEF Holds, Check
  <1> QED BY <1>2, <1>4, WholeIs DEF Passes, given

LEMMA TextTexts ==
    ASSUME NEW w PROVE Transformed(AnyTextField, Text(w)) = Text(w)
  <1>1. Transformed(AnyTextField, Text(w)) = Convert("String", Text(w))
    BY TextIs, Plainly
  <1>2. Text(w)[1] = "text" /\ Text(w) \notin {Null, Undefined}
    BY DEF Text, Null, Undefined
  <1> QED BY <1>1, <1>2 DEF Convert, ConvertOne, IsList, StringOf, IsNumber, IsText

LEMMA TextLists ==
    ASSUME NEW v, IsList(v)
    PROVE ~Passes(AnyTextField, Transformed(AnyTextField, v))
  <1> DEFINE given == Transformed(AnyTextField, v)
  <1>1. given = List([k \in DOMAIN v[2] |-> ConvertOne("String", v[2][k])])
    <2>1. given = Convert("String", v)
      BY TextIs, Plainly
    <2> QED BY <2>1 DEF Convert
  <1>2. given[1] = "list" /\ given \notin {Null, Undefined}
    BY <1>1 DEF List, Null, Undefined
  <1> HIDE DEF given
  <1>3. ~HoldsFor("IsString", 0, given)
    BY <1>2 DEF HoldsFor, IsText
  <1>4. ~Holds(Check("IsString", 0, FALSE), given)
    BY <1>3 DEF Holds, Check
  <1>5. Check("IsString", 0, FALSE) \in AnyTextField.checks
    BY TextIs
  <1>6. given \notin AnyTextField.skips
    BY <1>2, TextIs
  <1> QED BY <1>4, <1>5, <1>6 DEF Passes, given

\* What a query string carries.
LEMMA QueryValues ==
    ASSUME NEW i \in Inputs, i.route # "profile", NEW p \in DOMAIN i.query
    PROVE  IsList(i.query[p]) \/ \E w \in DOMAIN Words : i.query[p] = Text(w)
  <1>1. i.query[p] \in Raw /\ (IsText(i.query[p]) \/ IsList(i.query[p]))
    BY RequestsAssumption
  <1> HIDE DEF Raw
  <1>2. SUFFICES ASSUME NEW v \in Raw, IsText(v) PROVE \E w \in DOMAIN Words : v = Text(w)
    BY <1>1
  <1>3. v[1] = "text"
    BY <1>2 DEF IsText
  <1>4. v \in {Text(w) : w \in DOMAIN Words} \/ v[1] # "text"
    <2>1. ASSUME NEW h PROVE Number(h)[1] # "text"
      BY DEF Number
    <2>2. ASSUME NEW b PROVE Boolean(b)[1] # "text"
      BY DEF Boolean
    <2>3. ASSUME NEW l PROVE List(l)[1] # "text"
      BY DEF List
    <2>4. Null[1] # "text" /\ Object[1] # "text" /\ Undefined[1] # "text"
      BY DEF Null, Object, Undefined
    <2> QED BY <2>1, <2>2, <2>3, <2>4 DEF Raw, Simple
  <1> QED BY <1>3, <1>4

\* The whole numbers a parameter may be.
WholeOf(w) == CASE w = "seven" -> 7 [] w = "minusOne" -> -1 [] OTHER -> 0

LEMMA WholeParam ==
    ASSUME NEW i \in Inputs, i.route \in {"all", "cursor"}, ~Refused(i), NEW p \in {"page", "limit"}, NEW default,
           p \in DOMAIN i.query, Dto(i.route)[p] = WholeOptional, p \in DOMAIN Dto(i.route)
    PROVE  \E w \in {"none", "zero", "seven", "minusOne"} :
                i.query[p] = Text(w) /\ Whole(Param(i, p, default)) = WholeOf(w)
  <1>1. Passes(WholeOptional, Transformed(WholeOptional, i.query[p]))
    BY DEF Refused
  <1>2. PICK w \in DOMAIN Words : i.query[p] = Text(w)
    BY <1>1, QueryValues, WholeLists
  <1>3. w \in {"none", "zero", "seven", "minusOne"} /\ Param(i, p, default) = Words[w].number
    BY <1>1, <1>2, WholeTexts DEF Param
  <1>4. Whole(Number(0)) = 0 /\ Whole(Number(14)) = 7 /\ Whole(Number(-2)) = -1
    BY DEF Whole, Number
  <1> QED BY <1>2, <1>3, <1>4, NumberWords DEF WholeOf

LEMMA OffsetSigns ==
    ASSUME NEW i \in Inputs, i.route = "all", ~Refused(i)
    PROVE  OffsetOf(i) < 0 <=> NegativeOffset(i)
  <1> DEFINE page == Whole(Param(i, "page", Number(2)))
             limit == Whole(Param(i, "limit", Number(20)))
             sign(p) == IF p \in DOMAIN i.query THEN Signed(i.query[p][2]) ELSE 1
  <1>1. /\ Dto(i.route)["page"] = WholeOptional /\ Dto(i.route)["limit"] = WholeOptional
        /\ "page" \in DOMAIN Dto(i.route) /\ "limit" \in DOMAIN Dto(i.route)
    BY DEF Dto, OffsetQuery
  <1>2. Whole(Number(2)) = 1 /\ Whole(Number(20)) = 10
    BY DEF Whole, Number
  <1>3. \A w : Text(w)[2] = w /\ (Text(w) = Text("seven") => w = "seven")
    BY DEF Text
  <1>4. /\ Signed("none") = 0 /\ Signed("zero") = 0 /\ Signed("seven") = 1 /\ Signed("minusOne") = -1
        /\ WholeOf("none") = 0 /\ WholeOf("zero") = 0 /\ WholeOf("seven") = 7 /\ WholeOf("minusOne") = -1
    BY DEF Signed, WholeOf
  <1>5. \/ "page" \notin DOMAIN i.query /\ page = 1 /\ sign("page") = 1
        \/ /\ "page" \in DOMAIN i.query
           /\ \/ page = 0 /\ sign("page") = 0 /\ i.query.page # Text("seven")
              \/ page = 7 /\ sign("page") = 1 /\ i.query.page = Text("seven")
              \/ page = -1 /\ sign("page") = -1 /\ i.query.page # Text("seven")
    <2>1. CASE "page" \notin DOMAIN i.query
      BY <2>1, <1>2 DEF Param
    <2>2. CASE "page" \in DOMAIN i.query
      <3>1. PICK w \in {"none", "zero", "seven", "minusOne"} : i.query["page"] = Text(w) /\ page = WholeOf(w)
        BY <2>2, <1>1, WholeParam
      <3> QED BY <2>2, <3>1, <1>3, <1>4
    <2> QED BY <2>1, <2>2
  <1>6. \/ limit = 10 /\ sign("limit") = 1
        \/ limit = 0 /\ sign("limit") = 0
        \/ limit = 7 /\ sign("limit") = 1
        \/ limit = -1 /\ sign("limit") = -1
    <2>1. CASE "limit" \notin DOMAIN i.query
      BY <2>1, <1>2 DEF Param
    <2>2. CASE "limit" \in DOMAIN i.query
      <3>1. PICK w \in {"none", "zero", "seven", "minusOne"} : i.query["limit"] = Text(w) /\ limit = WholeOf(w)
        BY <2>2, <1>1, WholeParam
      <3> QED BY <2>2, <3>1, <1>3, <1>4
    <2> QED BY <2>1, <2>2
  <1>7. OffsetOf(i) = (page - 1) * limit
    BY DEF OffsetOf
  <1>8. NegativeOffset(i) <=>
            \/ sign("page") < 1 /\ "page" \in DOMAIN i.query /\ sign("limit") = 1
            \/ ("page" \in DOMAIN i.query /\ i.query.page = Text("seven")) /\ sign("limit") = -1
    BY DEF NegativeOffset
  <1> HIDE DEF page, limit, sign
  <1> QED BY <1>5, <1>6, <1>7, <1>8

LEMMA CursorLooks ==
    ASSUME NEW i \in Inputs, i.route = "cursor", ~Refused(i)
    PROVE  CursorOf(i) \notin {Undefined, Text("none")} /\ ~Looks(CursorOf(i), "uuid")
            <=> NoUuid(i, "afterCursor") \/ (NoCursor(i, "afterCursor") /\ NoUuid(i, "beforeCursor"))
  <1>1. ASSUME NEW p \in {"afterCursor", "beforeCursor"}, p \in DOMAIN i.query
        PROVE  \E w \in DOMAIN Words : i.query[p] = Text(w) /\ Param(i, p, Undefined) = Text(w)
    <2>1. Dto(i.route)[p] = AnyTextField /\ p \in DOMAIN Dto(i.route)
      BY <1>1 DEF Dto, CursorQuery, AnyTextField
    <2>2. Passes(AnyTextField, Transformed(AnyTextField, i.query[p]))
      BY <2>1, <1>1 DEF Refused
    <2>3. PICK w \in DOMAIN Words : i.query[p] = Text(w)
      BY <1>1, <2>2, QueryValues, TextLists
    <2>4. Param(i, p, Undefined) = Text(w)
      BY <1>1, <2>1, <2>3, TextTexts DEF Param
    <2> QED BY <2>3, <2>4
  <1>2. \A w \in DOMAIN Words : Text(w) # Undefined /\ (Looks(Text(w), "uuid") <=> w \in {"uuid", "UUID"})
    BY UuidWords DEF Text, Undefined, Looks, IsText
  <1>3. \A v, w : Text(v) = Text(w) <=> v = w
    BY DEF Text
  <1>4. ASSUME NEW p \in {"afterCursor", "beforeCursor"}
        PROVE  /\ NoUuid(i, p) <=> Param(i, p, Undefined) \notin {Undefined, Text("none")}
                                    /\ ~Looks(Param(i, p, Undefined), "uuid")
               /\ NoCursor(i, p) <=> Param(i, p, Undefined) \in {Undefined, Text("none")}
    <2>1. CASE p \in DOMAIN i.query
      <3>1. PICK w \in DOMAIN Words : i.query[p] = Text(w) /\ Param(i, p, Undefined) = Text(w)
        BY <2>1, <1>1
      <3> QED BY <2>1, <3>1, <1>2, <1>3 DEF NoUuid, NoCursor
    <2>2. CASE p \notin DOMAIN i.query
      BY <2>2 DEF NoUuid, NoCursor, Param
    <2> QED BY <2>1, <2>2
  <1> QED BY <1>4 DEF CursorOf
-----------------------------------------------------------------------------
(* Answers.  What is known of a request at each point of its way.          *)
Native == {"docs", "reference", "auth"}
Listing == {"all", "cursor", "profile"}

Explains(i, status, reported, failed, when) ==
    LET early == failed \cap {"counters", "session", "auth"} # {} \/ when = -1
    IN  /\ status = 500 => Unforeseen(i) \/ failed \ {"redis", "docs"} # {}
        /\ status = 200 =>
            /\ ~Unforeseen(i) /\ failed = {}
            /\ i.signedIn \/ i.route \in {"docs", "reference", "auth", "health"}
            /\ i.basic \/ i.route \notin {"docs", "reference"}
        /\ status \in 400..499 => failed = {}
        /\ status = 503 <=> /\ i.route = "health" /\ when # -1
                           /\ failed \cap {"database", "counters"} = {}
                           /\ failed # {}
        /\ reported <=> status = 500 /\ config.reports /\ ~early

Explained(q) == Explains(asked[q], answer[q].status, answer[q].reported, faults[q], admitted[q])

AnswerInv(q) ==
    /\ pc[q] \in Before \cup {"storing"} => faults[q] = {}
    /\ pc[q] \in {"idle", "hook", "throttle"} => admitted[q] = -1
    /\ pc[q] \in {"throttle", "guard", "pipe", "storing"} => asked[q].route \notin Native
    /\ pc[q] \in {"guard", "pipe", "handler", "storing"} /\ asked[q].route \notin Native =>
            admitted[q] # -1 /\ Tracker(asked[q]) # "throws"
    /\ pc[q] = "guard" => asked[q].route \in Guarded
    /\ pc[q] = "handler" /\ asked[q].route \in Native => admitted[q] = -1
    /\ pc[q] \in {"pipe", "handler", "storing"} /\ asked[q].route \in Guarded => asked[q].signedIn
    /\ pc[q] \in {"handler", "storing"} /\ asked[q].route \in {"docs", "reference"} => asked[q].basic
    /\ pc[q] = "handler" /\ asked[q].route \in Listing => ~Refused(asked[q])
    /\ pc[q] = "storing" =>
            /\ asked[q].route \in Uploads /\ asked[q].form
            /\ ~config.localFileUpload /\ config.bucket
    /\ pc[q] = "answered" => Explained(q)

Answering == \A q \in Requests : AnswerInv(q)

LEMMA AnswersFollow == Answering => AnswersExplained
  BY DEF Answering, AnswerInv, Explained, Explains, AnswersExplained

\* The kinds of answers.
LEMMA RefusalExplains ==
    ASSUME NEW i, NEW when, NEW status \in 400..499
    PROVE  Explains(i, status, FALSE, {}, when)
  BY DEF Explains

LEMMA EarlyExplains ==
    ASSUME NEW i, NEW when, NEW failed, failed \cap {"counters", "session", "auth"} # {} \/ when = -1,
           Unforeseen(i) \/ failed \ {"redis", "docs"} # {},
           i.route # "health" \/ when = -1
    PROVE  Explains(i, 500, FALSE, failed, when)
  BY DEF Explains

LEMMA LateExplains ==
    ASSUME TypeOK, NEW i, NEW when, when # -1, NEW failed, failed \cap {"counters", "session", "auth"} = {},
           Unforeseen(i) \/ failed \ {"redis", "docs"} # {},
           i.route # "health" \/ "database" \in failed
    PROVE  Explains(i, 500, config.reports, failed, when)
  <1>1. config.reports \in BOOLEAN
    BY ConfigType DEF TypeOK
  <1> QED BY <1>1 DEF Explains

LEMMA SuccessExplains ==
    ASSUME NEW i, NEW when, ~Unforeseen(i),
           i.signedIn \/ i.route \in {"docs", "reference", "auth", "health"},
           i.basic \/ i.route \notin {"docs", "reference"}
    PROVE  Explains(i, 200, FALSE, {}, when)
  BY DEF Explains

\* An answer of one request, after which it is explained.
LEMMA Answered ==
    ASSUME TypeOK, NEW q \in Requests, NEW status, NEW files, NEW reported, NEW failed, NEW when,
           Respond(q, status, files, reported), config' = config, asked' = asked,
           faults'[q] = failed, admitted'[q] = when, Explains(asked[q], status, reported, failed, when)
    PROVE  AnswerInv(q)'
  <1>1. pc'[q] = "answered" /\ answer'[q].status = status /\ answer'[q].reported = reported
    BY DEF Respond, TypeOK
  <1>2. Explained(q)'
    BY <1>1 DEF Explained, Explains, Unforeseen
  <1> QED BY <1>1, <1>2 DEF AnswerInv, Before

\* A step of another request.
LEMMA AnswerKept ==
    ASSUME NEW q \in Requests, AnswerInv(q), config' = config, pc'[q] = pc[q], asked'[q] = asked[q],
           answer'[q] = answer[q], faults'[q] = faults[q], admitted'[q] = admitted[q]
    PROVE  AnswerInv(q)'
  <1>1. Explained(q)' <=> Explained(q)
    BY DEF Explained, Explains, Unforeseen
  <1>2. Tracker(asked[q])' = Tracker(asked[q]) /\ (Refused(asked[q])' <=> Refused(asked[q]))
    BY DEF Tracker, Refused
  <1> QED BY <1>1, <1>2 DEF AnswerInv

\* The request itself goes on.
LEMMA WentOn ==
    ASSUME TypeOK, NEW q \in Requests, NEW next, Go(q, next), config' = config, asked' = asked
    PROVE  /\ pc'[q] = next
           /\ Refused(asked[q])' <=> Refused(asked[q])
           /\ Tracker(asked[q])' = Tracker(asked[q])
  BY DEF Go, TypeOK, Refused, Tracker

LEMMA HookAnswer ==
    ASSUME TypeOK, NEW q \in Requests, AnswerInv(q), Hook(q)
    PROVE  AnswerInv(q)'
  <1> DEFINE i == asked[q]
  <1>1. /\ pc[q] = "hook" /\ faults[q] = {} /\ admitted[q] = -1
        /\ config' = config /\ asked' = asked /\ faults' = faults /\ admitted' = admitted
    BY DEF AnswerInv, Hook, Before
  <1>2. CASE Answer(q, 401)
    <2>1. Explains(i, 401, FALSE, {}, -1)
      BY DEF Explains
    <2> QED BY <1>1, <1>2, <2>1, Answered DEF Answer
  <1>3. CASE ~Answer(q, 401)
    <2>1. /\ i.route \in {"docs", "reference"} => i.basic
          /\ Go(q, IF i.route \in {"docs", "reference", "auth"} THEN "handler" ELSE "throttle")
      BY <1>3 DEF Hook
    <2>2. CASE i.route \in Native
      <3>1. pc'[q] = "handler"
        BY <1>1, <2>1, <2>2, WentOn DEF Native
      <3> QED BY <1>1, <2>1, <2>2, <3>1 DEF AnswerInv, Before, Native, Guarded, Uploads, Listing
    <2>3. CASE i.route \notin Native
      <3>1. pc'[q] = "throttle"
        BY <1>1, <2>1, <2>3, WentOn DEF Native
      <3> QED BY <1>1, <2>3, <3>1 DEF AnswerInv, Before
    <2> QED BY <2>2, <2>3
  <1> QED BY <1>2, <1>3

LEMMA ThrottleAnswer ==
    ASSUME TypeOK, NEW q \in Requests, AnswerInv(q), Throttle(q)
    PROVE  AnswerInv(q)'
  <1> DEFINE i == asked[q]
  <1>1. /\ pc[q] = "throttle" /\ faults[q] = {} /\ admitted[q] = -1 /\ i.route \notin Native /\ i \in Inputs
        /\ config' = config /\ asked' = asked
    BY DEF AnswerInv, Throttle, Before, TypeOK
  <1>2. CASE Tracker(i) = "throws" /\ Answer(q, 500) /\ UNCHANGED <<admitted, faults>>
    <2>1. Unforeseen(i)
      BY <1>1, <1>2, RequestsAssumption DEF Tracker, Unforeseen, Native
    <2>2. Explains(i, 500, FALSE, {}, -1)
      BY <2>1, EarlyExplains
    <2> QED BY <1>1, <1>2, <2>2, Answered DEF Answer
  <1>3. CASE Failing(q, {"counters"}) /\ Answer(q, 500) /\ UNCHANGED admitted
    <2>1. faults'[q] = {"counters"}
      BY <1>1, <1>3 DEF Failing, TypeOK
    <2>2. Explains(i, 500, FALSE, {"counters"}, -1)
      BY DEF Explains
    <2> QED BY <1>1, <1>3, <2>1, <2>2, Answered DEF Answer
  <1>4. CASE Answer(q, 429) /\ UNCHANGED <<admitted, faults>>
    <2>1. Explains(i, 429, FALSE, {}, -1)
      BY DEF Explains
    <2> QED BY <1>1, <1>4, <2>1, Answered DEF Answer
  <1>5. CASE /\ Tracker(i) # "throws" /\ Go(q, IF i.route \in Guarded THEN "guard" ELSE "pipe")
             /\ admitted' = [admitted EXCEPT ![q] = now] /\ UNCHANGED faults
    <2>1. admitted'[q] # -1
      BY <1>5 DEF TypeOK
    <2>2. /\ pc'[q] = IF i.route \in Guarded THEN "guard" ELSE "pipe"
          /\ Tracker(i)' # "throws"
      BY <1>1, <1>5, WentOn
    <2> QED BY <1>1, <1>5, <2>1, <2>2 DEF AnswerInv, Before
  <1> QED BY <1>2, <1>3, <1>4, <1>5 DEF Throttle

LEMMA GuardAnswer ==
    ASSUME TypeOK, NEW q \in Requests, AnswerInv(q), Guard(q)
    PROVE  AnswerInv(q)'
  <1> DEFINE i == asked[q]
  <1>1. /\ pc[q] = "guard" /\ faults[q] = {} /\ i.route \notin Native /\ admitted[q] # -1 /\ Tracker(i) # "throws"
        /\ config' = config /\ asked' = asked /\ admitted' = admitted /\ i.route # "health"
    BY DEF AnswerInv, Guard, Before, Guarded, Uploads
  <1>2. CASE Answer(q, 401) /\ UNCHANGED faults
    <2>1. Explains(i, 401, FALSE, {}, admitted[q])
      BY DEF Explains
    <2> QED BY <1>1, <1>2, <2>1, Answered DEF Answer
  <1>3. CASE Failing(q, {"session"}) /\ Answer(q, 500)
    <2>1. faults'[q] = {"session"}
      BY <1>1, <1>3 DEF Failing, TypeOK
    <2>2. Explains(i, 500, FALSE, {"session"}, admitted[q])
      BY <1>1 DEF Explains
    <2> QED BY <1>1, <1>3, <2>1, <2>2, Answered DEF Answer
  <1>4. CASE i.signedIn /\ Go(q, "pipe") /\ UNCHANGED faults
    <2>1. pc'[q] = "pipe" /\ Tracker(i)' # "throws"
      BY <1>1, <1>4, WentOn
    <2> QED BY <1>1, <1>4, <2>1 DEF AnswerInv, Before
  <1> QED BY <1>2, <1>3, <1>4 DEF Guard

LEMMA PipeAnswer ==
    ASSUME TypeOK, NEW q \in Requests, AnswerInv(q), Pipe(q)
    PROVE  AnswerInv(q)'
  <1> DEFINE i == asked[q]
  <1>1. /\ pc[q] = "pipe" /\ faults[q] = {} /\ i.route \notin Native /\ admitted[q] # -1 /\ Tracker(i) # "throws"
        /\ i.route \in Guarded => i.signedIn
        /\ config' = config /\ asked' = asked /\ admitted' = admitted /\ faults' = faults
    BY DEF AnswerInv, Pipe, Before
  <1>2. CASE Answer(q, 400)
    <2>1. Explains(i, 400, FALSE, {}, admitted[q])
      BY DEF Explains
    <2> QED BY <1>1, <1>2, <2>1, Answered DEF Answer
  <1>3. CASE Answer(q, 413)
    <2>1. Explains(i, 413, FALSE, {}, admitted[q])
      BY DEF Explains
    <2> QED BY <1>1, <1>3, <2>1, Answered DEF Answer
  <1>4. CASE Answer(q, 422)
    <2>1. Explains(i, 422, FALSE, {}, admitted[q])
      BY DEF Explains
    <2> QED BY <1>1, <1>4, <2>1, Answered DEF Answer
  <1>5. CASE Go(q, "handler") /\ (i.route \in Listing => ~Refused(i))
    <2>1. pc'[q] = "handler" /\ Tracker(i)' # "throws" /\ (Refused(i)' <=> Refused(i))
      BY <1>1, <1>5, WentOn
    <2> QED BY <1>1, <1>5, <2>1 DEF AnswerInv, Before, Native
  <1>6. \/ Answer(q, 400) \/ Answer(q, 413) \/ Answer(q, 422)
        \/ Go(q, "handler") /\ (i.route \in Listing => ~Refused(i))
    BY DEF Pipe, Listing
  <1> QED BY <1>2, <1>3, <1>4, <1>5, <1>6

\* The queries that fail are those of the unforeseen inputs.
LEMMA QueriesForeseen ==
    ASSUME TypeOK, NEW i \in Inputs, i.route \in Listing \cup {"one", "health"}, i.route \in Listing => ~Refused(i),
           Tracker(i) # "throws"
    PROVE  QueryFails(i) <=> Unforeseen(i)
  <1>1. ~(i.forwarded /\ ~config.trustProxy) /\ i.route \notin Uploads
    BY DEF Tracker, Listing, Uploads
  <1>2. CASE i.route = "all"
    BY <1>1, <1>2, OffsetSigns DEF QueryFails, Unforeseen, Listing, Uploads
  <1>3. CASE i.route = "cursor"
    BY <1>1, <1>3, CursorLooks DEF QueryFails, Unforeseen, Listing, Uploads
  <1>4. CASE i.route \notin {"all", "cursor"}
    BY <1>1, <1>4 DEF QueryFails, Unforeseen, Listing, Uploads
  <1> QED BY <1>2, <1>3, <1>4

\* At its handler.
LEMMA AtHandler ==
    ASSUME TypeOK, NEW q \in Requests, AnswerInv(q), Handle(q)
    PROVE  /\ pc[q] = "handler" /\ faults[q] = {} /\ asked[q] \in Inputs
           /\ config' = config /\ asked' = asked /\ admitted' = admitted
           /\ asked[q].route \notin Native => admitted[q] # -1 /\ Tracker(asked[q]) # "throws"
           /\ asked[q].route \in Native => admitted[q] = -1
           /\ asked[q].route \in Guarded => asked[q].signedIn
           /\ asked[q].route \in {"docs", "reference"} => asked[q].basic
           /\ asked[q].route \in Listing => ~Refused(asked[q])
           /\ \A calls : Failing(q, calls) => faults'[q] = calls
  <1>1. pc[q] = "handler" /\ faults[q] = {}
    BY DEF AnswerInv, Handle, Before
  <1>2. \A calls : Failing(q, calls) => faults'[q] = calls
    BY <1>1 DEF Failing, TypeOK
  <1> QED BY <1>1, <1>2 DEF AnswerInv, Handle, TypeOK

\* A handler's exception, and a success.
LEMMA Thrown ==
    ASSUME TypeOK, NEW q \in Requests, AnswerInv(q), Handle(q), Throw(q), asked[q].route \notin Native,
           NEW failed, faults'[q] = failed, failed \cap {"counters", "session", "auth"} = {},
           Unforeseen(asked[q]) \/ failed \ {"redis", "docs"} # {},
           asked[q].route # "health" \/ "database" \in failed
    PROVE  AnswerInv(q)'
  <1>1. Explains(asked[q], 500, config.reports, failed, admitted[q])
    BY AtHandler, LateExplains
  <1> QED BY <1>1, AtHandler, Answered DEF Throw

LEMMA Succeeded ==
    ASSUME TypeOK, NEW q \in Requests, AnswerInv(q), Handle(q), NEW files, Respond(q, 200, files, FALSE),
           faults'[q] = {}, ~Unforeseen(asked[q]),
           asked[q].signedIn \/ asked[q].route \in Native \cup {"health"}
    PROVE  AnswerInv(q)'
  <1>1. asked[q].basic \/ asked[q].route \notin {"docs", "reference"}
    BY AtHandler
  <1>2. Explains(asked[q], 200, FALSE, {}, admitted[q])
    BY <1>1 DEF Explains, Native
  <1> QED BY <1>2, AtHandler, Answered

LEMMA UserAnswer ==
    ASSUME TypeOK, NEW q \in Requests, AnswerInv(q), Handle(q), HandleUser(q)
    PROVE  AnswerInv(q)'
  <1> DEFINE i == asked[q]
  <1>1. i.route \in {"all", "cursor", "one", "profile"} /\ i.route \notin Native /\ i.route # "health"
        /\ i.signedIn /\ faults[q] = {}
    BY AtHandler DEF HandleUser, Native, Guarded
  <1>2. QueryFails(i) <=> Unforeseen(i)
    BY <1>1, AtHandler, QueriesForeseen DEF Listing
  <1>3. CASE QueryFails(i) /\ Throw(q) /\ UNCHANGED faults
    BY <1>1, <1>2, <1>3, Thrown
  <1>4. CASE ~QueryFails(i) /\ Answer(q, 200) /\ UNCHANGED faults
    BY <1>1, <1>2, <1>4, Succeeded DEF Answer
  <1>5. CASE Answer(q, 404) /\ UNCHANGED faults
    <2>1. Explains(i, 404, FALSE, {}, admitted[q])
      BY DEF Explains
    <2> QED BY <1>1, <1>5, <2>1, AtHandler, Answered DEF Answer
  <1>6. CASE Failing(q, {"database"}) /\ Throw(q)
    <2>1. faults'[q] = {"database"}
      BY <1>6, AtHandler
    <2> QED BY <1>1, <1>6, <2>1, Thrown
  <1> QED BY <1>3, <1>4, <1>5, <1>6 DEF HandleUser

LEMMA HealthAnswer ==
    ASSUME TypeOK, NEW q \in Requests, AnswerInv(q), Handle(q), HandleHealth(q)
    PROVE  AnswerInv(q)'
  <1> DEFINE i == asked[q]
  <1>1. i.route = "health" /\ i.route \notin Native /\ admitted[q] # -1
    BY AtHandler DEF HandleHealth, Native
  <1>2. ~Unforeseen(i)
    BY <1>1, AtHandler, QueriesForeseen DEF Listing, QueryFails
  <1>3. PICK down \in SUBSET {"database", "redis", "docs"} :
            /\ Failing(q, down)
            /\ IF "database" \in down THEN Throw(q) ELSE Answer(q, IF down = {} THEN 200 ELSE 503)
    BY DEF HandleHealth
  <1>4. faults'[q] = down
    BY <1>3, AtHandler
  <1>5. CASE "database" \in down
    BY <1>1, <1>3, <1>4, <1>5, Thrown
  <1>6. CASE down = {}
    BY <1>1, <1>2, <1>3, <1>4, <1>6, Succeeded DEF Answer
  <1>7. CASE "database" \notin down /\ down # {}
    <2>1. Explains(i, 503, FALSE, down, admitted[q])
      BY <1>1, <1>7 DEF Explains
    <2> QED BY <1>3, <1>4, <1>7, <2>1, AtHandler, Answered DEF Answer
  <1> QED BY <1>5, <1>6, <1>7

LEMMA NativeAnswer ==
    ASSUME TypeOK, NEW q \in Requests, AnswerInv(q), Handle(q), HandleNative(q)
    PROVE  AnswerInv(q)'
  <1> DEFINE i == asked[q]
  <1>1. i.route \in Native /\ i.route # "health" /\ faults[q] = {}
    BY AtHandler DEF HandleNative, Native
  <1>2. ~Unforeseen(i)
    BY <1>1 DEF Unforeseen, Native, Uploads
  <1>3. CASE Answer(q, 200) /\ UNCHANGED faults
    BY <1>1, <1>2, <1>3, Succeeded DEF Answer
  <1>4. CASE Failing(q, {"auth"}) /\ Answer(q, 500)
    <2>1. faults'[q] = {"auth"}
      BY <1>4, AtHandler
    <2>2. Explains(i, 500, FALSE, {"auth"}, admitted[q])
      BY <1>1 DEF Explains
    <2> QED BY <1>4, <2>1, <2>2, AtHandler, Answered DEF Answer
  <1> QED BY <1>3, <1>4 DEF HandleNative

LEMMA UploadAnswer ==
    ASSUME TypeOK, NEW q \in Requests, AnswerInv(q), Handle(q), HandleUpload(q)
    PROVE  AnswerInv(q)'
  <1> DEFINE i == asked[q]
             files == 1..(IF i.form THEN i.files ELSE 0)
  <1>1. /\ i.route \in Uploads /\ i.route \notin Native /\ i.route # "health" /\ i.signedIn
        /\ faults' = faults /\ faults[q] = {} /\ i.form \in BOOLEAN
    BY AtHandler, InputType DEF HandleUpload, Native, Uploads, Guarded
  <1>2. Unforeseen(i) <=> \/ i.route = "multiple" /\ ~i.form
                          \/ ~config.localFileUpload /\ ~config.bucket
    BY <1>1, AtHandler, RequestsAssumption DEF Unforeseen, Tracker, Uploads
  <1>3. files # {} => i.form
    OBVIOUS
  <1>4. CASE Throw(q) /\ Unforeseen(i)
    BY <1>1, <1>4, Thrown
  <1>5. CASE Answer(q, 400)
    <2>1. Explains(i, 400, FALSE, {}, admitted[q])
      BY DEF Explains
    <2> QED BY <1>1, <1>5, <2>1, AtHandler, Answered DEF Answer
  <1>6. CASE files # {} /\ config.localFileUpload /\ Respond(q, 200, [f \in files |-> f], FALSE)
    BY <1>1, <1>2, <1>3, <1>6, Succeeded
  <1>7. CASE i.form /\ ~config.localFileUpload /\ config.bucket /\ Go(q, "storing")
    <2>1. pc'[q] = "storing" /\ Tracker(i)' # "throws"
      BY <1>1, <1>7, AtHandler, WentOn
    <2> QED BY <1>1, <1>7, <2>1, AtHandler DEF AnswerInv, Before, Native, Uploads
  <1>8. CASE ~i.form /\ i.route = "multiple"
    BY <1>2, <1>4, <1>8 DEF HandleUpload
  <1>9. CASE files = {} /\ (i.form \/ i.route = "single")
    <2>1. Answer(q, 400)
      BY <1>9 DEF HandleUpload
    <2> QED BY <2>1, <1>5
  <1>10. CASE files # {}
    <2>1. CASE config.localFileUpload
      BY <1>3, <1>6, <1>10, <2>1 DEF HandleUpload
    <2>2. CASE ~config.localFileUpload /\ ~config.bucket
      <3>1. Throw(q)
        BY <1>3, <1>10, <2>2 DEF HandleUpload
      <3> QED BY <1>2, <1>4, <2>2, <3>1
    <2>3. CASE ~config.localFileUpload /\ config.bucket
      <3>1. Go(q, "storing")
        BY <1>3, <1>10, <2>3 DEF HandleUpload
      <3> QED BY <1>3, <1>7, <1>10, <2>3, <3>1
    <2> QED BY <2>1, <2>2, <2>3
  <1> QED BY <1>1, <1>8, <1>9, <1>10 DEF Uploads

LEMMA ArriveAnswer ==
    ASSUME TypeOK, NEW q \in Requests, AnswerInv(q), NEW i \in Inputs, Arrive(q, i)
    PROVE  AnswerInv(q)'
  <1>1. pc'[q] = "hook" /\ faults'[q] = {} /\ admitted'[q] = -1
    BY DEF Arrive, Go, TypeOK, AnswerInv, Before
  <1> QED BY <1>1 DEF AnswerInv, Before

\* An upload at its bucket is one the list of unforeseen inputs leaves out.
LEMMA StoringForeseen ==
    ASSUME TypeOK, NEW q \in Requests, AnswerInv(q), pc[q] = "storing"
    PROVE  /\ ~Unforeseen(asked[q]) /\ faults[q] = {} /\ admitted[q] # -1
           /\ asked[q].signedIn /\ asked[q].route \notin Native \cup {"health"}
  <1>1. /\ asked[q].route \in Uploads /\ asked[q].form /\ config.bucket /\ asked[q].route \notin Native
        /\ admitted[q] # -1 /\ Tracker(asked[q]) # "throws" /\ faults[q] = {}
        /\ asked[q].route \in Guarded => asked[q].signedIn
    BY DEF AnswerInv
  <1>2. asked[q].route \in Guarded /\ asked[q].route \notin {"all", "cursor", "health"}
    BY <1>1 DEF Guarded, Uploads
  <1> QED BY <1>1, <1>2 DEF Unforeseen, Tracker

LEMMA PutAnswer ==
    ASSUME TypeOK, NEW q \in Requests, UploadInv(q), AnswerInv(q), NEW f \in Files, Put(q, f)
    PROVE  AnswerInv(q)'
  <1>1. config' = config /\ asked' = asked /\ admitted' = admitted
        /\ (pc[q] # "storing" => Failed(q))
    BY DEF Put, Store, Refuse, UploadInv
  <1>2. CASE pc[q] = "storing" /\ Respond(q, 200, [g \in 1..asked[q].files |-> g], FALSE) /\ faults' = faults
    <2>1. Explains(asked[q], 200, FALSE, {}, admitted[q])
      BY <1>2, StoringForeseen DEF Explains, Native
    <2> QED BY <1>1, <1>2, <2>1, StoringForeseen, Answered
  <1>3. CASE pc[q] = "storing" /\ Throw(q) /\ Failing(q, {"bucket"})
    <2>1. faults'[q] = {"bucket"}
      BY <1>3, StoringForeseen DEF Failing, TypeOK
    <2>2. Explains(asked[q], 500, config.reports, {"bucket"}, admitted[q])
      BY <1>3, StoringForeseen, LateExplains
    <2> QED BY <1>1, <1>3, <2>1, <2>2, Answered DEF Throw
  <1>4. CASE UNCHANGED <<pc, answer>> /\ faults'[q] = faults[q]
    BY <1>1, <1>4, AnswerKept
  <1>5. CASE Store(q, f)
    BY <1>2, <1>4, <1>5 DEF Store
  <1>6. CASE Refuse(q, f)
    <2>1. CASE pc[q] = "storing"
      BY <1>3, <1>6, <2>1 DEF Refuse
    <2>2. CASE pc[q] # "storing"
      <3>1. UNCHANGED <<pc, answer>> /\ Failing(q, {"bucket"})
        BY <1>6, <2>2 DEF Refuse
      <3>2. "bucket" \in faults[q]
        BY <1>1, <2>2 DEF Failed
      <3>3. faults'[q] = faults[q]
        BY <3>1, <3>2 DEF Failing, TypeOK
      <3> QED BY <1>4, <3>1, <3>3
    <2> QED BY <2>1, <2>2
  <1> QED BY <1>5, <1>6 DEF Put

\* A step of one request leaves the others as they are.
LEMMA OthersAnswer ==
    ASSUME TypeOK, NEW q \in Requests, NEW p \in Requests \ {q}, AnswerInv(p),
           \/ \E i \in Inputs : Arrive(q, i)
           \/ Step(q)
           \/ \E f \in Files : Put(q, f)
    PROVE  AnswerInv(p)'
  <1> SUFFICES /\ config' = config /\ pc'[p] = pc[p] /\ asked'[p] = asked[p] /\ answer'[p] = answer[p]
               /\ faults'[p] = faults[p] /\ admitted'[p] = admitted[p]
    BY AnswerKept
  <1>1. CASE \E i \in Inputs : Arrive(q, i)
    BY <1>1, OthersKeep DEF Arrive, TypeOK
  <1>2. CASE Hook(q) \/ Guard(q) \/ Pipe(q)
    BY <1>2, OthersKeep DEF Hook, Guard, Pipe, Answer
  <1>3. CASE Throttle(q)
    <2>1. admitted'[p] = admitted[p]
      BY <1>3 DEF Throttle, TypeOK
    <2> QED BY <1>3, <2>1, OthersKeep DEF Throttle, Answer
  <1>4. CASE Handle(q)
    <2>1. UNCHANGED <<config, asked, admitted>>
      BY <1>4 DEF Handle
    <2>2. CASE HandleUser(q)
      BY <2>1, <2>2, OthersKeep DEF HandleUser, Answer, Throw
    <2>3. CASE HandleHealth(q)
      BY <2>1, <2>3, OthersKeep DEF HandleHealth, Answer, Throw
    <2>4. CASE HandleNative(q)
      BY <2>1, <2>4, OthersKeep DEF HandleNative, Answer, Throw
    <2>5. CASE HandleUpload(q)
      BY <2>1, <2>5, OthersKeep DEF HandleUpload, Answer, Throw
    <2> QED BY <1>4, <2>2, <2>3, <2>4, <2>5 DEF Handle
  <1>5. CASE \E f \in Files : Put(q, f)
    BY <1>5, OthersKeep DEF Put, Store, Refuse, Throw
  <1> QED BY <1>1, <1>2, <1>3, <1>4, <1>5 DEF Step

LEMMA StepAnswer ==
    ASSUME TypeOK, NEW q \in Requests, AnswerInv(q), Step(q)
    PROVE  AnswerInv(q)'
  <1>1. CASE Handle(q)
    BY <1>1, UserAnswer, HealthAnswer, NativeAnswer, UploadAnswer DEF Handle
  <1> QED BY <1>1, HookAnswer, ThrottleAnswer, GuardAnswer, PipeAnswer DEF Step

\* Every step keeps what is known of the answers.
LEMMA AnswersKept == Spec => []Answering
  <1>1. Init => Answering
    BY DEF Init, Answering, AnswerInv, Before
  <1>2. Uploading /\ Answering /\ [Next]_vars => Answering'
    <2> SUFFICES ASSUME TypeOK, \A q \in Requests : UploadInv(q), \A q \in Requests : AnswerInv(q), [Next]_vars,
                        NEW p \in Requests
                 PROVE  AnswerInv(p)'
      BY DEF Uploading, Answering
    <2>1. ASSUME NEW q \in Requests, NEW i \in Inputs, Arrive(q, i) PROVE AnswerInv(p)'
      BY <2>1, ArriveAnswer, OthersAnswer
    <2>2. ASSUME NEW q \in Requests, Step(q) PROVE AnswerInv(p)'
      BY <2>2, StepAnswer, OthersAnswer
    <2>3. ASSUME NEW q \in Requests, NEW f \in Files, Put(q, f) PROVE AnswerInv(p)'
      BY <2>3, PutAnswer, OthersAnswer
    <2>4. CASE Crash
      <3>1. pc'[p] = (IF pc[p] \in Open THEN "lost" ELSE pc[p])
            /\ UNCHANGED <<config, asked, faults, admitted, answer>>
        BY <2>4 DEF Crash
      <3>2. CASE pc[p] \in Open
        BY <3>1, <3>2 DEF AnswerInv, Before
      <3>3. CASE pc[p] \notin Open
        BY <3>1, <3>3, AnswerKept
      <3> QED BY <3>2, <3>3
    <2>5. CASE Tick \/ UNCHANGED vars
      BY <2>5, AnswerKept DEF Tick, vars
    <2> QED BY <2>1, <2>2, <2>3, <2>4, <2>5 DEF Next
  <1> QED BY <1>1, <1>2, UploadsKept, PTL DEF Spec

(* Every status is explained: a 500 by a failed call or by an input of the *)
(* list Unforeseen, a 2xx by neither; a refusal comes before any call has  *)
(* failed; and Sentry hears of the 500s of handlers, of no others.         *)
THEOREM AnswersAreExplained == Spec => []AnswersExplained
  BY AnswersKept, AnswersFollow, PTL
-----------------------------------------------------------------------------
(* Quotas.  A window opens with the first hit after the last one has       *)
(* ended; `passed' are the requests that were let through, `when' tells    *)
(* the time of each, and h is the counter in Redis.                        *)
Between(passed, when, from, to) == {q \in passed : from <= when[q] /\ when[q] < to}
Count(passed, when, from, to) == Cardinality(Between(passed, when, from, to))

\* The first of a window's requests is at its very start, or was refused.
Windows(passed, when, h, limit, ttl, n) ==
    LET start == h.expires - ttl
    IN  /\ IsFiniteSet(passed)
        /\ \A q \in passed : when[q] \in Nat /\ when[q] <= n /\ when[q] < h.expires
        /\ h.expires <= n + ttl
        /\ h.count = 0 => passed = {} /\ h.expires = 0
        /\ h.count > 0 =>
            /\ Count(passed, when, start, h.expires) <= h.count
            /\ Count(passed, when, start, h.expires) <= limit
            /\ Count(passed, when, start + 1, h.expires) <= h.count - 1
            /\ Count(passed, when, start + 1, h.expires) <= limit - 1
        /\ Count(passed, when, start - ttl + 1, start) <= limit - 1
        /\ \A from \in Nat : Count(passed, when, from, from + ttl) <= 2 * limit - 1

LEMMA CountType ==
    ASSUME NEW passed, IsFiniteSet(passed), NEW when, NEW from, NEW to
    PROVE  /\ IsFiniteSet(Between(passed, when, from, to))
           /\ Count(passed, when, from, to) \in Nat
  <1>1. Between(passed, when, from, to) \in SUBSET passed
    BY DEF Between
  <1> QED BY <1>1, FS_Subset, FS_CardinalityType DEF Count

LEMMA CountNone ==
    ASSUME NEW passed, NEW when, NEW from, NEW to, Between(passed, when, from, to) = {}
    PROVE  Count(passed, when, from, to) = 0
  BY FS_EmptySet DEF Count

LEMMA CountWider ==
    ASSUME NEW passed, IsFiniteSet(passed), NEW when,
           NEW from, NEW to, NEW low, NEW high,
           Between(passed, when, from, to) \subseteq Between(passed, when, low, high)
    PROVE  Count(passed, when, from, to) <= Count(passed, when, low, high)
  BY CountType, FS_Subset DEF Count

LEMMA CountParts ==
    ASSUME NEW passed, IsFiniteSet(passed), NEW when, NEW from, NEW to, NEW low, NEW middle, NEW high,
           Between(passed, when, from, to)
               \subseteq Between(passed, when, low, middle) \cup Between(passed, when, middle, high)
    PROVE  Count(passed, when, from, to) <= Count(passed, when, low, middle) + Count(passed, when, middle, high)
  <1> DEFINE S == Between(passed, when, low, middle)
             T == Between(passed, when, middle, high)
  <1>1. IsFiniteSet(S) /\ IsFiniteSet(T)
    BY CountType
  <1> HIDE DEF S, T
  <1>2. /\ IsFiniteSet(S \cup T) /\ IsFiniteSet(S \cap T)
        /\ Cardinality(S \cup T) = Cardinality(S) + Cardinality(T) - Cardinality(S \cap T)
    BY <1>1, FS_Union, FS_Intersection
  <1>3. Cardinality(S) \in Nat /\ Cardinality(T) \in Nat /\ Cardinality(S \cap T) \in Nat
    BY <1>1, <1>2, FS_CardinalityType
  <1>4. Cardinality(Between(passed, when, from, to)) <= Cardinality(S \cup T)
        /\ Cardinality(Between(passed, when, from, to)) \in Nat
    BY <1>2, CountType, FS_Subset DEF S, T, Count
  <1>5. Cardinality(Between(passed, when, from, to)) <= Cardinality(S) + Cardinality(T)
    BY <1>2, <1>3, <1>4
  <1> QED BY <1>5 DEF S, T, Count

LEMMA CountMore ==
    ASSUME NEW passed, IsFiniteSet(passed), NEW when, NEW then, NEW q, q \notin passed, then[q] \in Nat,
           \A p \in passed : then[p] = when[p], NEW from, NEW to
    PROVE  /\ Count(passed \cup {q}, then, from, to) <= Count(passed, when, from, to) + 1
           /\ ~(from <= then[q] /\ then[q] < to) =>
                  Count(passed \cup {q}, then, from, to) = Count(passed, when, from, to)
  <1>1. Between(passed \cup {q}, then, from, to) =
            IF from <= then[q] /\ then[q] < to THEN Between(passed, when, from, to) \cup {q}
            ELSE Between(passed, when, from, to)
    BY DEF Between
  <1>2. IsFiniteSet(Between(passed, when, from, to)) /\ Count(passed, when, from, to) \in Nat
    BY CountType
  <1>3. Cardinality(Between(passed, when, from, to) \cup {q}) <= Cardinality(Between(passed, when, from, to)) + 1
    <2> DEFINE S == Between(passed, when, from, to)
    <2>1. IsFiniteSet(S) /\ Cardinality(S) \in Nat
      BY <1>2 DEF Count
    <2> HIDE DEF S
    <2>2. Cardinality(S \cup {q}) = IF q \in S THEN Cardinality(S) ELSE Cardinality(S) + 1
      BY <2>1, FS_AddElement
    <2>3. Cardinality(S \cup {q}) <= Cardinality(S) + 1
      BY <2>1, <2>2
    <2> QED BY <2>3 DEF S
  <1> QED BY <1>1, <1>2, <1>3 DEF Count

\* Time passes.
LEMMA WindowsLater ==
    ASSUME NEW passed, NEW when, NEW h, h.expires \in Int, NEW limit, NEW ttl \in Nat, NEW n \in Nat, NEW m \in Nat,
           n <= m, Windows(passed, when, h, limit, ttl, n)
    PROVE  Windows(passed, when, h, limit, ttl, m)
  <1>1. \A q \in passed : when[q] \in Nat /\ when[q] <= m
    BY DEF Windows
  <1>2. h.expires <= m + ttl
    BY DEF Windows
  <1> QED BY <1>1, <1>2 DEF Windows

\* A hit: in the window that is open, or the first of a new one.
Hits(h, new, ttl, n) ==
    \/ n < h.expires /\ new.count = h.count + 1 /\ new.expires = h.expires
    \/ n >= h.expires /\ new.count = 1 /\ new.expires = n + ttl

\* What the counts of a new window are before its first request has passed.
LEMMA WindowsOpen ==
    ASSUME NEW passed, NEW when, NEW h, h.count \in Nat, h.expires \in Nat, NEW limit \in Nat \ {0},
           NEW ttl \in Nat \ {0}, NEW n \in Nat, n >= h.expires, Windows(passed, when, h, limit, ttl, n)
    PROVE  /\ \A to \in Int : Count(passed, when, n, to) = 0 /\ Count(passed, when, n + 1, to) = 0
           /\ Count(passed, when, n - ttl + 1, n) <= limit - 1
  <1>1. IsFiniteSet(passed) /\ \A q \in passed : when[q] \in Nat /\ when[q] < n
    BY DEF Windows
  <1>2. ASSUME NEW to \in Int PROVE Count(passed, when, n, to) = 0 /\ Count(passed, when, n + 1, to) = 0
    <2>1. Between(passed, when, n, to) = {} /\ Between(passed, when, n + 1, to) = {}
      BY <1>1 DEF Between
    <2> QED BY <2>1, CountNone
  <1>3. CASE h.count = 0
    <2>1. Between(passed, when, n - ttl + 1, n) = {}
      BY <1>3 DEF Windows, Between
    <2> QED BY <1>2, <2>1, CountNone
  <1>4. CASE h.count # 0
    <2>1. Between(passed, when, n - ttl + 1, n) \subseteq Between(passed, when, h.expires - ttl + 1, h.expires)
      BY <1>1 DEF Between, Windows
    <2>2. Count(passed, when, n - ttl + 1, n) <= Count(passed, when, h.expires - ttl + 1, h.expires)
      BY <1>1, <2>1, CountWider
    <2>3. Count(passed, when, h.expires - ttl + 1, h.expires) <= limit - 1
      BY <1>4 DEF Windows
    <2>4. Count(passed, when, n - ttl + 1, n) \in Nat /\ Count(passed, when, h.expires - ttl + 1, h.expires) \in Nat
      BY <1>1, CountType
    <2> QED BY <1>2, <2>2, <2>3, <2>4
  <1> QED BY <1>2, <1>3, <1>4

LEMMA WindowsRefuse ==
    ASSUME NEW passed, NEW when, NEW h, h.count \in Nat, h.expires \in Nat, NEW limit \in Nat \ {0},
           NEW ttl \in Nat \ {0}, NEW n \in Nat, Windows(passed, when, h, limit, ttl, n),
           NEW new, Hits(h, new, ttl, n)
    PROVE  Windows(passed, when, new, limit, ttl, n)
  <1>1. CASE n < h.expires /\ new.count = h.count + 1 /\ new.expires = h.expires
    <2>1. h.count # 0
      BY <1>1 DEF Windows
    <2>2. \A from, to : Count(passed, when, from, to) \in Nat
      BY CountType DEF Windows
    <2> QED BY <1>1, <2>1, <2>2 DEF Windows
  <1>2. CASE n >= h.expires /\ new.count = 1 /\ new.expires = n + ttl
    <2>1. new.expires \in Int /\ new.expires - ttl = n /\ new.expires - ttl + 1 = n + 1
          /\ new.expires - ttl - ttl + 1 = n - ttl + 1
      BY <1>2
    <2>2. /\ Count(passed, when, n, new.expires) = 0 /\ Count(passed, when, n + 1, new.expires) = 0
          /\ Count(passed, when, n - ttl + 1, n) <= limit - 1
      BY <1>2, <2>1, WindowsOpen
    <2>3. \A q \in passed : when[q] \in Nat /\ when[q] <= n /\ when[q] < new.expires
      BY <1>2 DEF Windows
    <2> QED BY <1>2, <2>1, <2>2, <2>3 DEF Windows
  <1> QED BY <1>1, <1>2 DEF Hits

LEMMA WindowsPass ==
    ASSUME NEW passed, NEW when, NEW h, h.count \in Nat, h.expires \in Nat, NEW limit \in Nat \ {0},
           NEW ttl \in Nat \ {0}, NEW n \in Nat, Windows(passed, when, h, limit, ttl, n),
           NEW new, Hits(h, new, ttl, n), new.count <= limit,
           NEW q, q \notin passed, NEW then, then[q] = n, \A p \in passed : then[p] = when[p]
    PROVE  Windows(passed \cup {q}, then, new, limit, ttl, n)
  <1> DEFINE all == passed \cup {q}
             start == new.expires - ttl
  <1>1. /\ IsFiniteSet(passed) /\ IsFiniteSet(all)
        /\ \A p \in all : then[p] \in Nat /\ then[p] <= n
    BY FS_AddElement DEF Windows
  <1>2. \A from, to : Count(passed, when, from, to) \in Nat /\ Count(all, then, from, to) \in Nat
    BY <1>1, CountType
  <1>3. \A from, to : Count(all, then, from, to) <= Count(passed, when, from, to) + 1
    BY <1>1, CountMore
  <1>4. \A from, to : ~(from <= n /\ n < to) => Count(all, then, from, to) = Count(passed, when, from, to)
    BY <1>1, CountMore
  <1>5. /\ new.expires \in Nat /\ n < new.expires /\ new.expires <= n + ttl /\ start \in Int /\ start <= n
        /\ new.count \in Nat \ {0}
    BY DEF Hits, Windows
  <1>6. \A p \in all : then[p] < new.expires
    BY <1>1, <1>5
  <1> HIDE DEF all, start
  <1>7. /\ Count(all, then, start, new.expires) <= new.count
        /\ Count(all, then, start + 1, new.expires) <= new.count - 1
        /\ Count(all, then, start - ttl + 1, start) <= limit - 1
    <2>1. CASE n >= h.expires /\ new.count = 1 /\ new.expires = n + ttl
      <3>1. start = n
        BY <2>1 DEF start
      <3>2. /\ Count(passed, when, n, new.expires) = 0 /\ Count(passed, when, n + 1, new.expires) = 0
            /\ Count(passed, when, n - ttl + 1, n) <= limit - 1
        BY <1>5, <2>1, WindowsOpen
      <3>3. ~(n + 1 <= n /\ n < new.expires) /\ ~(n - ttl + 1 <= n /\ n < n)
        OBVIOUS
      <3>4. Count(all, then, n + 1, new.expires) = 0
        BY <1>4, <3>2, <3>3
      <3>5. Count(all, then, n - ttl + 1, n) <= limit - 1
        BY <1>4, <3>2, <3>3
      <3>6. Count(all, then, n, new.expires) <= 1
        BY <1>2, <1>3, <3>2
      <3> QED BY <2>1, <3>1, <3>4, <3>5, <3>6
    <2>2. CASE n < h.expires /\ new.count = h.count + 1 /\ new.expires = h.expires /\ h.count # 0
      <3>1. /\ Count(passed, when, start, new.expires) <= h.count
            /\ Count(passed, when, start + 1, new.expires) <= h.count - 1
            /\ Count(passed, when, start - ttl + 1, start) <= limit - 1
        BY <2>2 DEF Windows, start
      <3>2. Count(all, then, start - ttl + 1, start) = Count(passed, when, start - ttl + 1, start)
        BY <1>4, <1>5
      <3>3. Count(all, then, start, new.expires) <= Count(passed, when, start, new.expires) + 1
            /\ Count(all, then, start + 1, new.expires) <= Count(passed, when, start + 1, new.expires) + 1
        BY <1>3
      <3>4. Count(all, then, start, new.expires) <= h.count + 1
        BY <1>2, <3>1, <3>3
      <3>5. Count(all, then, start + 1, new.expires) <= h.count
        BY <1>2, <3>1, <3>3
      <3> QED BY <2>2, <3>1, <3>2, <3>4, <3>5
    <2>3. h.count = 0 => h.expires = 0
      BY DEF Windows
    <2> QED BY <2>1, <2>2, <2>3 DEF Hits
  <1>8. /\ Count(all, then, start, new.expires) <= limit
        /\ Count(all, then, start + 1, new.expires) <= limit - 1
    BY <1>2, <1>5, <1>7
  <1>9. ASSUME NEW from \in Nat PROVE Count(all, then, from, from + ttl) <= 2 * limit - 1
    <2>1. CASE from <= n /\ n < from + ttl
      <3>1. Between(all, then, from, from + ttl)
                \subseteq Between(all, then, start - ttl + 1, start) \cup Between(all, then, start, new.expires)
        <4>1. start - ttl + 1 <= from
          BY <1>5, <2>1
        <4> QED BY <1>1, <1>5, <1>6, <4>1 DEF Between
      <3>2. Count(all, then, from, from + ttl)
                <= Count(all, then, start - ttl + 1, start) + Count(all, then, start, new.expires)
        BY <1>1, <3>1, CountParts
      <3> QED BY <1>2, <1>7, <1>8, <3>2
    <2>2. CASE ~(from <= n /\ n < from + ttl)
      BY <1>4, <2>2 DEF Windows
    <2> QED BY <2>1, <2>2
  <1>10. new.count # 0
    BY <1>5
  <1> QED BY <1>1, <1>5, <1>6, <1>7, <1>8, <1>9, <1>10 DEF Windows, start, all

\* The requests let through on one route for one peer.
Of(k) == {q \in Requests : asked[q].route = k[1] /\ asked[q].peer = k[2] /\ admitted[q] # -1}
QuotaInv(k) == config.ttl > 0 => Windows(Of(k), admitted, hits[k], config.limit, config.ttl, now)
Quotas == \A k \in Routes \X Addresses : QuotaInv(k)

LEMMA CounterType ==
    ASSUME TypeOK, NEW k \in Routes \X Addresses
    PROVE  /\ hits[k].count \in Nat /\ hits[k].expires \in Nat /\ hits[k].blocked \in Nat
           /\ config.limit \in Nat \ {0} /\ config.ttl \in Nat /\ now \in Nat
  <1>1. hits[k] \in [count : Nat, expires : Nat, blocked : Nat] /\ config \in Configs /\ now \in Nat
    BY DEF TypeOK
  <1>2. config.limit \in Nat \ {0} /\ config.ttl \in Nat
    BY <1>1, RequestsAssumption
  <1> QED BY <1>1, <1>2

\* Time passes, or nothing that counts has changed.
LEMMA QuotaKept ==
    ASSUME TypeOK, TypeOK', NEW k \in Routes \X Addresses, QuotaInv(k), config' = config, hits'[k] = hits[k],
           Of(k)' = Of(k), admitted' = admitted, now <= now'
    PROVE  QuotaInv(k)'
  <1>1. CASE config.ttl > 0
    <2>1. now' \in Nat
      BY DEF TypeOK
    <2>2. Windows(Of(k), admitted, hits[k], config.limit, config.ttl, now')
      BY <1>1, <2>1, CounterType, WindowsLater DEF QuotaInv
    <2> QED BY <2>2 DEF QuotaInv
  <1>2. CASE ~(config.ttl > 0)
    BY <1>2 DEF QuotaInv
  <1> QED BY <1>1, <1>2

LEMMA QuotaArrive ==
    ASSUME TypeOK, TypeOK', Answering, Quotas, NEW q \in Requests, NEW i \in Inputs, Arrive(q, i)
    PROVE  Quotas'
  <1> SUFFICES ASSUME NEW k \in Routes \X Addresses PROVE QuotaInv(k)'
    BY DEF Quotas
  <1>1. admitted[q] = -1 /\ UNCHANGED <<config, hits, admitted, now>>
    BY DEF Answering, AnswerInv, Arrive
  <1>2. Of(k)' = Of(k)
    BY <1>1 DEF Of, Arrive, TypeOK
  <1>3. now <= now' /\ QuotaInv(k)
    BY <1>1, CounterType DEF Quotas
  <1> QED BY <1>1, <1>2, <1>3, QuotaKept

\* The throttler counts a hit: only one within the limit passes.
LEMMA QuotaThrottle ==
    ASSUME TypeOK, TypeOK', Answering, Quotas, NEW q \in Requests, Throttle(q)
    PROVE  Quotas'
  <1> SUFFICES ASSUME NEW k \in Routes \X Addresses PROVE QuotaInv(k)'
    BY DEF Quotas
  <1> DEFINE own == <<asked[q].route, asked[q].peer>>
             h == Hit(hits[own])
  <1>1. /\ admitted[q] = -1 /\ UNCHANGED <<config, asked, now>> /\ asked[q] \in Inputs /\ own \in Routes \X Addresses
        /\ Tracker(asked[q]) # "throws" => Tracker(asked[q]) = asked[q].peer
    BY InputType DEF Answering, AnswerInv, Throttle, TypeOK, Tracker, Addresses
  <1>2. CASE UNCHANGED <<hits, admitted>>
    <2>1. Of(k)' = Of(k) /\ now <= now' /\ QuotaInv(k)
      BY <1>1, <1>2, CounterType DEF Quotas, Of
    <2> QED BY <1>1, <1>2, <2>1, QuotaKept
  <1>3. CASE config.ttl = 0
    BY <1>1, <1>3 DEF QuotaInv
  <1>4. CASE hits' = [hits EXCEPT ![own] = h] /\ config.ttl > 0
    <2>1. Hits(hits[own], h, config.ttl, now)
      BY <1>1, CounterType DEF Hits, Hit
    <2>2. CASE k # own /\ (admitted' = admitted \/ admitted' = [admitted EXCEPT ![q] = now])
      <3>1. hits'[k] = hits[k] /\ Of(k)' = Of(k) /\ \A p \in Of(k) : admitted'[p] = admitted[p]
        BY <1>1, <1>4, <2>2 DEF Of, TypeOK
      <3>2. Windows(Of(k), admitted', hits[k], config.limit, config.ttl, now)
        BY <1>4, <3>1 DEF Quotas, QuotaInv, Windows, Count, Between
      <3> QED BY <1>1, <3>1, <3>2 DEF QuotaInv
    <2>3. CASE k = own /\ admitted' = admitted
      <3>1. hits'[k] = h /\ Of(k)' = Of(k)
        BY <1>1, <1>4, <2>3 DEF Of, TypeOK
      <3>2. Windows(Of(k), admitted, h, config.limit, config.ttl, now)
        BY <1>1, <1>4, <2>1, <2>3, CounterType, WindowsRefuse DEF Quotas, QuotaInv
      <3> QED BY <1>1, <2>3, <3>1, <3>2 DEF QuotaInv
    <2>4. CASE k = own /\ admitted' = [admitted EXCEPT ![q] = now] /\ ~(now < h.blocked)
      <3>1. hits'[k] = h /\ admitted'[q] = now /\ q \notin Of(k) /\ \A p \in Of(k) : admitted'[p] = admitted[p]
        BY <1>1, <1>4, <2>4 DEF Of, TypeOK
      <3>2. Of(k)' = Of(k) \cup {q}
        <4>1. admitted'[q] # -1
          BY <3>1, CounterType
        <4>2. \A p \in Requests \ {q} : admitted'[p] = admitted[p]
          BY <2>4 DEF TypeOK
        <4> QED BY <1>1, <2>4, <4>1, <4>2 DEF Of
      <3>3. h.count <= config.limit
        BY <1>1, <1>4, <2>4, CounterType DEF Hit
      <3>4. Windows(Of(k) \cup {q}, admitted', h, config.limit, config.ttl, now)
        <4>1. Windows(Of(k), admitted, hits[k], config.limit, config.ttl, now)
          BY <1>4 DEF Quotas, QuotaInv
        <4>2. Hits(hits[k], h, config.ttl, now) /\ config.ttl \in Nat \ {0}
          BY <1>4, <2>1, <2>4, CounterType
        <4> HIDE DEF h, own
        <4> QED BY <3>1, <3>3, <4>1, <4>2, CounterType, WindowsPass
      <3> QED BY <1>1, <3>1, <3>2, <3>4 DEF QuotaInv
    <2> QED BY <1>1, <1>4, <2>2, <2>3, <2>4 DEF Throttle
  <1> QED BY <1>1, <1>2, <1>3, <1>4, CounterType DEF Throttle

LEMMA QuotaFollows == TypeOK /\ Quotas => QuotaPerPeer
  <1> SUFFICES ASSUME TypeOK, Quotas, config.ttl > 0, NEW p \in Requests
               PROVE  Cardinality({q \in Requests : /\ asked[q].route = asked[p].route
                                                    /\ asked[q].peer = asked[p].peer
                                                    /\ admitted[q] # -1 /\ admitted[p] # -1
                                                    /\ admitted[q] - admitted[p] \in 0..(config.ttl - 1)})
                          <= 2 * config.limit - 1
    BY DEF QuotaPerPeer
  <1> DEFINE k == <<asked[p].route, asked[p].peer>>
             near == {q \in Requests : /\ asked[q].route = asked[p].route
                                       /\ asked[q].peer = asked[p].peer
                                       /\ admitted[q] # -1 /\ admitted[p] # -1
                                       /\ admitted[q] - admitted[p] \in 0..(config.ttl - 1)}
  <1>1. k \in Routes \X Addresses
    BY InputType DEF TypeOK, Addresses
  <1>2. CASE admitted[p] = -1
    <2>1. near = {}
      BY <1>2
    <2>2. config.limit \in Nat \ {0}
      BY <1>1, CounterType
    <2> QED BY <2>1, <2>2, FS_EmptySet
  <1>3. CASE admitted[p] # -1
    <2>1. admitted[p] \in Nat
      BY <1>3 DEF TypeOK
    <2>2. near = Between(Of(k), admitted, admitted[p], admitted[p] + config.ttl)
      <3>1. config.ttl \in Nat /\ \A q \in Requests : admitted[q] \in Int
        BY <1>1, CounterType DEF TypeOK
      <3>2. \A q \in Requests : admitted[q] - admitted[p] \in 0..(config.ttl - 1)
                <=> admitted[p] <= admitted[q] /\ admitted[q] < admitted[p] + config.ttl
        BY <3>1
      <3> QED BY <1>3, <3>2 DEF Between, Of
    <2>3. Count(Of(k), admitted, admitted[p], admitted[p] + config.ttl) <= 2 * config.limit - 1
      BY <1>1, <2>1 DEF Quotas, QuotaInv, Windows
    <2> QED BY <2>2, <2>3 DEF Count
  <1> QED BY <1>2, <1>3

(* At most 2 * limit - 1 requests of one peer pass to a route's handler in *)
(* any ttl, however many clients the peer stands for and whatever they     *)
(* write into their headers.                                               *)
THEOREM QuotaHolds == Spec => []QuotaPerPeer
  <1>1. Init => Quotas
    <2> SUFFICES ASSUME Init, NEW k \in Routes \X Addresses PROVE QuotaInv(k)
      BY DEF Quotas
    <2>1. TypeOK /\ config.limit \in Nat \ {0} /\ config.ttl \in Nat
      BY TypeInit, CounterType
    <2>2. Of(k) = {} /\ hits[k].count = 0 /\ hits[k].expires = 0 /\ now = 0
      BY DEF Init, Of
    <2>3. \A from, to : Count({}, admitted, from, to) = 0
      BY CountNone DEF Between
    <2>4. IsFiniteSet({})
      BY FS_EmptySet
    <2> QED BY <2>1, <2>2, <2>3, <2>4 DEF QuotaInv, Windows
  <1>2. TypeOK /\ TypeOK' /\ Answering /\ Quotas /\ [Next]_vars => Quotas'
    <2> SUFFICES ASSUME TypeOK, TypeOK', Answering, Quotas, [Next]_vars PROVE Quotas'
      OBVIOUS
    <2>1. ASSUME NEW q \in Requests, NEW i \in Inputs, Arrive(q, i) PROVE Quotas'
      BY <2>1, QuotaArrive
    <2>2. ASSUME NEW q \in Requests, Throttle(q) PROVE Quotas'
      BY <2>2, QuotaThrottle
    <2>3. CASE UNCHANGED <<config, asked, admitted, hits>> /\ now <= now'
      BY <2>3, QuotaKept DEF Quotas, Of
    <2>4. CASE Tick
      BY <2>3, <2>4 DEF Tick, TypeOK
    <2>5. ASSUME NEW q \in Requests, Hook(q) \/ Guard(q) \/ Pipe(q) \/ Handle(q) PROVE Quotas'
      BY <2>3, <2>5 DEF Hook, Guard, Pipe, Handle, TypeOK
    <2>6. ASSUME NEW q \in Requests, NEW f \in Files, Put(q, f) PROVE Quotas'
      <3>1. now \in Nat /\ UNCHANGED <<config, asked, admitted, hits, now>>
        BY <2>6 DEF Put, Store, Refuse, TypeOK
      <3> QED BY <2>3, <3>1
    <2>7. CASE Crash \/ UNCHANGED vars
      BY <2>3, <2>7 DEF Crash, vars, TypeOK
    <2> QED BY <2>1, <2>2, <2>4, <2>5, <2>6, <2>7 DEF Next, Step
  <1> QED BY <1>1, <1>2, TypeCorrect, AnswersKept, QuotaFollows, PTL DEF Spec
-----------------------------------------------------------------------------
(* Fields.  A decorator's checks, seen as what they say together of a value *)
(* of any of its declarations: first each check, then what every kind takes*)
(* for good, then decorator by decorator, then what conversions and changes*)
(* make of what is sent.                                                   *)
LEMMA HoldsMeans ==
    ASSUME NEW n, NEW a, NEW e \in BOOLEAN, NEW v
    PROVE  Holds(Check(n, a, e), v) <=>
               IF e /\ IsList(v) THEN \A k \in DOMAIN v[2] : HoldsFor(n, a, v[2][k]) ELSE HoldsFor(n, a, v)
  <1>1. Check(n, a, e).name = n /\ Check(n, a, e).arg = a /\ Check(n, a, e).each = e
    BY DEF Check
  <1> QED BY <1>1 DEF Holds

LEMMA ChecksMean ==
    ASSUME NEW a, NEW v
    PROVE  /\ HoldsFor("NotNull", a, v) <=> v # Null
           /\ HoldsFor("IsDefined", a, v) <=> v \notin {Null, Undefined}
           /\ HoldsFor("IsNumber", a, v) <=> IsNumber(v)
           /\ HoldsFor("IsInt", a, v) <=> IsNumber(v) /\ v[2] % 2 = 0
           /\ HoldsFor("Min", a, v) <=> IsNumber(v) /\ v[2] >= 2 * a
           /\ HoldsFor("Max", a, v) <=> IsNumber(v) /\ v[2] <= 2 * a
           /\ HoldsFor("IsPositive", a, v) <=> IsNumber(v) /\ v[2] > 0
           /\ HoldsFor("IsString", a, v) <=> IsText(v)
           /\ HoldsFor("MinLength", a, v) <=> IsText(v) /\ Words[v[2]].length >= a
           /\ HoldsFor("MaxLength", a, v) <=> IsText(v) /\ Words[v[2]].length <= a
           /\ HoldsFor("IsBoolean", a, v) <=> v[1] = "boolean"
           /\ HoldsFor("IsDate", a, v) <=> v = Date
           /\ HoldsFor("IsEnum", a, v) <=> IsText(v) /\ v[2] \in a
           /\ HoldsFor("Looks", a, v) <=> Looks(v, a)
  BY DEF HoldsFor

LEMMA MoreChecksMean ==
    ASSUME NEW a, NEW v
    PROVE  /\ IsText(v) => (HoldsFor("IsPassword", a, v) <=> Looks(v, "allowed"))
           /\ HoldsFor("ValidateNested", a, v) <=>
                \/ v \in {Null, Undefined, Object}
                \/ IsList(v) /\ \A k \in DOMAIN v[2] : v[2][k] = Object
  BY DEF HoldsFor, IsText, IsList, Null, Undefined

\* Values of different types differ.
LEMMA Apart ==
    /\ Null[1] = "null" /\ Undefined[1] = "undefined" /\ Object[1] = "object" /\ Date[1] = "date"
    /\ Throws[1] = "throws" /\ NaN[1] = "not a number" /\ InvalidDate[1] = "invalid date"
    /\ \A x : Text(x)[1] = "text" /\ Number(x)[1] = "number" /\ Boolean(x)[1] = "boolean" /\ List(x)[1] = "list"
    /\ \A x : Text(x)[2] = x /\ Number(x)[2] = x /\ Boolean(x)[2] = x /\ List(x)[2] = x
  BY DEF Null, Undefined, Object, Date, Throws, NaN, InvalidDate, Text, Number, Boolean, List

\* The decorators' parts.
LEMMA FieldParts ==
    ASSUME NEW t, NEW ch, NEW o, NEW e, NEW cs
    PROVE  /\ Field(t, ch, o, e, cs).type = t /\ Field(t, ch, o, e, cs).changes = ch
           /\ Field(t, ch, o, e, cs).skips = Skipped(o)
           /\ Field(t, ch, o, e, cs).checks = cs \cup NotNull(o, e)
           /\ DOMAIN Field(t, ch, o, e, cs) = {"type", "changes", "skips", "checks"}
  BY DEF Field

LEMMA OptionalParts ==
    ASSUME NEW f, DOMAIN f = {"type", "changes", "skips", "checks"}
    PROVE  /\ Optional(f).type = f.type /\ Optional(f).changes = f.changes /\ Optional(f).checks = f.checks
           /\ Optional(f).skips = f.skips \cup {Null, Undefined}
           /\ DOMAIN Optional(f) = DOMAIN f
  <1> DEFINE skips == f.skips \cup {Null, Undefined}
  <1>1. Optional(f) = [f EXCEPT !.skips = skips]
    BY DEF Optional
  <1> HIDE DEF skips
  <1>2. /\ Optional(f).type = f.type /\ Optional(f).changes = f.changes /\ Optional(f).checks = f.checks
        /\ Optional(f).skips = skips
        /\ DOMAIN Optional(f) = DOMAIN f
    BY <1>1
  <1> QED BY <1>2 DEF skips

\* An optional field lets null and undefined through, and what it let through before.
LEMMA OptionalPasses ==
    ASSUME NEW f, DOMAIN f = {"type", "changes", "skips", "checks"}, NEW v, v # Throws
    PROVE  Passes(Optional(f), v) <=> v \in {Null, Undefined} \/ Passes(f, v)
  BY OptionalParts DEF Passes

\* What is asked of options: those the decorators read are of their types.
Optioned(o) ==
    /\ \A n \in {"nullable", "each", "int", "isPositive", "toLowerCase", "toUpperCase", "required"} :
            n \in DOMAIN o => o[n] \in BOOLEAN
    /\ "maxLength" \in DOMAIN o => o.maxLength \in 1..40
    /\ "minLength" \in DOMAIN o => o.minLength \in Nat
    /\ "minimum" \notin DOMAIN o

LEMMA OptionTypes ==
    ASSUME NEW o, Optioned(o), NEW b \in BOOLEAN
    PROVE  \A n \in {"nullable", "each", "int", "isPositive", "toLowerCase", "toUpperCase", "required"} :
               Opt(o, n, b) \in BOOLEAN
  BY DEF Opt, Optioned

\* What a field lets through apart from what it skips.
LEMMA SkipsMeans ==
    ASSUME NEW o, NEW v
    PROVE  v \in Skipped(o) <=> Opt(o, "nullable", FALSE) /\ v = Null
  BY DEF Skipped

LEMMA IfMeans ==
    ASSUME NEW c, NEW v
    PROVE  /\ \A d \in If(TRUE, c) : Holds(d, v) <=> Holds(c, v)
           /\ If(TRUE, c) = {c} /\ If(FALSE, c) = {}
  BY DEF If

LEMMA NotNullMeans ==
    ASSUME NEW o, Optioned(o), NEW e \in BOOLEAN, NEW v
    PROVE  (\A c \in NotNull(o, e) : Holds(c, v)) <=>
               \/ Opt(o, "nullable", FALSE)
               \/ IF e /\ IsList(v) THEN \A k \in DOMAIN v[2] : v[2][k] # Null ELSE v # Null
  <1>1. Opt(o, "nullable", FALSE) \in BOOLEAN
    BY OptionTypes
  <1>2. Holds(Check("NotNull", Null, e), v) <=>
            IF e /\ IsList(v) THEN \A k \in DOMAIN v[2] : v[2][k] # Null ELSE v # Null
    BY HoldsMeans, ChecksMean
  <1>3. CASE Opt(o, "nullable", FALSE)
    <2>1. NotNull(o, e) = {}
      BY <1>3 DEF NotNull, If
    <2> QED BY <1>3, <2>1
  <1>4. CASE ~Opt(o, "nullable", FALSE)
    <2>1. NotNull(o, e) = {Check("NotNull", Null, e)}
      BY <1>4 DEF NotNull, If
    <2> QED BY <1>2, <1>4, <2>1
  <1> QED BY <1>3, <1>4

\* One value of each kind.
LEMMA GoodNumber ==
    ASSUME NEW f, f.kind = "number", NEW x
    PROVE  Good(f, x) <=> /\ IsNumber(x)
                          /\ Opt(f.o, "int", FALSE) => x[2] % 2 = 0
                          /\ "min" \in DOMAIN f.o => x[2] >= 2 * f.o.min
                          /\ "max" \in DOMAIN f.o => x[2] <= 2 * f.o.max
                          /\ "minimum" \in DOMAIN f.o => x[2] >= 2 * f.o.minimum
                          /\ Opt(f.o, "isPositive", FALSE) => x[2] > 0
  BY DEF Good

LEMMA GoodText ==
    ASSUME NEW f, f.kind \in {"string", "password", "email", "url"}, NEW x
    PROVE  Good(f, x) <=> 
            /\ IsText(x) /\ Words[x[2]].length \in ShortestText(f)..Opt(f.o, "maxLength", 40)
            /\ Cased(f) => x[2] = IF Lower(f) THEN Words[x[2]].lower ELSE Words[x[2]].upper
            /\ f.kind = "password" => Looks(x, "allowed")
            /\ f.kind \in {"email", "url"} => Looks(x, f.kind)
  BY DEF Good

LEMMA GoodOther ==
    ASSUME NEW f, NEW x
    PROVE  /\ f.kind = "token" => (Good(f, x) <=> Looks(x, "jwt"))
           /\ f.kind = "uuid" => (Good(f, x) <=> Looks(x, "uuid"))
           /\ f.kind = "boolean" => (Good(f, x) <=> x \in {Boolean(TRUE), Boolean(FALSE)})
           /\ f.kind = "date" => (Good(f, x) <=> x = Date)
           /\ f.kind = "enum" => (Good(f, x) <=> x \in {Text(w) : w \in Opt(f.o, "enum", Enum)})
           /\ f.kind = "class" => (Good(f, x) <=> x = Object)
  BY DEF Good

\* Nothing good is null, undefined or a list.
LEMMA GoodApart ==
    ASSUME NEW f, f.kind \in Kinds, NEW x, Good(f, x)
    PROVE  x \notin {Null, Undefined} /\ ~IsList(x)
  <1>1. CASE f.kind = "number"
    <2>1. IsNumber(x)
      BY <1>1, GoodNumber
    <2> QED BY <2>1, Apart DEF IsNumber, IsList
  <1>2. CASE f.kind \in {"string", "password", "email", "url"}
    <2>1. IsText(x)
      BY <1>2, GoodText
    <2> QED BY <2>1, Apart DEF IsText, IsList
  <1>3. CASE f.kind \in {"token", "uuid"}
    <2>1. IsText(x)
      BY <1>3, GoodOther DEF Looks
    <2> QED BY <2>1, Apart DEF IsText, IsList
  <1>4. CASE f.kind \in {"boolean", "date", "enum", "class"}
    <2>1. x[1] \in {"boolean", "date", "text", "object"}
      <3>1. CASE f.kind = "boolean"
        <4>1. x = Boolean(TRUE) \/ x = Boolean(FALSE)
          BY <3>1, GoodOther
        <4>2. Boolean(TRUE)[1] = "boolean" /\ Boolean(FALSE)[1] = "boolean"
          BY DEF Boolean
        <4> QED BY <4>1, <4>2
      <3>2. CASE f.kind \in {"date", "class"}
        <4>1. x = Date \/ x = Object
          BY <3>2, GoodOther
        <4> QED BY <4>1 DEF Date, Object
      <3>3. CASE f.kind = "enum"
        <4>1. PICK w \in Opt(f.o, "enum", Enum) : x = Text(w)
          BY <3>3, GoodOther
        <4> QED BY <4>1 DEF Text
      <3> QED BY <1>4, <3>1, <3>2, <3>3
    <2> QED BY <2>1, Apart DEF IsList
  <1> QED BY <1>1, <1>2, <1>3, <1>4 DEF Kinds

LEMMA FieldPasses ==
    ASSUME NEW t, NEW ch, NEW o, Optioned(o), NEW e \in BOOLEAN, NEW cs, NEW v, v # Throws
    PROVE  Passes(Field(t, ch, o, e, cs), v) <=>
             \/ Opt(o, "nullable", FALSE) /\ v = Null
             \/ /\ \A c \in cs : Holds(c, v)
                /\ \/ Opt(o, "nullable", FALSE)
                   \/ IF e /\ IsList(v) THEN \A k \in DOMAIN v[2] : v[2][k] # Null ELSE v # Null
  <1> DEFINE field == Field(t, ch, o, e, cs)
  <1>1. field.skips = Skipped(o) /\ field.checks = cs \cup NotNull(o, e)
    BY FieldParts
  <1> HIDE DEF field
  <1>2. Passes(field, v) <=> \/ v \in Skipped(o)
                             \/ (\A c \in cs : Holds(c, v)) /\ (\A c \in NotNull(o, e) : Holds(c, v))
    BY <1>1 DEF Passes
  <1>3. v \in Skipped(o) <=> Opt(o, "nullable", FALSE) /\ v = Null
    <2>1. Opt(o, "nullable", FALSE) \in BOOLEAN
      BY OptionTypes
    <2> QED BY <2>1 DEF Skipped
  <1>4. (\A c \in NotNull(o, e) : Holds(c, v)) <=>
               \/ Opt(o, "nullable", FALSE)
               \/ IF e /\ IsList(v) THEN \A k \in DOMAIN v[2] : v[2][k] # Null ELSE v # Null
    BY NotNullMeans
  <1> QED BY <1>2, <1>3, <1>4 DEF field

LEMMA IfHolds ==
    ASSUME NEW P \in BOOLEAN, NEW c, NEW v
    PROVE  (\A d \in If(P, c) : Holds(d, v)) <=> (P => Holds(c, v))
  BY DEF If

\* All the checks of a field whose checks look at the values of a list one by one.
EachGood(f, v) ==
    IF Each(f.o) /\ IsList(v) THEN \A k \in DOMAIN v[2] : Good(f, v[2][k]) ELSE Good(f, v)

LEMMA EachPromised ==
    ASSUME NEW f, f.kind \in Kinds \ {"class"}, f.optional \in BOOLEAN, Optioned(f.o), NEW v, ~Cased(f) \/ v # Null
    PROVE  Promised(f, v) <=>
             \/ f.optional /\ v \in {Null, Undefined}
             \/ EachGood(f, v)
             \/ v = Null /\ Opt(f.o, "nullable", FALSE)
  <1>1. \A x : Good(f, x) => x \notin {Null, Undefined} /\ ~IsList(x)
    BY GoodApart
  <1>2. ~IsList(Null) /\ ~IsList(Undefined) /\ Null # Undefined
    BY Apart DEF IsList
  <1>3. CASE IsList(v)
    <2>1. v \notin {Null, Undefined}
      BY <1>2, <1>3
    <2> QED BY <1>1, <1>3, <2>1 DEF Promised, EachGood, Each
  <1>4. CASE ~IsList(v)
    BY <1>1, <1>2, <1>4 DEF Promised, EachGood, Each
  <1> QED BY <1>3, <1>4

LEMMA EachPasses ==
    ASSUME NEW f, f.kind \in Kinds \ {"class"}, f.optional \in BOOLEAN, Optioned(f.o),
           NEW v, v # Throws, ~Cased(f) \/ v # Null,
           NEW t, NEW ch, NEW o, Skipped(o) = Skipped(f.o), NEW e \in {Each(f.o), FALSE}, NEW cs,
           Opt(o, "nullable", FALSE) = Opt(f.o, "nullable", FALSE), Optioned(o),
           (\A c \in cs : Holds(c, v)) <=> EachGood(f, v)
    PROVE  Passes(IF f.optional THEN Optional(Field(t, ch, o, e, cs)) ELSE Field(t, ch, o, e, cs), v)
               <=> Promised(f, v)
  <1> DEFINE field == Field(t, ch, o, e, cs)
             null == Opt(f.o, "nullable", FALSE)
  <1>1. e \in BOOLEAN /\ Each(f.o) \in BOOLEAN /\ null \in BOOLEAN
    <2>1. \A n \in {"nullable", "each"} : Opt(f.o, n, FALSE) \in BOOLEAN
      BY OptionTypes
    <2> QED BY <2>1 DEF Each
  <1>2. DOMAIN field = {"type", "changes", "skips", "checks"}
    BY FieldParts
  <1>3. Passes(field, v) <=>
             \/ null /\ v = Null
             \/ /\ \A c \in cs : Holds(c, v)
                /\ null \/ IF e /\ IsList(v) THEN \A k \in DOMAIN v[2] : v[2][k] # Null ELSE v # Null
    BY <1>1, FieldPasses
  <1> HIDE DEF field, null
  <1>4. Passes(IF f.optional THEN Optional(field) ELSE field, v)
            <=> \/ f.optional /\ v \in {Null, Undefined}
                \/ Passes(field, v)
    <2>1. CASE f.optional
      BY <1>2, <2>1, OptionalPasses
    <2>2. CASE ~f.optional
      BY <2>2
    <2> QED BY <2>1, <2>2
  <1>5. Promised(f, v) <=>
             \/ f.optional /\ v \in {Null, Undefined}
             \/ EachGood(f, v)
             \/ v = Null /\ null
    BY EachPromised DEF null
  <1>6. EachGood(f, v) => IF e /\ IsList(v) THEN \A k \in DOMAIN v[2] : v[2][k] # Null ELSE v # Null
    <2>1. \A x : Good(f, x) => x # Null /\ ~IsList(x)
      BY GoodApart
    <2>2. IsList(v) => v # Null
      BY Apart DEF IsList
    <2> QED BY <1>1, <2>1, <2>2 DEF EachGood
  <1> QED BY <1>1, <1>3, <1>4, <1>5, <1>6 DEF field

LEMMA NumberPasses ==
    ASSUME NEW f, f.kind = "number", f.optional \in BOOLEAN, Optioned(f.o), NEW v, v # Throws
    PROVE  Passes(IF f.optional THEN NumberFieldOptional(f.o) ELSE NumberField(f.o), v) <=> Promised(f, v)
  <1> DEFINE o == f.o
             e == Each(o)
             least == "min" \in DOMAIN o
             most == "max" \in DOMAIN o
             positive == Opt(o, "isPositive", FALSE)
             kind == IF Opt(o, "int", FALSE) THEN "IsInt" ELSE "IsNumber"
             cs == {Check(kind, 0, e)}
                    \cup If(least, Check("Min", Opt(o, "min", 0), e))
                    \cup If(most, Check("Max", Opt(o, "max", 0), e))
                    \cup If(positive, Check("IsPositive", 0, e))
             One(x) == /\ HoldsFor(kind, 0, x)
                       /\ least => HoldsFor("Min", Opt(o, "min", 0), x)
                       /\ most => HoldsFor("Max", Opt(o, "max", 0), x)
                       /\ positive => HoldsFor("IsPositive", 0, x)
  <1>1. /\ e \in BOOLEAN /\ positive \in BOOLEAN /\ Opt(o, "int", FALSE) \in BOOLEAN
        /\ least \in BOOLEAN /\ most \in BOOLEAN
    <2>1. \A n \in {"each", "int", "isPositive"} : Opt(o, n, FALSE) \in BOOLEAN
      BY OptionTypes
    <2>2. least \in BOOLEAN /\ most \in BOOLEAN
      OBVIOUS
    <2> HIDE DEF least, most
    <2> QED BY <2>1, <2>2 DEF Each
  <1>2. NumberField(o) = Field("Number", <<>>, o, e, cs)
    BY DEF NumberField
  <1>3. \A x : Good(f, x) <=> One(x)
    <2>1. least => Opt(o, "min", 0) = o.min
      BY DEF Opt
    <2>2. most => Opt(o, "max", 0) = o.max
      BY DEF Opt
    <2>3. \A x : HoldsFor(kind, 0, x) <=> IsNumber(x) /\ (Opt(o, "int", FALSE) => x[2] % 2 = 0)
      <3>1. CASE Opt(o, "int", FALSE)
        BY <3>1, ChecksMean
      <3>2. CASE ~Opt(o, "int", FALSE)
        BY <3>2, ChecksMean
      <3> QED BY <3>1, <3>2
    <2> HIDE DEF kind
    <2> SUFFICES ASSUME NEW x PROVE Good(f, x) <=> One(x)
      OBVIOUS
    <2>4. least => (HoldsFor("Min", Opt(o, "min", 0), x) <=> IsNumber(x) /\ x[2] >= 2 * o.min)
      BY <2>1, ChecksMean
    <2>5. most => (HoldsFor("Max", Opt(o, "max", 0), x) <=> IsNumber(x) /\ x[2] <= 2 * o.max)
      BY <2>2, ChecksMean
    <2>6. HoldsFor("IsPositive", 0, x) <=> IsNumber(x) /\ x[2] > 0
      BY ChecksMean
    <2>7. "minimum" \notin DOMAIN f.o
      BY DEF Optioned
    <2> QED BY <2>3, <2>4, <2>5, <2>6, <2>7, GoodNumber
  <1>4. f.kind \in Kinds \ {"class"} /\ ~Cased(f) /\ Optioned(o)
    BY DEF Kinds, Cased
  <1> HIDE DEF least, most, positive, kind
  <1>5. (\A c \in cs : Holds(c, v)) <=>
               /\ Holds(Check(kind, 0, e), v)
               /\ least => Holds(Check("Min", Opt(o, "min", 0), e), v)
               /\ most => Holds(Check("Max", Opt(o, "max", 0), e), v)
               /\ positive => Holds(Check("IsPositive", 0, e), v)
    <2> HIDE DEF o, e
    <2> QED BY <1>1, IfHolds
  <1> HIDE DEF cs
  <1>6. (\A c \in cs : Holds(c, v)) <=> EachGood(f, v)
    <2>1. CASE IsList(v) /\ e
      BY <1>1, <1>3, <1>5, <2>1, HoldsMeans DEF EachGood
    <2>2. CASE ~(IsList(v) /\ e)
      BY <1>1, <1>3, <1>5, <2>2, HoldsMeans DEF EachGood
    <2> QED BY <2>1, <2>2
  <1> QED BY <1>2, <1>4, <1>6, EachPasses DEF NumberFieldOptional

\* A value made of the words and types there are.
Formed(x) ==
    /\ IsText(x) => x[2] \in DOMAIN Words /\ x = Text(x[2])
    /\ x[1] = "boolean" => x \in {Boolean(TRUE), Boolean(FALSE)}
WellFormed(v) == Formed(v) /\ (IsList(v) => \A k \in DOMAIN v[2] : Formed(v[2][k]))

\* One check that is told of each and says what is good.
LEMMA OneCheck ==
    ASSUME NEW f, Each(f.o) \in BOOLEAN, NEW n, NEW a, NEW v,
           \A x : Formed(x) => (Good(f, x) <=> HoldsFor(n, a, x)), WellFormed(v)
    PROVE  (\A c \in {Check(n, a, Each(f.o))} : Holds(c, v)) <=> EachGood(f, v)
  BY HoldsMeans DEF EachGood, WellFormed

LEMMA UncasedPasses ==
    ASSUME NEW f, f.kind \in Kinds \ {"class", "string", "password", "email", "url"}, f.optional \in BOOLEAN,
           Optioned(f.o), NEW v, v # Throws, WellFormed(v), NEW n, NEW a,
           \A x : Formed(x) => (Good(f, x) <=> HoldsFor(n, a, x)),
           NEW t, NEW ch, NEW o, Optioned(o), Opt(o, "nullable", FALSE) = Opt(f.o, "nullable", FALSE),
           NEW e \in {Each(f.o), FALSE}
    PROVE  LET field == Field(t, ch, o, e, {Check(n, a, Each(f.o))})
           IN  Passes(IF f.optional THEN Optional(field) ELSE field, v) <=> Promised(f, v)
  <1> DEFINE cs == {Check(n, a, Each(f.o))}
  <1>1. (\A c \in cs : Holds(c, v)) <=> EachGood(f, v)
    <2>1. Each(f.o) \in BOOLEAN
      BY OptionTypes DEF Each
    <2> QED BY <2>1, OneCheck
  <1>2. ~Cased(f) /\ Skipped(o) = Skipped(f.o)
    BY DEF Cased, Skipped
  <1> HIDE DEF cs
  <1>3. Passes(IF f.optional THEN Optional(Field(t, ch, o, e, cs)) ELSE Field(t, ch, o, e, cs), v)
            <=> Promised(f, v)
    BY <1>1, <1>2, EachPasses
  <1> QED BY <1>3 DEF cs

\* The field of a declaration, but for the kinds that have lemmas of their own.
LEMMA TokenPasses ==
    ASSUME NEW f, f.kind = "token", f.optional = FALSE, Optioned(f.o), NEW v, v # Throws, WellFormed(v)
    PROVE  Passes(TokenField(f.o), v) <=> Promised(f, v)
  <1>1. \A x : Good(f, x) <=> HoldsFor("Looks", "jwt", x)
    BY GoodOther, ChecksMean
  <1>2. f.kind \in Kinds \ {"class", "string", "password", "email", "url"} /\ Each(f.o) \in {Each(f.o), FALSE}
    BY DEF Kinds
  <1> QED BY <1>1, <1>2, UncasedPasses DEF TokenField

LEMMA UuidPasses ==
    ASSUME NEW f, f.kind = "uuid", f.optional \in BOOLEAN, Optioned(f.o), NEW v, v # Throws, WellFormed(v)
    PROVE  Passes(IF f.optional THEN UUIDFieldOptional(f.o) ELSE UUIDField(f.o), v) <=> Promised(f, v)
  <1>1. \A x : Good(f, x) <=> HoldsFor("Looks", "uuid", x)
    BY GoodOther, ChecksMean
  <1>2. f.kind \in Kinds \ {"class", "string", "password", "email", "url"} /\ FALSE \in {Each(f.o), FALSE}
    BY DEF Kinds
  <1> QED BY <1>1, <1>2, UncasedPasses DEF UUIDField, UUIDFieldOptional

\* The options of an enum may name it, those of its decorator need not.
LEMMA EnumPasses ==
    ASSUME NEW f, f.kind = "enum", f.optional \in BOOLEAN, Optioned(f.o), NEW v, v # Throws, WellFormed(v),
           NEW o, Optioned(o), Opt(o, "nullable", FALSE) = Opt(f.o, "nullable", FALSE), Each(o) = Each(f.o),
           NEW enum, enum = Opt(f.o, "enum", Enum)
    PROVE  Passes(IF f.optional THEN EnumFieldOptional(enum, o) ELSE EnumField(enum, o), v) <=> Promised(f, v)
  <1>1. ASSUME NEW x, Formed(x) PROVE Good(f, x) <=> HoldsFor("IsEnum", enum, x)
    <2>1. Good(f, x) <=> x \in {Text(w) : w \in enum}
      BY GoodOther
    <2>2. HoldsFor("IsEnum", enum, x) <=> IsText(x) /\ x[2] \in enum
      BY ChecksMean
    <2>3. \A w : IsText(Text(w)) /\ Text(w)[2] = w
      BY Apart DEF IsText
    <2> QED BY <1>1, <2>1, <2>2, <2>3 DEF Formed
  <1>2. f.kind \in Kinds \ {"class", "string", "password", "email", "url"} /\ FALSE \in {Each(f.o), FALSE}
    BY DEF Kinds
  <1>3. EnumField(enum, o) = Field("any", <<>>, o, FALSE, {Check("IsEnum", enum, Each(f.o))})
    BY DEF EnumField
  <1>4. Passes(IF f.optional THEN Optional(EnumField(enum, o)) ELSE EnumField(enum, o), v) <=> Promised(f, v)
    <2> DEFINE Agree(x) == Good(f, x) <=> HoldsFor("IsEnum", enum, x)
    <2>1. \A x : Formed(x) => Agree(x)
      BY <1>1
    <2>2. LET field == Field("any", <<>>, o, FALSE, {Check("IsEnum", enum, Each(f.o))})
          IN  Passes(IF f.optional THEN Optional(field) ELSE field, v) <=> Promised(f, v)
      BY <2>1, <1>2, UncasedPasses
    <2> QED BY <2>2, <1>3
  <1> QED BY <1>4 DEF EnumFieldOptional

LEMMA BooleanPasses ==
    ASSUME NEW f, f.kind = "boolean", f.optional \in BOOLEAN, Optioned(f.o), ~Each(f.o),
           NEW v, v # Throws, WellFormed(v)
    PROVE  Passes(IF f.optional THEN BooleanFieldOptional(f.o) ELSE BooleanField(f.o), v) <=> Promised(f, v)
  <1>1. ASSUME NEW x, Formed(x) PROVE Good(f, x) <=> HoldsFor("IsBoolean", 0, x)
    <2>1. Good(f, x) <=> x \in {Boolean(TRUE), Boolean(FALSE)}
      BY GoodOther
    <2>2. HoldsFor("IsBoolean", 0, x) <=> x[1] = "boolean"
      BY ChecksMean
    <2>3. Boolean(TRUE)[1] = "boolean" /\ Boolean(FALSE)[1] = "boolean"
      BY DEF Boolean
    <2> QED BY <1>1, <2>1, <2>2, <2>3 DEF Formed
  <1>2. f.kind \in Kinds \ {"class", "string", "password", "email", "url"} /\ Each(f.o) = FALSE
    <2>1. Each(f.o) \in BOOLEAN
      BY OptionTypes DEF Each
    <2> QED BY <2>1 DEF Kinds
  <1>3. BooleanField(f.o) = Field("any", <<"toBoolean">>, f.o, FALSE, {Check("IsBoolean", 0, Each(f.o))})
    BY <1>2 DEF BooleanField
  <1> QED BY <1>1, <1>2, <1>3, UncasedPasses DEF BooleanFieldOptional

LEMMA DatePasses ==
    ASSUME NEW f, f.kind = "date", f.optional \in BOOLEAN, Optioned(f.o), ~Each(f.o),
           NEW v, v # Throws, WellFormed(v)
    PROVE  Passes(IF f.optional THEN DateFieldOptional(f.o) ELSE DateField(f.o), v) <=> Promised(f, v)
  <1>1. ASSUME NEW x PROVE Good(f, x) <=> HoldsFor("IsDate", 0, x)
    <2>1. Good(f, x) <=> x = Date
      BY GoodOther
    <2>2. HoldsFor("IsDate", 0, x) <=> x = Date
      BY ChecksMean
    <2> QED BY <2>1, <2>2
  <1>2. f.kind \in Kinds \ {"class", "string", "password", "email", "url"} /\ Each(f.o) = FALSE
    <2>1. Each(f.o) \in BOOLEAN
      BY OptionTypes DEF Each
    <2> QED BY <2>1 DEF Kinds
  <1>3. DateField(f.o) = Field("Date", <<>>, f.o, FALSE, {Check("IsDate", 0, Each(f.o))})
    BY <1>2 DEF DateField
  <1> QED BY <1>1, <1>2, <1>3, UncasedPasses DEF DateFieldOptional

\* Texts.
TextKinds == {"string", "password", "email", "url"}

LEMMA WordLengths ==
    \A w \in DOMAIN Words : Words[w].length \in 0..40 /\ (Words[w].length = 0 <=> w = "none")
  BY DEF Words, Word

\* What has been done to a value of a field that changes the case.
CaseChanged(f, v) ==
    Cased(f) => /\ v # Null /\ v # Text("none")
                /\ IsText(v) => v[2] = IF Lower(f) THEN Words[v[2]].lower ELSE Words[v[2]].upper

Extra(f) ==
    CASE f.kind = "password" -> {Check("IsPassword", 0, FALSE)}
      [] f.kind = "email" -> {Check("Looks", "email", FALSE)}
      [] f.kind = "url" -> {Check("Looks", "url", TRUE)}
      [] f.kind = "string" -> {}

ExtraHolds(f, x) ==
    /\ f.kind = "password" => Looks(x, "allowed")
    /\ f.kind \in {"email", "url"} => Looks(x, f.kind)

\* The least length of a field's check: a text that keeps one is never empty.
MinFits(f, min) == min \in Nat /\ (min = ShortestText(f) \/ (Cased(f) /\ min = 0 /\ ShortestText(f) = 1))

LEMMA TextGood ==
    ASSUME NEW f, f.kind \in TextKinds, Optioned(f.o), NEW x, Formed(x), CaseChanged(f, x),
           NEW min, MinFits(f, min)
    PROVE  Good(f, x) <=>
             /\ IsText(x) /\ Words[x[2]].length >= min
             /\ Opt(f.o, "maxLength", 0) # 0 => Words[x[2]].length <= Opt(f.o, "maxLength", 0)
             /\ ExtraHolds(f, x)
  <1> DEFINE long == Opt(f.o, "maxLength", 0)
             top == Opt(f.o, "maxLength", 40)
             least == ShortestText(f)
  <1>1. top \in Nat /\ long \in Nat /\ (IF long # 0 THEN top = long ELSE top = 40)
    BY DEF Opt, Optioned
  <1>2. Good(f, x) <=>
            /\ IsText(x) /\ Words[x[2]].length \in least..top
            /\ Cased(f) => x[2] = IF Lower(f) THEN Words[x[2]].lower ELSE Words[x[2]].upper
            /\ f.kind = "password" => Looks(x, "allowed")
            /\ f.kind \in {"email", "url"} => Looks(x, f.kind)
    BY GoodText DEF TextKinds
  <1>3. CASE IsText(x)
    <2>1. x[2] \in DOMAIN Words /\ x = Text(x[2])
      BY <1>3 DEF Formed
    <2>2. Words[x[2]].length \in 0..40 /\ (Words[x[2]].length = 0 <=> x[2] = "none")
      BY <2>1, WordLengths
    <2>3. Words[x[2]].length \in least..top <=>
            Words[x[2]].length >= min /\ (long # 0 => Words[x[2]].length <= long)
      <3> DEFINE n == Words[x[2]].length
      <3>1. n \in 0..40 /\ (n = 0 => ~Cased(f))
        BY <2>1, <2>2 DEF CaseChanged
      <3>2. min \in Nat /\ (min = least \/ (Cased(f) /\ min = 0 /\ least = 1))
        BY DEF MinFits
      <3> HIDE DEF n, long, top, least
      <3> QED BY <1>1, <3>1, <3>2 DEF n
    <2>4. Cased(f) => x[2] = IF Lower(f) THEN Words[x[2]].lower ELSE Words[x[2]].upper
      BY <1>3 DEF CaseChanged
    <2> QED BY <1>2, <1>3, <2>3, <2>4 DEF ExtraHolds
  <1>4. CASE ~IsText(x)
    BY <1>2, <1>4
  <1> QED BY <1>3, <1>4

LEMMA ExtraMeans ==
    ASSUME NEW f, f.kind \in TextKinds, NEW v
    PROVE  /\ ~IsList(v) /\ IsText(v) => ((\A c \in Extra(f) : Holds(c, v)) <=> ExtraHolds(f, v))
           /\ IsList(v) /\ f.kind \in {"string", "url"} =>
                ((\A c \in Extra(f) : Holds(c, v)) <=> \A k \in DOMAIN v[2] : ExtraHolds(f, v[2][k]))
  <1>1. CASE f.kind = "string"
    BY <1>1 DEF Extra, ExtraHolds
  <1>2. CASE f.kind = "password"
    <2>1. Extra(f) = {Check("IsPassword", 0, FALSE)}
      BY <1>2 DEF Extra
    <2>2. Holds(Check("IsPassword", 0, FALSE), v) <=> HoldsFor("IsPassword", 0, v)
      BY HoldsMeans
    <2>3. IsText(v) => (Holds(Check("IsPassword", 0, FALSE), v) <=> Looks(v, "allowed"))
      BY <2>2, MoreChecksMean
    <2>4. ExtraHolds(f, v) <=> Looks(v, "allowed")
      BY <1>2 DEF ExtraHolds
    <2> QED BY <1>2, <2>1, <2>3, <2>4
  <1>3. CASE f.kind = "email"
    <2>1. Extra(f) = {Check("Looks", "email", FALSE)}
      BY <1>3 DEF Extra
    <2>2. Holds(Check("Looks", "email", FALSE), v) <=> HoldsFor("Looks", "email", v)
      BY HoldsMeans
    <2>3. Holds(Check("Looks", "email", FALSE), v) <=> Looks(v, "email")
      BY <2>2, ChecksMean
    <2>4. ExtraHolds(f, v) <=> Looks(v, "email")
      BY <1>3 DEF ExtraHolds
    <2> QED BY <1>3, <2>1, <2>3, <2>4
  <1>4. CASE f.kind = "url"
    <2>1. Extra(f) = {Check("Looks", "url", TRUE)}
      BY <1>4 DEF Extra
    <2>2. Holds(Check("Looks", "url", TRUE), v) <=>
            IF IsList(v) THEN \A k \in DOMAIN v[2] : HoldsFor("Looks", "url", v[2][k]) ELSE HoldsFor("Looks", "url", v)
      BY HoldsMeans
    <2>3. \A x : HoldsFor("Looks", "url", x) <=> Looks(x, "url")
      BY ChecksMean
    <2>4. \A x : ExtraHolds(f, x) <=> Looks(x, "url")
      BY <1>4 DEF ExtraHolds
    <2> QED BY <1>4, <2>1, <2>2, <2>3, <2>4
  <1> QED BY <1>1, <1>2, <1>3, <1>4 DEF TextKinds

TextChecks(f, min) ==
    {Check("IsString", 0, Each(f.o)), Check("MinLength", min, Each(f.o))}
    \cup If(Opt(f.o, "maxLength", 0) # 0, Check("MaxLength", Opt(f.o, "maxLength", 0), Each(f.o)))

LEMMA TextHolds ==
    ASSUME NEW f, f.kind \in TextKinds, Optioned(f.o), Each(f.o) => f.kind \in {"string", "url"} /\ ~Cased(f),
           NEW v, WellFormed(v), CaseChanged(f, v), NEW min, MinFits(f, min)
    PROVE  (\A c \in TextChecks(f, min) \cup Extra(f) : Holds(c, v)) <=> EachGood(f, v)
  <1> DEFINE e == Each(f.o)
             long == Opt(f.o, "maxLength", 0)
             bound == long # 0
             One(x) == /\ IsText(x) /\ Words[x[2]].length >= min
                       /\ bound => Words[x[2]].length <= long
  <1>1. e \in BOOLEAN
    BY OptionTypes DEF Each
  <1>2. (\A c \in TextChecks(f, min) \cup Extra(f) : Holds(c, v)) <=>
            /\ Holds(Check("IsString", 0, e), v) /\ Holds(Check("MinLength", min, e), v)
            /\ bound => Holds(Check("MaxLength", long, e), v)
            /\ \A c \in Extra(f) : Holds(c, v)
    <2>1. bound \in BOOLEAN
      OBVIOUS
    <2>2. TextChecks(f, min) =
            {Check("IsString", 0, e), Check("MinLength", min, e)} \cup If(bound, Check("MaxLength", long, e))
      BY DEF TextChecks
    <2> HIDE DEF bound, e, long
    <2> QED BY <2>1, <2>2, IfHolds
  <1>3. ASSUME NEW x, Formed(x), CaseChanged(f, x) PROVE Good(f, x) <=> One(x) /\ ExtraHolds(f, x)
    BY <1>3, TextGood
  <1>4. CASE IsList(v) /\ e
    <2>1. \A k \in DOMAIN v[2] : Formed(v[2][k]) /\ CaseChanged(f, v[2][k])
      BY <1>4 DEF WellFormed, CaseChanged
    <2>2. EachGood(f, v) <=> \A k \in DOMAIN v[2] : One(v[2][k]) /\ ExtraHolds(f, v[2][k])
      BY <1>3, <1>4, <2>1 DEF EachGood
    <2>3. (\A c \in Extra(f) : Holds(c, v)) <=> \A k \in DOMAIN v[2] : ExtraHolds(f, v[2][k])
      BY <1>4, ExtraMeans
    <2>4. /\ Holds(Check("IsString", 0, e), v) <=> \A k \in DOMAIN v[2] : IsText(v[2][k])
          /\ Holds(Check("MinLength", min, e), v) <=>
                \A k \in DOMAIN v[2] : IsText(v[2][k]) /\ Words[v[2][k][2]].length >= min
          /\ Holds(Check("MaxLength", long, e), v) <=>
                \A k \in DOMAIN v[2] : IsText(v[2][k]) /\ Words[v[2][k][2]].length <= long
      <3> HIDE DEF e, long
      <3>1. \A n, a : Holds(Check(n, a, e), v) <=> \A k \in DOMAIN v[2] : HoldsFor(n, a, v[2][k])
        BY <1>1, <1>4, HoldsMeans
      <3>2. \A a, x : /\ HoldsFor("IsString", a, x) <=> IsText(x)
                      /\ HoldsFor("MinLength", a, x) <=> IsText(x) /\ Words[x[2]].length >= a
                      /\ HoldsFor("MaxLength", a, x) <=> IsText(x) /\ Words[x[2]].length <= a
        BY ChecksMean
      <3> QED BY <3>1, <3>2
    <2> HIDE DEF e, long, bound
    <2> QED BY <1>2, <2>2, <2>3, <2>4
  <1>5. CASE ~(IsList(v) /\ e)
    <2>1. /\ Holds(Check("IsString", 0, e), v) <=> IsText(v)
          /\ Holds(Check("MinLength", min, e), v) <=> IsText(v) /\ Words[v[2]].length >= min
          /\ Holds(Check("MaxLength", long, e), v) <=> IsText(v) /\ Words[v[2]].length <= long
      <3> HIDE DEF e, long
      <3> QED BY <1>1, <1>5, HoldsMeans, ChecksMean
    <2>2. EachGood(f, v) <=> One(v) /\ ExtraHolds(f, v)
      BY <1>3, <1>5 DEF EachGood, WellFormed
    <2>3. IsText(v) => ((\A c \in Extra(f) : Holds(c, v)) <=> ExtraHolds(f, v))
      BY ExtraMeans, Apart DEF IsText, IsList
    <2> HIDE DEF e, long, bound
    <2> QED BY <1>2, <2>1, <2>2, <2>3
  <1> QED BY <1>4, <1>5

\* The checks a decorator adds to those of the text field it is made of.
Checking(field, checks) == [field EXCEPT !.checks = checks]

Adds(base, field, t, ch, o, e, cs, more) ==
    base = Field(t, ch, o, e, cs) /\ field = Field(t, ch, o, e, cs \cup more)

LEMMA AddChecks ==
    ASSUME NEW base, NEW field, NEW t, NEW ch, NEW o, NEW e, NEW cs, NEW more,
           Adds(base, field, t, ch, o, e, cs, more)
    PROVE  /\ Checking(base, base.checks \cup more) = field
           /\ Checking(base, base.checks \cup more \cup NotNull(o, e)) = field
  <1> DEFINE all == (cs \cup more) \cup NotNull(o, e)
  <1>1. base = [type |-> t, changes |-> ch, skips |-> Skipped(o), checks |-> cs \cup NotNull(o, e)]
    BY DEF Field, Adds
  <1>2. field = [type |-> t, changes |-> ch, skips |-> Skipped(o), checks |-> all]
    BY DEF Field, Adds
  <1>3. base.checks \cup more = all /\ (base.checks \cup more) \cup NotNull(o, e) = all
    BY <1>1
  <1>4. Checking(base, all) = [type |-> t, changes |-> ch, skips |-> Skipped(o), checks |-> all]
    <2> HIDE DEF all
    <2> QED BY <1>1 DEF Checking
  <1> QED BY <1>2, <1>3, <1>4

Changes(o) ==
    (IF Opt(o, "toLowerCase", FALSE) THEN <<"toLowerCase">> ELSE <<>>)
    \o (IF Opt(o, "toUpperCase", FALSE) THEN <<"toUpperCase">> ELSE <<>>)

\* Options that agree on what a text field reads but for the case.
LEMMA TextField ==
    ASSUME NEW f, f.kind \in TextKinds, f.optional \in BOOLEAN, Optioned(f.o),
           Each(f.o) => f.kind \in {"string", "url"} /\ ~Cased(f),
           NEW v, v # Throws, WellFormed(v), CaseChanged(f, v), NEW min, MinFits(f, min),
           NEW ch, NEW o, Optioned(o), Opt(o, "nullable", FALSE) = Opt(f.o, "nullable", FALSE),
           NEW field, field = Field("String", ch, o, Each(f.o), TextChecks(f, min) \cup Extra(f))
    PROVE  Passes(IF f.optional THEN Optional(field) ELSE field, v) <=> Promised(f, v)
  <1> DEFINE cs == TextChecks(f, min) \cup Extra(f)
  <1>1. (\A c \in cs : Holds(c, v)) <=> EachGood(f, v)
    BY TextHolds
  <1>2. Skipped(o) = Skipped(f.o)
    BY DEF Skipped
  <1>3. ~Cased(f) \/ v # Null
    BY DEF CaseChanged
  <1>4. f.kind \in Kinds \ {"class"}
    BY DEF TextKinds, Kinds
  <1>5. Each(f.o) \in {Each(f.o), FALSE}
    OBVIOUS
  <1> HIDE DEF cs
  <1> QED BY <1>1, <1>2, <1>3, <1>4, <1>5, EachPasses DEF cs

LEMMA StringPasses ==
    ASSUME NEW f, f.kind = "string", f.optional \in BOOLEAN, Optioned(f.o), Each(f.o) => ~Cased(f),
           NEW v, v # Throws, WellFormed(v), CaseChanged(f, v),
           NEW o, Optioned(o), Opt(o, "nullable", FALSE) = Opt(f.o, "nullable", FALSE), Each(o) = Each(f.o),
           Opt(o, "maxLength", 0) = Opt(f.o, "maxLength", 0),
           \A n \in {0, 1} : Opt(o, "minLength", n) = Opt(f.o, "minLength", n)
    PROVE  Passes(IF f.optional THEN StringFieldOptional(o) ELSE StringField(o), v) <=> Promised(f, v)
  <1> DEFINE min == Opt(o, "minLength", IF f.optional THEN 0 ELSE 1)
             field == StringFieldOf(o, min)
  <1>1. MinFits(f, min)
    <2>1. ShortestText(f) = IF Cased(f) THEN IF Opt(f.o, "minLength", 1) = 0 THEN 1 ELSE Opt(f.o, "minLength", 1)
                            ELSE Opt(f.o, "minLength", IF f.optional THEN 0 ELSE 1)
      BY DEF ShortestText
    <2>2. min = Opt(f.o, "minLength", IF f.optional THEN 0 ELSE 1)
      OBVIOUS
    <2>3. min \in Nat /\ Opt(f.o, "minLength", 1) \in Nat
          /\ (min = Opt(f.o, "minLength", 1) \/ (min = 0 /\ Opt(f.o, "minLength", 1) = 1))
      BY <2>2 DEF Opt, Optioned
    <2> HIDE DEF min
    <2> QED BY <2>1, <2>2, <2>3 DEF MinFits
  <1>2. field = Field("String", Changes(o), o, Each(f.o), TextChecks(f, min) \cup Extra(f))
    <2>1. Extra(f) = {}
      BY DEF Extra
    <2>2. TextChecks(f, min) \cup {} = TextChecks(f, min)
      OBVIOUS
    <2> QED BY <2>1, <2>2 DEF StringFieldOf, TextChecks, Changes
  <1>3. (IF f.optional THEN StringFieldOptional(o) ELSE StringField(o)) = IF f.optional THEN Optional(field) ELSE field
    BY DEF StringFieldOptional, StringField
  <1>4. f.kind \in TextKinds /\ (Each(f.o) => f.kind \in {"string", "url"} /\ ~Cased(f))
    BY DEF TextKinds
  <1> HIDE DEF field, min
  <1>5. Passes(IF f.optional THEN Optional(field) ELSE field, v) <=> Promised(f, v)
    BY <1>1, <1>2, <1>4, TextField
  <1> QED BY <1>3, <1>5

LEMMA PasswordPasses ==
    ASSUME NEW f, f.kind = "password", f.optional \in BOOLEAN, Optioned(f.o), ~Each(f.o),
           NEW v, v # Throws, WellFormed(v), CaseChanged(f, v)
    PROVE  Passes(IF f.optional THEN PasswordFieldOptional(f.o) ELSE PasswordField(f.o), v) <=> Promised(f, v)
  <1> DEFINE cs == TextChecks(f, 6)
             field == Field("String", Changes(f.o), f.o, FALSE, cs \cup Extra(f))
  <1>1. Each(f.o) = FALSE
    BY OptionTypes DEF Each
  <1>2. StringFieldOf(f.o, 6) = Field("String", Changes(f.o), f.o, FALSE, cs)
    BY <1>1 DEF StringFieldOf, TextChecks, Changes
  <1>3. PasswordField(f.o) = field
    <2>1. Extra(f) = {Check("IsPassword", 0, FALSE)}
      BY DEF Extra
    <2> DEFINE base == StringFieldOf(f.o, 6)
    <2>2. PasswordField(f.o) = Checking(base, base.checks \cup Extra(f) \cup NotNull(f.o, FALSE))
      BY <2>1 DEF PasswordField, Checking
    <2>3. base = Field("String", Changes(f.o), f.o, FALSE, cs)
      BY <1>2
    <2>0. field = Field("String", Changes(f.o), f.o, FALSE, cs \cup Extra(f))
      BY <1>1
    <2> DEFINE more == Extra(f)
    <2> HIDE DEF cs, base, field, more
    <2> DEFINE e == Each(f.o)
    <2>4. Adds(base, field, "String", Changes(f.o), f.o, e, cs, more)
      BY <1>1, <2>3, <2>0 DEF Adds, more
    <2> HIDE DEF e
    <2>5. /\ Checking(base, base.checks \cup more) = field
          /\ Checking(base, base.checks \cup more \cup NotNull(f.o, e)) = field
      BY <2>4, AddChecks
    <2> QED BY <1>1, <2>2, <2>5 DEF more, e
  <1>4. MinFits(f, 6) /\ f.kind \in TextKinds
    <2>1. ShortestText(f) = 6
      BY DEF ShortestText
    <2> QED BY <2>1 DEF MinFits, TextKinds
  <1>5. field = Field("String", Changes(f.o), f.o, Each(f.o), TextChecks(f, 6) \cup Extra(f))
    BY <1>1
  <1> HIDE DEF field
  <1>6. Passes(IF f.optional THEN Optional(field) ELSE field, v) <=> Promised(f, v)
    BY <1>1, <1>4, <1>5, TextField
  <1> QED BY <1>3, <1>6 DEF PasswordFieldOptional

LEMMA UrlPasses ==
    ASSUME NEW f, f.kind = "url", f.optional \in BOOLEAN, Optioned(f.o), Each(f.o) => ~Cased(f),
           NEW v, v # Throws, WellFormed(v), CaseChanged(f, v)
    PROVE  Passes(IF f.optional THEN URLFieldOptional(f.o) ELSE URLField(f.o), v) <=> Promised(f, v)
  <1> DEFINE min == Opt(f.o, "minLength", 1)
             cs == TextChecks(f, min)
             field == Field("String", Changes(f.o), f.o, Each(f.o), cs \cup Extra(f))
  <1>1. StringField(f.o) = Field("String", Changes(f.o), f.o, Each(f.o), cs)
    BY DEF StringField, StringFieldOf, TextChecks, Changes
  <1>2. URLField(f.o) = field
    <2>1. Extra(f) = {Check("Looks", "url", TRUE)}
      BY DEF Extra
    <2> DEFINE base == StringField(f.o)
    <2>2. URLField(f.o) = Checking(base, base.checks \cup Extra(f))
      BY <2>1 DEF URLField, Checking
    <2>3. base = Field("String", Changes(f.o), f.o, Each(f.o), cs)
      BY <1>1
    <2>0. field = Field("String", Changes(f.o), f.o, Each(f.o), cs \cup Extra(f))
      BY <1>1
    <2> DEFINE more == Extra(f)
    <2> HIDE DEF cs, base, field, more
    <2>4. Adds(base, field, "String", Changes(f.o), f.o, Each(f.o), cs, more)
      BY <2>3, <2>0 DEF Adds, more
    <2>5. Checking(base, base.checks \cup more \cup NotNull(f.o, Each(f.o))) = field
          /\ Checking(base, base.checks \cup more) = field
      BY <2>4, AddChecks
    <2> QED BY <2>2, <2>5 DEF more
  <1>3. MinFits(f, min) /\ f.kind \in TextKinds
    <2>1. ShortestText(f) = IF Cased(f) THEN IF min = 0 THEN 1 ELSE min ELSE min
      BY DEF ShortestText
    <2>2. min \in Nat
      BY DEF Opt, Optioned
    <2> HIDE DEF min
    <2> QED BY <2>1, <2>2 DEF MinFits, TextKinds
  <1>4. field = Field("String", Changes(f.o), f.o, Each(f.o), TextChecks(f, min) \cup Extra(f))
    OBVIOUS
  <1> HIDE DEF field, min
  <1>5. Passes(IF f.optional THEN Optional(field) ELSE field, v) <=> Promised(f, v)
    BY <1>3, <1>4, TextField
  <1> QED BY <1>2, <1>5 DEF URLFieldOptional

\* An email field is lower-cased unless its options say otherwise.
EmailOptions(o) == [x \in DOMAIN o \cup {"toLowerCase"} |-> Opt(o, x, TRUE)]

LEMMA EmailOpts ==
    ASSUME NEW o, Optioned(o)
    PROVE  /\ Optioned(EmailOptions(o))
           /\ \A n, d : n # "toLowerCase" => Opt(EmailOptions(o), n, d) = Opt(o, n, d)
           /\ \A d : Opt(EmailOptions(o), "toLowerCase", d) = Opt(o, "toLowerCase", TRUE)
  <1>1. DOMAIN EmailOptions(o) = DOMAIN o \cup {"toLowerCase"}
    BY DEF EmailOptions
  <1>2. \A x \in DOMAIN o \cup {"toLowerCase"} : EmailOptions(o)[x] = Opt(o, x, TRUE)
    BY DEF EmailOptions
  <1>3. \A x \in DOMAIN o : EmailOptions(o)[x] = o[x]
    BY <1>2 DEF Opt
  <1>4. EmailOptions(o)["toLowerCase"] = Opt(o, "toLowerCase", TRUE) /\ Opt(o, "toLowerCase", TRUE) \in BOOLEAN
    BY <1>2, OptionTypes
  <1>5. Optioned(EmailOptions(o))
    BY <1>1, <1>3, <1>4 DEF Optioned
  <1>6. \A n, d : n # "toLowerCase" => Opt(EmailOptions(o), n, d) = Opt(o, n, d)
    BY <1>1, <1>3 DEF Opt
  <1>7. \A d : Opt(EmailOptions(o), "toLowerCase", d) = Opt(o, "toLowerCase", TRUE)
    BY <1>1, <1>4 DEF Opt
  <1> QED BY <1>5, <1>6, <1>7

LEMMA EmailPasses ==
    ASSUME NEW f, f.kind = "email", f.optional \in BOOLEAN, Optioned(f.o), ~Each(f.o),
           NEW v, v # Throws, WellFormed(v), CaseChanged(f, v)
    PROVE  Passes(IF f.optional THEN EmailFieldOptional(f.o) ELSE EmailField(f.o), v) <=> Promised(f, v)
  <1> DEFINE o == EmailOptions(f.o)
             min == Opt(f.o, "minLength", 1)
             cs == TextChecks(f, min)
             field == Field("String", Changes(o), o, FALSE, cs \cup Extra(f))
  <1>1. Each(f.o) = FALSE
    BY OptionTypes DEF Each
  <1>2. /\ Optioned(o) /\ Opt(o, "nullable", FALSE) = Opt(f.o, "nullable", FALSE) /\ Each(o) = FALSE
        /\ Opt(o, "minLength", 1) = min /\ Opt(o, "maxLength", 0) = Opt(f.o, "maxLength", 0)
    <2>1. \A n, d : n # "toLowerCase" => Opt(o, n, d) = Opt(f.o, n, d)
      BY EmailOpts
    <2>2. Optioned(o)
      BY EmailOpts
    <2> HIDE DEF o
    <2> QED BY <1>1, <2>1, <2>2 DEF Each
  <1>3. StringField(o) = Field("String", Changes(o), o, FALSE, cs)
    <2> HIDE DEF o
    <2> QED BY <1>1, <1>2 DEF StringField, StringFieldOf, TextChecks, Changes
  <1>4. EmailField(f.o) = field
    <2>1. Extra(f) = {Check("Looks", "email", FALSE)}
      BY DEF Extra
    <2>2. NotNull(f.o, FALSE) = NotNull(o, FALSE)
      BY <1>2 DEF NotNull
    <2> DEFINE base == StringField(o)
    <2>3. EmailField(f.o) = Checking(base, base.checks \cup Extra(f) \cup NotNull(f.o, FALSE))
      BY <2>1 DEF EmailField, EmailOptions, Checking
    <2>4. base = Field("String", Changes(o), o, FALSE, cs)
      BY <1>3
    <2>0. field = Field("String", Changes(o), o, FALSE, cs \cup Extra(f))
      OBVIOUS
    <2> DEFINE more == Extra(f)
    <2> HIDE DEF cs, o, base, field, more
    <2> DEFINE e == Each(f.o)
    <2>5. Adds(base, field, "String", Changes(o), o, e, cs, more)
      BY <1>1, <2>4, <2>0 DEF Adds, more
    <2> HIDE DEF e
    <2>6. /\ Checking(base, base.checks \cup more) = field
          /\ Checking(base, base.checks \cup more \cup NotNull(o, e)) = field
      BY <2>5, AddChecks
    <2> QED BY <1>1, <2>2, <2>3, <2>6 DEF more, e
  <1>5. MinFits(f, min) /\ f.kind \in TextKinds
    <2>1. ShortestText(f) = IF Cased(f) THEN IF min = 0 THEN 1 ELSE min ELSE min
      BY DEF ShortestText
    <2>2. min \in Nat
      BY DEF Opt, Optioned
    <2> HIDE DEF min
    <2> QED BY <2>1, <2>2 DEF MinFits, TextKinds
  <1>6. field = Field("String", Changes(o), o, Each(f.o), TextChecks(f, min) \cup Extra(f))
    BY <1>1
  <1> HIDE DEF field, min, o
  <1>7. Passes(IF f.optional THEN Optional(field) ELSE field, v) <=> Promised(f, v)
    BY <1>1, <1>2, <1>5, <1>6, TextField
  <1> QED BY <1>4, <1>7 DEF EmailFieldOptional

\* A class field takes an object, or a list of them, told or not.
LEMMA ClassGood ==
    ASSUME NEW f, f.kind = "class", f.optional \in BOOLEAN, Optioned(f.o), NEW v
    PROVE  Promised(f, v) <=>
             \/ v = Object
             \/ IsList(v) /\ \A k \in DOMAIN v[2] : v[2][k] = Object
             \/ v = Null /\ (f.optional \/ Opt(f.o, "nullable", FALSE))
             \/ v = Undefined /\ (f.optional \/ ~Opt(f.o, "required", TRUE))
  <1>1. \A x : Good(f, x) <=> x = Object
    BY GoodOther
  <1>2. ~Cased(f)
    BY DEF Cased
  <1>3. Object \notin {Null, Undefined} /\ ~IsList(Object)
    BY Apart DEF IsList
  <1> QED BY <1>1, <1>2, <1>3 DEF Promised

LEMMA ClassHolds ==
    ASSUME NEW f, f.kind = "class", f.optional = FALSE, Optioned(f.o), NEW v, v # Throws
    PROVE  Passes(ClassField(f.o), v) <=> Promised(f, v)
  <1> DEFINE must == Opt(f.o, "required", TRUE)
             null == Opt(f.o, "nullable", FALSE)
             cs == {Check("ValidateNested", 0, FALSE)} \cup If(must, Check("IsDefined", 0, FALSE))
  <1>1. must \in BOOLEAN /\ null \in BOOLEAN
    BY OptionTypes
  <1>2. ClassField(f.o) = Field("class", <<>>, f.o, FALSE, cs)
    BY DEF ClassField
  <1> HIDE DEF must, null
  <1>3. (\A c \in cs : Holds(c, v)) <=>
            /\ Holds(Check("ValidateNested", 0, FALSE), v)
            /\ must => Holds(Check("IsDefined", 0, FALSE), v)
    BY <1>1, IfHolds
  <1>4. Holds(Check("ValidateNested", 0, FALSE), v) <=>
                \/ v \in {Null, Undefined, Object}
                \/ IsList(v) /\ \A k \in DOMAIN v[2] : v[2][k] = Object
    <2>1. Holds(Check("ValidateNested", 0, FALSE), v) <=> HoldsFor("ValidateNested", 0, v)
      BY HoldsMeans
    <2> QED BY <2>1, MoreChecksMean
  <1>5. Holds(Check("IsDefined", 0, FALSE), v) <=> v \notin {Null, Undefined}
    <2>1. Holds(Check("IsDefined", 0, FALSE), v) <=> HoldsFor("IsDefined", 0, v)
      BY HoldsMeans
    <2> QED BY <2>1, ChecksMean
  <1> HIDE DEF cs
  <1>6. Passes(ClassField(f.o), v) <=>
             \/ null /\ v = Null
             \/ /\ \A c \in cs : Holds(c, v)
                /\ null \/ v # Null
    BY <1>1, <1>2, FieldPasses DEF null
  <1>7. Promised(f, v) <=>
             \/ v = Object
             \/ IsList(v) /\ \A k \in DOMAIN v[2] : v[2][k] = Object
             \/ v = Null /\ null
             \/ v = Undefined /\ ~must
    <2>1. Promised(f, v) <=>
             \/ v = Object
             \/ IsList(v) /\ \A k \in DOMAIN v[2] : v[2][k] = Object
             \/ v = Null /\ (f.optional \/ Opt(f.o, "nullable", FALSE))
             \/ v = Undefined /\ (f.optional \/ ~Opt(f.o, "required", TRUE))
      BY ClassGood
    <2> QED BY <2>1, Zenon DEF must, null
  <1>8. Object \notin {Null, Undefined} /\ ~IsList(Null) /\ ~IsList(Undefined) /\ Null # Undefined
    BY Apart DEF IsList
  <1> QED BY <1>3, <1>4, <1>5, <1>6, <1>7, <1>8

LEMMA ClassPasses ==
    ASSUME NEW f, f.kind = "class", f.optional \in BOOLEAN, Optioned(f.o), NEW v, v # Throws
    PROVE  Passes(IF f.optional THEN ClassFieldOptional(f.o) ELSE ClassField(f.o), v) <=> Promised(f, v)
  <1>1. CASE ~f.optional
    <2>1. f.optional = FALSE
      BY <1>1
    <2> QED BY <1>1, <2>1, ClassHolds
  <1>2. CASE f.optional
    <2> DEFINE o == [x \in DOMAIN f.o \cup {"required"} |-> Opt(f.o, x, FALSE)]
               g == [kind |-> "class", optional |-> FALSE, o |-> o]
    <2>1. /\ \A x \in DOMAIN f.o : o[x] = f.o[x]
          /\ o["required"] = Opt(f.o, "required", FALSE) /\ Opt(f.o, "required", FALSE) \in BOOLEAN
          /\ DOMAIN o = DOMAIN f.o \cup {"required"}
      <3>1. Opt(f.o, "required", FALSE) \in BOOLEAN
        BY OptionTypes
      <3> QED BY <3>1 DEF Opt
    <2>2. ClassFieldOptional(f.o) = Optional(ClassField(o))
      BY DEF ClassFieldOptional
    <2> HIDE DEF o
    <2>3. Optioned(o) /\ Opt(o, "nullable", FALSE) = Opt(f.o, "nullable", FALSE)
      <3>1. Optioned(o)
        BY <2>1 DEF Optioned
      <3>2. Opt(o, "nullable", FALSE) = Opt(f.o, "nullable", FALSE)
        BY <2>1 DEF Opt
      <3> QED BY <3>1, <3>2
    <2>4. g.kind = "class" /\ g.optional = FALSE /\ g.o = o
      OBVIOUS
    <2> HIDE DEF g
    <2>5. Passes(ClassField(o), v) <=> Promised(g, v)
      BY <2>3, <2>4, ClassHolds
    <2>6. Promised(g, v) =>
             \/ v = Object \/ v \in {Null, Undefined}
             \/ IsList(v) /\ \A k \in DOMAIN v[2] : v[2][k] = Object
      BY <2>3, <2>4, ClassGood
    <2>7. v = Object \/ (IsList(v) /\ \A k \in DOMAIN v[2] : v[2][k] = Object) => Promised(g, v)
      BY <2>3, <2>4, ClassGood
    <2>8. DOMAIN ClassField(o) = {"type", "changes", "skips", "checks"}
      BY DEF ClassField, Field
    <2>9. Passes(Optional(ClassField(o)), v) <=> v \in {Null, Undefined} \/ Passes(ClassField(o), v)
      BY <2>8, OptionalPasses
    <2>10. Promised(f, v) <=>
             \/ v = Object \/ v \in {Null, Undefined}
             \/ IsList(v) /\ \A k \in DOMAIN v[2] : v[2][k] = Object
      <3>1. Promised(f, v) <=>
             \/ v = Object
             \/ IsList(v) /\ \A k \in DOMAIN v[2] : v[2][k] = Object
             \/ v = Null /\ (f.optional \/ Opt(f.o, "nullable", FALSE))
             \/ v = Undefined /\ (f.optional \/ ~Opt(f.o, "required", TRUE))
        BY ClassGood
      <3> QED BY <1>2, <3>1, Zenon
    <2>11. Passes(Optional(ClassField(o)), v) <=> Promised(f, v)
      BY <2>5, <2>6, <2>7, <2>9, <2>10
    <2> QED BY <1>2, <2>2, <2>11
  <1> QED BY <1>1, <1>2

\* The options declared are of the types the decorators read them at.
Fits(f) ==
    /\ f.kind \in Kinds /\ f.optional \in BOOLEAN /\ Optioned(f.o)
    /\ Each(f.o) => f.kind \notin {"password", "boolean", "email", "date"} /\ ~Cased(f)
    /\ f.kind = "token" => ~f.optional
    /\ "enum" \notin DOMAIN f.o

LEMMA DeclaredFits == ASSUME NEW f \in Declared PROVE Fits(f)
  <1>1. f.kind \in Kinds /\ f.optional \in BOOLEAN /\ f.o \in OptionsOf(f.kind) /\ (f.kind = "token" => ~f.optional)
    BY DEF Declared
  <1>2. \/ f.o = <<>> \/ f.o = [nullable |-> TRUE]
        \/ /\ f.kind \notin {"password", "boolean", "email", "date"}
           /\ f.o = [each |-> TRUE] \/ f.o = [each |-> TRUE, nullable |-> TRUE]
        \/ f.o = [int |-> TRUE] \/ f.o = [min |-> 0, max |-> 1] \/ f.o = [isPositive |-> TRUE, nullable |-> TRUE]
        \/ f.o = [maxLength |-> 6] \/ f.o = [toUpperCase |-> TRUE, nullable |-> TRUE] \/ f.o = [toLowerCase |-> TRUE]
        \/ f.o = [minLength |-> 5] \/ f.o = [minLength |-> 0] \/ f.o = [required |-> FALSE]
    BY <1>1 DEF OptionsOf, Kinds
  <1>3. Optioned(f.o) /\ "enum" \notin DOMAIN f.o
    <2> DEFINE Fine(o) == Optioned(o) /\ "enum" \notin DOMAIN o
    <2>1. Fine(<<>>) /\ Fine([nullable |-> TRUE])
      BY DEF Optioned
    <2>2. Fine([each |-> TRUE]) /\ Fine([each |-> TRUE, nullable |-> TRUE])
      BY DEF Optioned
    <2>3. Fine([int |-> TRUE]) /\ Fine([min |-> 0, max |-> 1])
      BY DEF Optioned
    <2>4. Fine([isPositive |-> TRUE, nullable |-> TRUE]) /\ Fine([maxLength |-> 6])
      BY DEF Optioned
    <2>5. Fine([toUpperCase |-> TRUE, nullable |-> TRUE]) /\ Fine([toLowerCase |-> TRUE])
      BY DEF Optioned
    <2>6. Fine([minLength |-> 5]) /\ Fine([minLength |-> 0]) /\ Fine([required |-> FALSE])
      BY DEF Optioned
    <2> HIDE DEF Fine
    <2>7. Fine(f.o)
      BY <1>2, <2>1, <2>2, <2>3, <2>4, <2>5, <2>6, Zenon
    <2> QED BY <2>7 DEF Fine
  <1>4. Each(f.o) => /\ f.o = [each |-> TRUE] \/ f.o = [each |-> TRUE, nullable |-> TRUE]
                     /\ f.kind \notin {"password", "boolean", "email", "date"}
    BY <1>2 DEF Each, Opt
  <1>5. Each(f.o) => ~Cased(f)
    <2> HAVE Each(f.o)
    <2>1. f.kind # "email" /\ "toUpperCase" \notin DOMAIN f.o /\ "toLowerCase" \notin DOMAIN f.o
      BY <1>4
    <2> QED BY <2>1 DEF Cased, Opt
  <1> QED BY <1>1, <1>3, <1>4, <1>5 DEF Fits

\* A field lets through what its declaration tells.
LEMMA DecoratePasses ==
    ASSUME NEW f, Fits(f), NEW v, v # Throws, WellFormed(v), CaseChanged(f, v)
    PROVE  Passes(Decorate(f), v) <=> Promised(f, v)
  <1> USE DEF Fits
  <1>1. CASE f.kind = "number"
    BY <1>1, NumberPasses DEF Decorate
  <1>2. CASE f.kind = "string"
    BY <1>2, StringPasses DEF Decorate
  <1>3. CASE f.kind = "token"
    <2>1. f.optional = FALSE
      BY <1>3
    <2> QED BY <1>3, <2>1, TokenPasses DEF Decorate
  <1>4. CASE f.kind = "password"
    BY <1>4, PasswordPasses DEF Decorate
  <1>5. CASE f.kind = "boolean"
    BY <1>5, BooleanPasses DEF Decorate
  <1>6. CASE f.kind = "email"
    BY <1>6, EmailPasses DEF Decorate
  <1>7. CASE f.kind = "uuid"
    BY <1>7, UuidPasses DEF Decorate
  <1>8. CASE f.kind = "url"
    BY <1>8, UrlPasses DEF Decorate
  <1>9. CASE f.kind = "date"
    BY <1>9, DatePasses DEF Decorate
  <1>10. CASE f.kind = "enum"
    <2>1. Enum = Opt(f.o, "enum", Enum)
      BY DEF Opt
    <2> QED BY <1>10, <2>1, EnumPasses DEF Decorate
  <1>11. CASE f.kind = "class"
    BY <1>11, ClassPasses DEF Decorate
  <1> QED BY <1>1, <1>2, <1>3, <1>4, <1>5, <1>6, <1>7, <1>8, <1>9, <1>10, <1>11 DEF Kinds

\* Words.
LEMMA WordCases ==
    \A w \in DOMAIN Words : \A c \in {"lower", "upper"} :
        /\ Words[w][c] \in DOMAIN Words /\ (Words[w][c] = "none" <=> w = "none")
        /\ \A d \in {"lower", "upper"} : Words[Words[w][d]][c] = Words[w][c]
  BY DEF Words, Word

LEMMA WordNumbers ==
    /\ \A w \in DOMAIN Words : Words[w].number[1] \in {"number", "not a number"}
    /\ \A h \in {14, 0, -2, 3} : \E w \in DOMAIN Words : Words[w].number = Number(h) /\ Words[w].length > 0
  <1>1. \A w \in DOMAIN Words : Words[w].number[1] \in {"number", "not a number"}
    <2>1. \A w \in DOMAIN Words : Words[w].number \in {Number(0), Number(14), Number(-2), Number(3), NaN}
      BY DEF Words, Word
    <2>2. /\ Number(0)[1] = "number" /\ Number(14)[1] = "number" /\ Number(-2)[1] = "number"
          /\ Number(3)[1] = "number" /\ NaN[1] = "not a number"
      BY DEF Number, NaN
    <2> QED BY <2>1, <2>2
  <1>2. /\ Words["seven"].number = Number(14) /\ Words["seven"].length > 0
        /\ Words["zero"].number = Number(0) /\ Words["zero"].length > 0
        /\ Words["minusOne"].number = Number(-2) /\ Words["minusOne"].length > 0
        /\ Words["oneAndAHalf"].number = Number(3) /\ Words["oneAndAHalf"].length > 0
    BY DEF Words, Word
  <1>3. {"seven", "zero", "minusOne", "oneAndAHalf", "true", "false", "sentence"} \subseteq DOMAIN Words
    BY DEF Words
  <1> QED BY <1>1, <1>2, <1>3

\* What clients send.
Worded(x) == x = Null \/ \E w \in DOMAIN Words : x = Text(w)

LEMMA SimpleMeans ==
    ASSUME NEW x \in Simple
    PROVE  /\ Formed(x) /\ ~IsList(x) /\ x \notin {Undefined, Throws, Date}
           /\ \/ \E w \in DOMAIN Words : x = Text(w)
              \/ \E h \in {14, 0, -2, 3} : x = Number(h)
              \/ x \in {Boolean(TRUE), Boolean(FALSE), Null, Object}
  <1>1. \/ \E w \in DOMAIN Words : x = Text(w)
        \/ \E h \in {14, 0, -2, 3} : x = Number(h)
        \/ x \in {Boolean(TRUE), Boolean(FALSE), Null, Object}
    BY DEF Simple
  <1>2. ASSUME NEW w \in DOMAIN Words, x = Text(w)
        PROVE  Formed(x) /\ ~IsList(x) /\ x \notin {Undefined, Throws, Date}
    <2>1. x[1] = "text" /\ x[2] = w
      BY <1>2, Apart
    <2> QED BY <1>2, <2>1, Apart DEF Formed, IsText, IsList
  <1>3. ASSUME NEW h, x = Number(h)
        PROVE  Formed(x) /\ ~IsList(x) /\ x \notin {Undefined, Throws, Date}
    <2>1. x[1] = "number"
      BY <1>3, Apart
    <2> QED BY <2>1, Apart DEF Formed, IsText, IsList
  <1>4. ASSUME x \in {Boolean(TRUE), Boolean(FALSE), Null, Object}
        PROVE  Formed(x) /\ ~IsList(x) /\ x \notin {Undefined, Throws, Date}
    <2>1. Boolean(TRUE)[1] = "boolean" /\ Boolean(FALSE)[1] = "boolean"
      BY DEF Boolean
    <2>2. x[1] \in {"boolean", "null", "object"} /\ (x[1] = "boolean" => x \in {Boolean(TRUE), Boolean(FALSE)})
      BY <1>4, <2>1, Apart
    <2> QED BY <2>2, Apart DEF Formed, IsText, IsList
  <1> QED BY <1>1, <1>2, <1>3, <1>4

ListValue(v) == IsList(v) /\ v = List(v[2]) /\ v[2] = [k \in DOMAIN v[2] |-> v[2][k]]

LEMMA RawMeans ==
    ASSUME NEW raw \in Raw
    PROVE  raw \in Simple \cup {Undefined} \/ (ListValue(raw) /\ \A k \in DOMAIN raw[2] : raw[2][k] \in Simple)
  <1>1. \/ raw \in Simple \cup {Undefined}
        \/ raw = List(<<>>)
        \/ \E a, b \in Simple : raw = List(<<a, b>>)
    <2>1. Text("uuid") \in Simple
      BY DEF Simple, Words
    <2> QED BY <2>1 DEF Raw
  <1>2. ASSUME NEW t, raw = List(t), t = <<>> \/ \E a, b \in Simple : t = <<a, b>>
        PROVE  ListValue(raw) /\ \A k \in DOMAIN raw[2] : raw[2][k] \in Simple
    <2>1. raw[2] = t /\ IsList(raw)
      BY <1>2, Apart DEF IsList
    <2>2. t = [k \in DOMAIN t |-> t[k]] /\ \A k \in DOMAIN t : t[k] \in Simple
      <3>1. CASE t = <<>>
        BY <3>1
      <3>2. ASSUME NEW a \in Simple, NEW b \in Simple, t = <<a, b>>
            PROVE  t = [k \in DOMAIN t |-> t[k]] /\ \A k \in DOMAIN t : t[k] \in Simple
        BY <3>2
      <3> QED BY <1>2, <3>1, <3>2
    <2> QED BY <1>2, <2>1, <2>2 DEF ListValue
  <1> QED BY <1>1, <1>2

\* Conversion makes values the checks know, and keeps those of the type.
LEMMA ConvertedOne ==
    ASSUME NEW x \in Simple \cup {Undefined}, NEW type
    PROVE  LET y == ConvertOne(type, x)
           IN  /\ Formed(y) /\ ~IsList(y) /\ y # Throws
               /\ type = "String" => Worded(y) \/ (y = Undefined /\ x = Undefined)
               /\ type = "String" /\ (IsText(x) \/ x \in {Null, Undefined}) => y = x
               /\ type = "Number" /\ (IsNumber(x) \/ x \in {Null, Undefined}) => y = x
               /\ type \in {"any", "class"} \/ x \in {Null, Undefined} => y = x
  <1> DEFINE y == ConvertOne(type, x)
  <1>1. Formed(x) /\ ~IsList(x) /\ x # Throws
    BY SimpleMeans, Apart DEF Formed, IsText, IsList
  <1>2. CASE x \in {Null, Undefined}
    BY <1>1, <1>2 DEF ConvertOne, Worded
  <1>3. CASE x \notin {Null, Undefined} /\ type = "Number"
    <2>1. y = NumberOf(x)
      BY <1>3 DEF ConvertOne
    <2>2. y[1] \in {"number", "not a number"} /\ (IsNumber(x) => y = x)
      <3>1. CASE IsText(x)
        <4>1. y = Words[x[2]].number /\ ~IsNumber(x)
          BY <2>1, <3>1 DEF NumberOf, IsText, IsNumber
        <4> QED BY <1>1, <3>1, <4>1, WordNumbers DEF Formed
      <3>2. CASE x[1] = "boolean"
        <4>1. y = Number(IF x[2] THEN 2 ELSE 0) /\ ~IsNumber(x)
          BY <2>1, <3>2 DEF NumberOf, IsText, IsNumber
        <4>2. y[1] = "number"
          BY <4>1 DEF Number
        <4> HIDE DEF y
        <4> QED BY <4>1, <4>2
      <3>3. CASE ~IsText(x) /\ x[1] # "boolean"
        <4>1. y = IF IsNumber(x) THEN x ELSE NaN
          BY <2>1, <3>3 DEF NumberOf
        <4> QED BY <4>1, Apart DEF IsNumber
      <3> HIDE DEF y
      <3> QED BY <3>1, <3>2, <3>3
    <2> HIDE DEF y
    <2> QED BY <1>3, <2>2, Apart DEF Formed, IsText, IsList, y
  <1>4. CASE x \notin {Null, Undefined} /\ type = "String"
    <2>1. y = StringOf(x)
      BY <1>4 DEF ConvertOne
    <2>2. {"true", "false", "sentence"} \subseteq DOMAIN Words
      BY DEF Words
    <2>3. (\E w \in DOMAIN Words : y = Text(w)) /\ (IsText(x) => y = x)
      <3>1. CASE x[1] = "boolean"
        <4>1. y = Text(IF x[2] THEN "true" ELSE "false") /\ ~IsText(x)
          BY <2>1, <3>1 DEF StringOf, IsText, IsNumber
        <4> QED BY <2>2, <4>1
      <3>2. CASE IsNumber(x)
        <4>1. y = Text(CHOOSE w \in DOMAIN Words : Words[w].number = x /\ Words[w].length > 0) /\ ~IsText(x)
          BY <2>1, <3>2 DEF StringOf, IsText, IsNumber
        <4>2. \E h \in {14, 0, -2, 3} : x = Number(h)
          BY <1>4, <3>2, SimpleMeans, Apart DEF IsNumber
        <4>3. \E w \in DOMAIN Words : Words[w].number = x /\ Words[w].length > 0
          BY <4>2, WordNumbers
        <4>4. (CHOOSE w \in DOMAIN Words : Words[w].number = x /\ Words[w].length > 0) \in DOMAIN Words
          BY <4>3
        <4> QED BY <4>1, <4>4
      <3>3. CASE x[1] # "boolean" /\ ~IsNumber(x)
        <4>1. y = IF IsText(x) THEN x ELSE Text("sentence")
          BY <2>1, <3>3 DEF StringOf
        <4> QED BY <1>1, <2>2, <4>1 DEF Formed
      <3> QED BY <3>1, <3>2, <3>3
    <2>4. PICK w \in DOMAIN Words : y = Text(w)
      BY <2>3
    <2> HIDE DEF y
    <2>5. y[1] = "text" /\ y[2] = w
      BY <2>4, Apart
    <2>6. Formed(y) /\ ~IsList(y) /\ y # Throws /\ Worded(y)
      BY <2>4, <2>5, Apart DEF Formed, Worded, IsText, IsList
    <2> QED BY <1>4, <2>3, <2>6 DEF y
  <1>5. CASE x \notin {Null, Undefined} /\ type = "Date"
    <2>1. y \in {Date, InvalidDate}
      <3>1. y = DateOf(x)
        BY <1>5 DEF ConvertOne
      <3> QED BY <3>1 DEF DateOf, IsText
    <2> HIDE DEF y
    <2> QED BY <1>5, <2>1, Apart DEF Formed, IsText, IsList, y
  <1>6. CASE type \notin {"Number", "String", "Date"}
    <2>1. y = x
      BY <1>6 DEF ConvertOne
    <2> QED BY <1>1, <1>6, <2>1
  <1> QED BY <1>2, <1>3, <1>4, <1>5, <1>6

\* A value of a text field on its way through the changes.
Textual(v) ==
    \/ v = Undefined \/ Worded(v)
    \/ ListValue(v) /\ \A k \in DOMAIN v[2] : Worded(v[2][k])

LEMMA TextualFormed == ASSUME NEW v, Textual(v) PROVE WellFormed(v) /\ v # Throws
  <1>1. \A x : Worded(x) => Formed(x) /\ ~IsList(x) /\ x # Throws
    <2> SUFFICES ASSUME NEW x, Worded(x) PROVE Formed(x) /\ ~IsList(x) /\ x # Throws
      OBVIOUS
    <2>1. CASE x = Null
      BY <2>1, Apart DEF Formed, IsText, IsList
    <2>2. ASSUME NEW w \in DOMAIN Words, x = Text(w) PROVE Formed(x) /\ ~IsList(x) /\ x # Throws
      <3>1. x[1] = "text" /\ x[2] = w
        BY <2>2, Apart
      <3> QED BY <2>2, <3>1, Apart DEF Formed, IsText, IsList
    <2> QED BY <2>1, <2>2 DEF Worded
  <1>2. CASE v = Undefined
    BY <1>2, Apart DEF WellFormed, Formed, IsText, IsList
  <1>3. CASE Worded(v)
    BY <1>1, <1>3 DEF WellFormed
  <1>4. CASE ListValue(v) /\ \A k \in DOMAIN v[2] : Worded(v[2][k])
    <2>1. Formed(v) /\ v # Throws
      BY <1>4, Apart DEF ListValue, Formed, IsText, IsList
    <2> QED BY <1>1, <1>4, <2>1 DEF WellFormed
  <1> QED BY <1>2, <1>3, <1>4 DEF Textual

LEMMA TextApart ==
    ASSUME NEW w
    PROVE  /\ Text(w)[1] = "text" /\ Text(w)[2] = w /\ ~IsList(Text(w)) /\ IsText(Text(w))
           /\ Text(w) # Null /\ Text(w) # Undefined /\ Text(w) # Throws
           /\ \A x : Text(x) = Text(w) => x = w
  <1>1. Text(w)[1] = "text" /\ Text(w)[2] = w /\ \A x : Text(x)[2] = x
    BY Apart
  <1>2. \A x : Text(x) = Text(w) => x = w
    BY <1>1
  <1>3. Text(w) # Null /\ Text(w) # Undefined /\ Text(w) # Throws
    BY <1>1, Apart
  <1> QED BY <1>1, <1>2, <1>3 DEF IsList, IsText

\* What converting to texts gives, and what it leaves as it is.
LEMMA ConvertedText ==
    ASSUME NEW raw \in Raw
    PROVE  LET given == Convert("String", raw)
           IN  /\ Textual(given)
               /\ IsText(raw) \/ raw \in {Null, Undefined} => given = raw
               /\ IsList(raw) /\ (\A k \in DOMAIN raw[2] : IsText(raw[2][k]) \/ raw[2][k] = Null) => given = raw
  <1>1. CASE raw \in Simple \cup {Undefined}
    <2>1. ~IsList(raw)
      BY <1>1, SimpleMeans, Apart DEF IsList
    <2>2. Convert("String", raw) = ConvertOne("String", raw)
      BY <2>1 DEF Convert
    <2> QED BY <1>1, <2>1, <2>2, ConvertedOne DEF Textual
  <1>2. CASE ListValue(raw) /\ \A k \in DOMAIN raw[2] : raw[2][k] \in Simple
    <2> DEFINE t == [k \in DOMAIN raw[2] |-> ConvertOne("String", raw[2][k])]
    <2>1. IsList(raw) /\ ~IsText(raw) /\ raw \notin {Null, Undefined}
      BY <1>2, Apart DEF ListValue, IsList, IsText
    <2>2. Convert("String", raw) = List(t)
      BY <2>1 DEF Convert
    <2>3. \A k \in DOMAIN raw[2] :
              /\ Worded(t[k])
              /\ IsText(raw[2][k]) \/ raw[2][k] = Null => t[k] = raw[2][k]
      <3> SUFFICES ASSUME NEW k \in DOMAIN raw[2]
                   PROVE  /\ Worded(ConvertOne("String", raw[2][k]))
                          /\ IsText(raw[2][k]) \/ raw[2][k] = Null => ConvertOne("String", raw[2][k]) = raw[2][k]
        OBVIOUS
      <3>1. raw[2][k] \in Simple /\ raw[2][k] # Undefined
        BY <1>2, SimpleMeans
      <3> DEFINE x == raw[2][k]
      <3> HIDE DEF x
      <3>2. x \in Simple /\ x # Undefined
        BY <3>1 DEF x
      <3>3. Worded(ConvertOne("String", x)) /\ (IsText(x) \/ x = Null => ConvertOne("String", x) = x)
        BY <3>2, ConvertedOne
      <3> QED BY <3>3 DEF x
    <2>4. DOMAIN t = DOMAIN raw[2] /\ t = [k \in DOMAIN t |-> t[k]]
      OBVIOUS
    <2>5. List(t)[2] = t /\ IsList(List(t))
      BY Apart DEF IsList
    <2>6. Textual(List(t))
      <3> HIDE DEF t
      <3> QED BY <2>3, <2>4, <2>5 DEF Textual, ListValue
    <2>7. (\A k \in DOMAIN raw[2] : IsText(raw[2][k]) \/ raw[2][k] = Null) => List(t) = raw
      <3> SUFFICES ASSUME \A k \in DOMAIN raw[2] : IsText(raw[2][k]) \/ raw[2][k] = Null PROVE List(t) = raw
        OBVIOUS
      <3>1. \A k \in DOMAIN raw[2] : t[k] = raw[2][k]
        BY <2>3
      <3>2. t = [k \in DOMAIN raw[2] |-> raw[2][k]]
        BY <3>1
      <3> HIDE DEF t
      <3> QED BY <1>2, <3>2 DEF ListValue
    <2> HIDE DEF t
    <2> QED BY <2>1, <2>2, <2>6, <2>7
  <1> QED BY <1>1, <1>2, RawMeans

\* Changing the case twice is changing it as the last one says.
LEMMA CaseOnce ==
    ASSUME NEW v, Textual(v), NEW c \in {"lower", "upper"}
    PROVE  LET y == ToCase(c, v)
           IN  \/ y = Throws /\ IsList(v)
               \/ /\ Textual(y) /\ y # Null /\ y # Text("none")
                  /\ v \in {Undefined, Null, Text("none")} => y = Undefined
                  /\ IsList(v) => IsList(y)
                  /\ \A w \in DOMAIN Words \ {"none"} : v = Text(w) => y = Text(Words[w][c])
                  /\ IsText(y) => y[2] \in DOMAIN Words /\ Words[y[2]][c] = y[2]
  <1> DEFINE y == ToCase(c, v)
  <1>1. CASE v \in {Undefined, Null, Text("none")}
    <2>1. y = Undefined /\ ~IsList(v)
      BY <1>1, Apart DEF ToCase, IsText, IsList
    <2>2. \A w \in DOMAIN Words \ {"none"} : v # Text(w)
      BY <1>1, TextApart
    <2>3. Undefined # Null /\ Undefined # Text("none") /\ ~IsText(Undefined)
      BY Apart DEF IsText
    <2> HIDE DEF y
    <2> QED BY <2>1, <2>2, <2>3 DEF Textual, y
  <1>2. ASSUME NEW w \in DOMAIN Words \ {"none"}, v = Text(w)
        PROVE  /\ Textual(y) /\ y # Null /\ y # Text("none")
               /\ v \notin {Undefined, Null, Text("none")} /\ ~IsList(v)
               /\ \A x \in DOMAIN Words \ {"none"} : v = Text(x) => y = Text(Words[x][c])
               /\ IsText(y) => y[2] \in DOMAIN Words /\ Words[y[2]][c] = y[2]
    <2>1. v[1] = "text" /\ v[2] = w /\ v \notin {Undefined, Null, Text("none")} /\ ~IsList(v)
      BY <1>2, TextApart
    <2>2. y = Text(Words[w][c])
      BY <2>1 DEF ToCase, IsText, IsList
    <2>3. Words[w][c] \in DOMAIN Words /\ Words[w][c] # "none" /\ Words[Words[w][c]][c] = Words[w][c]
      BY WordCases
    <2> DEFINE u == Words[w][c]
    <2> HIDE DEF y, u
    <2>4. y[1] = "text" /\ y[2] = u /\ y # Null /\ y # Text("none")
      BY <2>2, <2>3, TextApart DEF u
    <2>5. Textual(y)
      BY <2>2, <2>3 DEF Textual, Worded
    <2>6. \A x \in DOMAIN Words \ {"none"} : v = Text(x) => x = w
      BY <1>2, TextApart
    <2> QED BY <2>1, <2>2, <2>3, <2>4, <2>5, <2>6 DEF u
  <1>3. CASE ListValue(v) /\ \A k \in DOMAIN v[2] : Worded(v[2][k])
    <2> DEFINE t == [k \in DOMAIN v[2] |-> Text(Words[v[2][k][2]][c])]
    <2>1. IsList(v) /\ ~IsText(v) /\ v \notin {Undefined, Null, Text("none")}
      BY <1>3, Apart DEF ListValue, IsList, IsText
    <2>2. y = IF Null \in {v[2][k] : k \in DOMAIN v[2]} THEN Throws ELSE List(t)
      BY <2>1 DEF ToCase
    <2>3. CASE Null \in {v[2][k] : k \in DOMAIN v[2]}
      BY <2>1, <2>2, <2>3
    <2>4. CASE Null \notin {v[2][k] : k \in DOMAIN v[2]}
      <3>1. \A k \in DOMAIN v[2] : Worded(t[k])
        <4> SUFFICES ASSUME NEW k \in DOMAIN v[2] PROVE Worded(Text(Words[v[2][k][2]][c]))
          OBVIOUS
        <4>1. PICK w \in DOMAIN Words : v[2][k] = Text(w)
          BY <1>3, <2>4 DEF Worded
        <4>2. v[2][k][2] = w
          BY <4>1, Apart
        <4> QED BY <4>2, WordCases DEF Worded
      <3>2. DOMAIN t = DOMAIN v[2] /\ t = [k \in DOMAIN t |-> t[k]]
        OBVIOUS
      <3>3. List(t)[2] = t /\ List(t)[1] = "list"
        BY Apart
      <3> HIDE DEF t
      <3>4. Textual(List(t)) /\ IsList(List(t)) /\ ~IsText(List(t)) /\ List(t) # Null /\ List(t) # Text("none")
        BY <3>1, <3>2, <3>3, Apart DEF Textual, ListValue, IsList, IsText
      <3>5. \A w : v # Text(w)
        BY <2>1, TextApart
      <3>6. y = List(t)
        BY <2>2, <2>4
      <3> HIDE DEF y
      <3> QED BY <2>1, <3>4, <3>5, <3>6 DEF y
    <2> QED BY <2>3, <2>4
  <1> HIDE DEF y
  <1>4. v \in {Undefined, Null, Text("none")} \/ (\E w \in DOMAIN Words \ {"none"} : v = Text(w))
        \/ (ListValue(v) /\ \A k \in DOMAIN v[2] : Worded(v[2][k]))
    BY DEF Textual, Worded
  <1> QED BY <1>1, <1>2, <1>3, <1>4 DEF y

\* The conversion and the changes of a declared field.
LEMMA CheckingParts ==
    ASSUME NEW field, DOMAIN field = {"type", "changes", "skips", "checks"}, NEW checks
    PROVE  /\ Checking(field, checks).type = field.type /\ Checking(field, checks).changes = field.changes
           /\ DOMAIN Checking(field, checks) = DOMAIN field
  BY DEF Checking

CaseOptions(f) == IF f.kind = "email" THEN EmailOptions(f.o) ELSE f.o

LEMMA DecorateParts ==
    ASSUME NEW f, Fits(f)
    PROVE  /\ f.kind = "number" => Decorate(f).type = "Number" /\ Decorate(f).changes = <<>>
           /\ f.kind \in {"token", "uuid"} => Decorate(f).type = "String" /\ Decorate(f).changes = <<>>
           /\ f.kind = "boolean" => Decorate(f).type = "any" /\ Decorate(f).changes = <<"toBoolean">>
           /\ f.kind = "date" => Decorate(f).type = "Date" /\ Decorate(f).changes = <<>>
           /\ f.kind = "enum" => Decorate(f).type = "any" /\ Decorate(f).changes = <<>>
           /\ f.kind = "class" => Decorate(f).type = "class" /\ Decorate(f).changes = <<>>
           /\ f.kind \in TextKinds =>
                Decorate(f).type = "String" /\ Decorate(f).changes = Changes(CaseOptions(f))
  <1> DEFINE Made(field, t, ch) ==
                field.type = t /\ field.changes = ch /\ DOMAIN field = {"type", "changes", "skips", "checks"}
  <1>1. ASSUME NEW field, NEW t, NEW ch, Made(field, t, ch)
        PROVE  /\ Made(Optional(field), t, ch)
               /\ \A checks : Made(Checking(field, checks), t, ch)
    BY <1>1, OptionalParts, CheckingParts
  <1>2. \A t, ch, o, e, cs : Made(Field(t, ch, o, e, cs), t, ch)
    BY FieldParts
  <1>3. f.optional \in BOOLEAN
    BY DEF Fits
  <1> HIDE DEF Made
  <1>4. ASSUME NEW field, NEW t, NEW ch, Made(field, t, ch), Decorate(f) = IF f.optional THEN Optional(field) ELSE field
        PROVE  Made(Decorate(f), t, ch)
    BY <1>1, <1>4
  <1>5. CASE f.kind = "number"
    <2>1. Made(NumberField(f.o), "Number", <<>>)
      BY <1>2 DEF NumberField
    <2>2. Decorate(f) = IF f.optional THEN Optional(NumberField(f.o)) ELSE NumberField(f.o)
      BY <1>5 DEF Decorate, NumberFieldOptional
    <2> QED BY <1>4, <1>5, <2>1, <2>2 DEF Made, TextKinds
  <1>6. CASE f.kind = "token"
    <2>1. Made(TokenField(f.o), "String", <<>>)
      BY <1>2 DEF TokenField
    <2>2. Decorate(f) = TokenField(f.o)
      BY <1>6 DEF Decorate
    <2> QED BY <1>6, <2>1, <2>2 DEF Made, TextKinds
  <1>7. CASE f.kind = "uuid"
    <2>1. Made(UUIDField(f.o), "String", <<>>)
      BY <1>2 DEF UUIDField
    <2>2. Decorate(f) = IF f.optional THEN Optional(UUIDField(f.o)) ELSE UUIDField(f.o)
      BY <1>7 DEF Decorate, UUIDFieldOptional
    <2> QED BY <1>4, <1>7, <2>1, <2>2 DEF Made, TextKinds
  <1>8. CASE f.kind = "boolean"
    <2>1. Made(BooleanField(f.o), "any", <<"toBoolean">>)
      BY <1>2 DEF BooleanField
    <2>2. Decorate(f) = IF f.optional THEN Optional(BooleanField(f.o)) ELSE BooleanField(f.o)
      BY <1>8 DEF Decorate, BooleanFieldOptional
    <2> QED BY <1>4, <1>8, <2>1, <2>2 DEF Made, TextKinds
  <1>9. CASE f.kind = "date"
    <2>1. Made(DateField(f.o), "Date", <<>>)
      BY <1>2 DEF DateField
    <2>2. Decorate(f) = IF f.optional THEN Optional(DateField(f.o)) ELSE DateField(f.o)
      BY <1>9 DEF Decorate, DateFieldOptional
    <2> QED BY <1>4, <1>9, <2>1, <2>2 DEF Made, TextKinds
  <1>10. CASE f.kind = "enum"
    <2>1. Made(EnumField(Enum, f.o), "any", <<>>)
      BY <1>2 DEF EnumField
    <2>2. Decorate(f) = IF f.optional THEN Optional(EnumField(Enum, f.o)) ELSE EnumField(Enum, f.o)
      BY <1>10 DEF Decorate, EnumFieldOptional
    <2> QED BY <1>4, <1>10, <2>1, <2>2 DEF Made, TextKinds
  <1>11. CASE f.kind = "class"
    <2>1. \A o : Made(ClassField(o), "class", <<>>)
      BY <1>2 DEF ClassField
    <2>2. \E o : Decorate(f) = IF f.optional THEN Optional(ClassField(o)) ELSE ClassField(o)
      BY <1>11 DEF Decorate, ClassFieldOptional
    <2> QED BY <1>4, <1>11, <2>1, <2>2 DEF Made, TextKinds
  <1>12. \A o, min : Made(StringFieldOf(o, min), "String", Changes(o))
    BY <1>2 DEF StringFieldOf, Changes
  <1>13. CASE f.kind = "string"
    <2>1. CaseOptions(f) = f.o
      BY <1>13 DEF CaseOptions
    <2>2. \E min : Decorate(f) = IF f.optional THEN Optional(StringFieldOf(f.o, min)) ELSE StringFieldOf(f.o, min)
      <3>1. CASE f.optional
        BY <1>13, <3>1 DEF Decorate, StringFieldOptional
      <3>2. CASE ~f.optional
        BY <1>13, <3>2 DEF Decorate, StringField
      <3> QED BY <3>1, <3>2
    <2> QED BY <1>4, <1>12, <1>13, <2>1, <2>2 DEF Made
  <1>14. CASE f.kind = "password"
    <2>1. CaseOptions(f) = f.o
      BY <1>14 DEF CaseOptions
    <2>2. \E checks : PasswordField(f.o) = Checking(StringFieldOf(f.o, 6), checks)
      BY DEF PasswordField, Checking
    <2>3. Made(PasswordField(f.o), "String", Changes(f.o))
      BY <1>1, <1>12, <2>2
    <2>4. Decorate(f) = IF f.optional THEN Optional(PasswordField(f.o)) ELSE PasswordField(f.o)
      BY <1>14 DEF Decorate, PasswordFieldOptional
    <2> QED BY <1>4, <1>14, <2>1, <2>3, <2>4 DEF Made
  <1>15. CASE f.kind = "email"
    <2>1. CaseOptions(f) = EmailOptions(f.o)
      BY <1>15 DEF CaseOptions
    <2>2. \E min, checks : EmailField(f.o) = Checking(StringFieldOf(EmailOptions(f.o), min), checks)
      BY DEF EmailField, StringField, EmailOptions, Checking
    <2>3. Made(EmailField(f.o), "String", Changes(EmailOptions(f.o)))
      BY <1>1, <1>12, <2>2
    <2>4. Decorate(f) = IF f.optional THEN Optional(EmailField(f.o)) ELSE EmailField(f.o)
      BY <1>15 DEF Decorate, EmailFieldOptional
    <2> QED BY <1>4, <1>15, <2>1, <2>3, <2>4 DEF Made
  <1>16. CASE f.kind = "url"
    <2>1. CaseOptions(f) = f.o
      BY <1>16 DEF CaseOptions
    <2>2. \E min, checks : URLField(f.o) = Checking(StringFieldOf(f.o, min), checks)
      BY DEF URLField, StringField, Checking
    <2>3. Made(URLField(f.o), "String", Changes(f.o))
      BY <1>1, <1>12, <2>2
    <2>4. Decorate(f) = IF f.optional THEN Optional(URLField(f.o)) ELSE URLField(f.o)
      BY <1>16 DEF Decorate, URLFieldOptional
    <2> QED BY <1>4, <1>16, <2>1, <2>3, <2>4 DEF Made
  <1> QED BY <1>5, <1>6, <1>7, <1>8, <1>9, <1>10, <1>11, <1>13, <1>14, <1>15, <1>16 DEF Fits, Kinds, TextKinds

LEMMA TextTransformed ==
    ASSUME NEW field, field.type = "String", NEW low \in BOOLEAN, NEW up \in BOOLEAN, NEW raw,
           field.changes = (IF low THEN <<"toLowerCase">> ELSE <<>>) \o (IF up THEN <<"toUpperCase">> ELSE <<>>)
    PROVE  LET given == Convert("String", raw)
               first == IF low THEN Change("toLowerCase", given) ELSE given
           IN  Transformed(field, raw) = IF up THEN Change("toUpperCase", first) ELSE first
  <1>1. CASE low /\ up
    <2> DEFINE ch == <<"toLowerCase">> \o <<"toUpperCase">>
    <2>1. Len(ch) = 2 /\ ch[1] = "toLowerCase" /\ ch[2] = "toUpperCase" /\ ch # <<>>
      OBVIOUS
    <2>2. field.changes = ch
      BY <1>1
    <2> HIDE DEF ch
    <2> QED BY <1>1, <2>1, <2>2 DEF Transformed
  <1>2. CASE low /\ ~up
    <2>1. field.changes = <<"toLowerCase">>
      BY <1>2
    <2> QED BY <1>2, <2>1 DEF Transformed
  <1>3. CASE ~low /\ up
    <2>1. field.changes = <<"toUpperCase">>
      BY <1>3
    <2> QED BY <1>3, <2>1 DEF Transformed
  <1>4. CASE ~low /\ ~up
    <2>1. field.changes = <<>>
      BY <1>4
    <2> QED BY <1>4, <2>1 DEF Transformed
  <1> QED BY <1>1, <1>2, <1>3, <1>4

LEMMA ChangeMeans ==
    ASSUME NEW v
    PROVE  /\ Change("toLowerCase", v) = IF v = Throws THEN v ELSE ToCase("lower", v)
           /\ Change("toUpperCase", v) = IF v = Throws THEN v ELSE ToCase("upper", v)
           /\ Change("toBoolean", v) = IF v = Throws THEN v ELSE ToBoolean(v)
  BY DEF Change, ToLowerCase, ToUpperCase

\* A text a field with a case to change lets through is one it leaves alone.
LEMMA PromisedCased ==
    ASSUME NEW f, f.kind \in TextKinds, Fits(f), Cased(f), NEW raw \in Raw, Promised(f, raw)
    PROVE  \/ \E w \in DOMAIN Words \ {"none"} :
                raw = Text(w) /\ w = IF Lower(f) THEN Words[w].lower ELSE Words[w].upper
           \/ raw \in {Null, Undefined} /\ f.optional
  <1>1. ~Opt(f.o, "each", FALSE) /\ f.kind # "class"
    BY DEF Fits, Each, TextKinds
  <1>2. (raw \in {Null, Undefined} /\ f.optional) \/ (~IsList(raw) /\ Good(f, raw))
    BY <1>1 DEF Promised
  <1>3. CASE ~IsList(raw) /\ Good(f, raw)
    <2>1. /\ IsText(raw) /\ Words[raw[2]].length \in ShortestText(f)..Opt(f.o, "maxLength", 40)
          /\ raw[2] = IF Lower(f) THEN Words[raw[2]].lower ELSE Words[raw[2]].upper
      BY <1>3, GoodText DEF TextKinds
    <2>2. PICK w \in DOMAIN Words : raw = Text(w)
      <3>1. raw \in Simple \cup {Undefined} /\ raw # Undefined
        BY <1>3, <2>1, RawMeans, Apart DEF ListValue, IsText
      <3> QED BY <2>1, <3>1, SimpleMeans DEF Formed
    <2>3. raw[2] = w
      BY <2>2, TextApart
    <2>4. ShortestText(f) \in Nat /\ ShortestText(f) > 0 /\ Opt(f.o, "maxLength", 40) \in Nat
      <3>1. CASE f.kind = "password"
        BY <3>1 DEF ShortestText, Opt, Fits, Optioned
      <3>2. CASE f.kind # "password"
        <4>1. ShortestText(f) = IF Opt(f.o, "minLength", 1) = 0 THEN 1 ELSE Opt(f.o, "minLength", 1)
          BY <3>2 DEF ShortestText
        <4>2. Opt(f.o, "minLength", 1) \in Nat /\ Opt(f.o, "maxLength", 40) \in Nat
          BY DEF Opt, Fits, Optioned
        <4> QED BY <4>1, <4>2
      <3> QED BY <3>1, <3>2
    <2>5. Words[w].length \in ShortestText(f)..Opt(f.o, "maxLength", 40)
      BY <2>1, <2>3
    <2>6. w # "none"
      <3>1. Words[w].length > 0
        BY <2>4, <2>5, WordLengths
      <3> QED BY <3>1, WordLengths
    <2>7. w = IF Lower(f) THEN Words[w].lower ELSE Words[w].upper
      BY <2>1, <2>3
    <2> QED BY <2>2, <2>6, <2>7
  <1> QED BY <1>2, <1>3

\* What a text field makes of what a client sends.
LEMMA TextGiven ==
    ASSUME NEW f, f.kind \in TextKinds, Fits(f), NEW raw \in Raw
    PROVE  LET given == Transformed(Decorate(f), raw)
           IN  /\ given = Throws \/ (WellFormed(given) /\ CaseChanged(f, given))
               /\ Promised(f, raw) => given = raw \/ (given = Undefined /\ f.optional /\ Cased(f))
  <1> DEFINE o == CaseOptions(f)
             low == Opt(o, "toLowerCase", FALSE)
             up == Opt(o, "toUpperCase", FALSE)
             given == Transformed(Decorate(f), raw)
             text == Convert("String", raw)
             first == IF low THEN Change("toLowerCase", text) ELSE text
  <1>1. low \in BOOLEAN /\ up \in BOOLEAN /\ (Cased(f) <=> low \/ up) /\ (Lower(f) <=> low /\ ~up)
    <2>1. CASE f.kind = "email"
      <3>1. o = EmailOptions(f.o) /\ Optioned(f.o)
        BY <2>1 DEF CaseOptions, Fits
      <3>2. low = Opt(f.o, "toLowerCase", TRUE) /\ up = Opt(f.o, "toUpperCase", FALSE)
        <4>1. /\ \A n, d : n # "toLowerCase" => Opt(EmailOptions(f.o), n, d) = Opt(f.o, n, d)
              /\ \A d : Opt(EmailOptions(f.o), "toLowerCase", d) = Opt(f.o, "toLowerCase", TRUE)
          BY <3>1, EmailOpts
        <4> HIDE DEF o
        <4> QED BY <3>1, <4>1
      <3>3. Opt(f.o, "toLowerCase", TRUE) \in BOOLEAN /\ Opt(f.o, "toUpperCase", FALSE) \in BOOLEAN
        BY <3>1, OptionTypes
      <3>4. Opt(f.o, "toLowerCase", f.kind = "email") = Opt(f.o, "toLowerCase", TRUE)
        BY <2>1
      <3> HIDE DEF low, up
      <3>5. Cased(f) <=> Opt(f.o, "toUpperCase", FALSE) \/ Opt(f.o, "toLowerCase", TRUE)
        BY <2>1, <3>4 DEF Cased
      <3>6. Lower(f) <=> Opt(f.o, "toLowerCase", TRUE) /\ ~Opt(f.o, "toUpperCase", FALSE)
        BY <2>1, <3>4 DEF Lower
      <3> QED BY <3>2, <3>3, <3>5, <3>6
    <2>2. CASE f.kind # "email"
      <3>1. o = f.o /\ Optioned(f.o)
        BY <2>2 DEF CaseOptions, Fits
      <3>2. low \in BOOLEAN /\ up \in BOOLEAN
        BY <3>1, OptionTypes
      <3>3. (f.kind = "email") = FALSE
        BY <2>2
      <3>4. Opt(f.o, "toLowerCase", f.kind = "email") = low /\ Opt(f.o, "toUpperCase", FALSE) = up
        BY <3>1, <3>3
      <3> HIDE DEF low, up
      <3>5. Cased(f) <=> up \/ low
        BY <3>4 DEF Cased, TextKinds
      <3>6. Lower(f) <=> low /\ ~up
        BY <3>4 DEF Lower
      <3> QED BY <3>2, <3>5, <3>6
    <2> QED BY <2>1, <2>2
  <1>2. given = IF up THEN Change("toUpperCase", first) ELSE first
    <2>1. Decorate(f).type = "String"
          /\ Decorate(f).changes = (IF low THEN <<"toLowerCase">> ELSE <<>>) \o (IF up THEN <<"toUpperCase">> ELSE <<>>)
      BY DecorateParts DEF Changes
    <2> HIDE DEF low, up
    <2> QED BY <1>1, <2>1, TextTransformed
  <1>3. /\ Textual(text)
        /\ IsText(raw) \/ raw \in {Null, Undefined} => text = raw
        /\ IsList(raw) /\ (\A k \in DOMAIN raw[2] : IsText(raw[2][k]) \/ raw[2][k] = Null) => text = raw
    BY ConvertedText
  <1> HIDE DEF low, up, text, o
  <1>4. CASE ~low /\ ~up
    <2>1. given = text /\ ~Cased(f)
      BY <1>1, <1>2, <1>4
    <2>2. WellFormed(given) /\ CaseChanged(f, given)
      BY <1>3, <2>1, TextualFormed DEF CaseChanged
    <2>3. Promised(f, raw) => text = raw
      <3> SUFFICES ASSUME Promised(f, raw) PROVE text = raw
        OBVIOUS
      <3>1. \A x : Good(f, x) => IsText(x)
        BY GoodText DEF TextKinds
      <3>2. \/ raw \in {Null, Undefined} \/ Good(f, raw)
            \/ IsList(raw) /\ \A k \in DOMAIN raw[2] : Good(f, raw[2][k])
        BY DEF Promised
      <3> QED BY <1>3, <3>1, <3>2
    <2> HIDE DEF given
    <2> QED BY <2>1, <2>2, <2>3 DEF given
  <1>5. CASE low \/ up
    <2> DEFINE c == IF Lower(f) THEN "lower" ELSE "upper"
    <2>1. Cased(f) /\ c \in {"lower", "upper"}
      BY <1>1, <1>5
    <2>2. PICK v : /\ Textual(v) /\ (given = Throws \/ given = ToCase(c, v))
                   /\ IsList(text) \/ given = ToCase(c, v)
                   /\ v = text \/ (v = ToCase("lower", text) /\ v # Throws)
      <3>1. CASE ~up
        <4>1. given = ToCase("lower", text) /\ c = "lower"
          BY <1>1, <1>2, <1>3, <1>5, <3>1, TextualFormed, ChangeMeans
        <4> QED BY <1>3, <4>1
      <3>2. CASE up /\ ~low
        <4>1. given = ToCase("upper", text) /\ c = "upper"
          BY <1>1, <1>2, <1>3, <1>5, <3>2, TextualFormed, ChangeMeans
        <4> QED BY <1>3, <4>1
      <3>3. CASE up /\ low
        <4>1. c = "upper" /\ given = Change("toUpperCase", ToCase("lower", text))
          BY <1>1, <1>2, <1>3, <3>3, TextualFormed, ChangeMeans
        <4>2. CASE ToCase("lower", text) = Throws
          <5>1. IsList(text) /\ given = Throws
            <6>1. IsList(text)
              BY <1>3, <4>2, CaseOnce, TextualFormed
            <6> QED BY <4>1, <4>2, <6>1, ChangeMeans
          <5> QED BY <1>3, <5>1
        <4>3. CASE ToCase("lower", text) # Throws
          <5>1. Textual(ToCase("lower", text))
            BY <1>3, <4>3, CaseOnce
          <5>2. given = ToCase("upper", ToCase("lower", text))
            BY <4>1, <4>3, ChangeMeans
          <5> QED BY <4>1, <4>3, <5>1, <5>2
        <4> QED BY <4>2, <4>3
      <3> QED BY <1>5, <3>1, <3>2, <3>3
    <2> HIDE DEF given
    <2>3. given = Throws \/ (WellFormed(given) /\ CaseChanged(f, given))
      <3> SUFFICES ASSUME given # Throws PROVE WellFormed(given) /\ CaseChanged(f, given)
        OBVIOUS
      <3>1. /\ Textual(given) /\ given # Null /\ given # Text("none")
            /\ IsText(given) => Words[given[2]][c] = given[2]
        <4> HIDE DEF c
        <4> QED BY <2>1, <2>2, CaseOnce
      <3>2. IsText(given) => given[2] = IF Lower(f) THEN Words[given[2]].lower ELSE Words[given[2]].upper
        BY <3>1
      <3> QED BY <3>1, <3>2, TextualFormed DEF CaseChanged
    <2>4. ASSUME Promised(f, raw) PROVE given = raw \/ (given = Undefined /\ f.optional)
      <3>1. CASE raw \in {Null, Undefined} /\ f.optional
        <4>1. text = raw /\ ~IsList(text)
          BY <1>3, <3>1, Apart DEF IsList
        <4>2. v \in {Null, Undefined}
          <5>1. ToCase("lower", text) = Undefined \/ ToCase("lower", text) = Throws
            BY <1>3, <3>1, <4>1, CaseOnce
          <5>2. ToCase("lower", text) # Throws \/ IsList(text)
            BY <1>3, CaseOnce, TextualFormed
          <5> QED BY <2>2, <3>1, <4>1, <5>1, <5>2
        <4>3. given = ToCase(c, v)
          BY <2>2, <4>1
        <4>4. given = Undefined
          <5> HIDE DEF c
          <5>1. ~IsList(v)
            BY <4>2, Apart DEF IsList
          <5> QED BY <2>1, <2>2, <4>2, <4>3, <5>1, CaseOnce
        <4> QED BY <3>1, <4>4
      <3>2. ASSUME NEW w \in DOMAIN Words \ {"none"}, raw = Text(w),
                   w = IF Lower(f) THEN Words[w].lower ELSE Words[w].upper
            PROVE  given = raw
        <4>1. text = Text(w) /\ ~IsList(text)
          BY <1>3, <3>2, TextApart
        <4>2. PICK x \in DOMAIN Words \ {"none"} : v = Text(x) /\ (x = w \/ x = Words[w].lower)
          <5>1. Words[w].lower \in DOMAIN Words \ {"none"}
            <6>1. Words[w]["lower"] \in DOMAIN Words /\ (Words[w]["lower"] = "none" <=> w = "none")
              BY WordCases
            <6> QED BY <6>1
          <5>2. ToCase("lower", text) = Text(Words[w].lower)
            BY <1>3, <4>1, CaseOnce
          <5> QED BY <2>2, <4>1, <5>1, <5>2
        <4>3. given = ToCase(c, v) /\ ~IsList(v)
          BY <2>2, <4>1, <4>2, TextApart
        <4>4. given = Text(Words[x][c])
          <5> HIDE DEF c
          <5> QED BY <2>1, <2>2, <4>2, <4>3, CaseOnce
        <4>5. Words[x][c] = Words[w][c] /\ Words[w][c] = w
          BY <2>1, <3>2, <4>2, WordCases
        <4> QED BY <3>2, <4>4, <4>5
      <3> QED BY <2>1, <2>4, <3>1, <3>2, PromisedCased
    <2> QED BY <2>1, <2>3, <2>4 DEF given
  <1> QED BY <1>1, <1>4, <1>5

\* What any other field makes of it.
LEMMA ConvertedAny ==
    ASSUME NEW raw \in Raw, NEW type
    PROVE  LET given == Convert(type, raw)
           IN  /\ WellFormed(given) /\ given # Throws
               /\ ~IsList(raw) /\ ConvertOne(type, raw) = raw => given = raw
               /\ IsList(raw) /\ (\A k \in DOMAIN raw[2] : ConvertOne(type, raw[2][k]) = raw[2][k]) => given = raw
               /\ IsList(given) => IsList(raw)
  <1>1. CASE raw \in Simple \cup {Undefined}
    <2>1. ~IsList(raw)
      BY <1>1, SimpleMeans, Apart DEF IsList
    <2>2. Convert(type, raw) = ConvertOne(type, raw)
      BY <2>1 DEF Convert
    <2> QED BY <1>1, <2>1, <2>2, ConvertedOne DEF WellFormed
  <1>2. CASE ListValue(raw) /\ \A k \in DOMAIN raw[2] : raw[2][k] \in Simple
    <2> DEFINE t == [k \in DOMAIN raw[2] |-> ConvertOne(type, raw[2][k])]
    <2>1. IsList(raw)
      BY <1>2 DEF ListValue
    <2>2. Convert(type, raw) = List(t)
      BY <2>1 DEF Convert
    <2>3. DOMAIN t = DOMAIN raw[2] /\ \A k \in DOMAIN raw[2] : Formed(t[k])
      BY <1>2, ConvertedOne
    <2>4. List(t)[2] = t /\ List(t)[1] = "list"
      BY Apart
    <2>5. (\A k \in DOMAIN raw[2] : ConvertOne(type, raw[2][k]) = raw[2][k]) => List(t) = raw
      <3> SUFFICES ASSUME \A k \in DOMAIN raw[2] : ConvertOne(type, raw[2][k]) = raw[2][k] PROVE List(t) = raw
        OBVIOUS
      <3>1. t = [k \in DOMAIN raw[2] |-> raw[2][k]]
        OBVIOUS
      <3> HIDE DEF t
      <3> QED BY <1>2, <3>1 DEF ListValue
    <2> HIDE DEF t
    <2>6. WellFormed(List(t)) /\ List(t) # Throws
      BY <2>3, <2>4, Apart DEF WellFormed, Formed, IsText
    <2> QED BY <2>1, <2>2, <2>5, <2>6
  <1> QED BY <1>1, <1>2, RawMeans

\* A converted value of the kind stays as it is.
LEMMA GoodKept ==
    ASSUME NEW f, Fits(f), f.kind \notin TextKinds, NEW x \in Simple \cup {Undefined},
           Good(f, x) \/ x \in {Null, Undefined}
    PROVE  ConvertOne(Decorate(f).type, x) = x
  <1>1. CASE x \in {Null, Undefined}
    BY <1>1 DEF ConvertOne
  <1>2. CASE Good(f, x) /\ x # Undefined
    <2>1. CASE f.kind = "number"
      BY <1>2, <2>1, DecorateParts, ConvertedOne, GoodNumber
    <2>2. CASE f.kind \in {"token", "uuid"}
      BY <1>2, <2>2, DecorateParts, ConvertedOne, GoodOther DEF Looks
    <2>3. CASE f.kind \in {"boolean", "enum", "class"}
      <3>1. Decorate(f).type \in {"any", "class"}
        BY <2>3, DecorateParts
      <3> QED BY <3>1, ConvertedOne
    <2>4. CASE f.kind = "date"
      <3>1. x = Date /\ x \in Simple
        BY <1>2, <2>4, GoodOther
      <3> QED BY <3>1, SimpleMeans
    <2> QED BY <2>1, <2>2, <2>3, <2>4 DEF Fits, Kinds, TextKinds
  <1> QED BY <1>1, <1>2

LEMMA OtherGiven ==
    ASSUME NEW f, f.kind \notin TextKinds, Fits(f), NEW raw \in Raw
    PROVE  LET given == Transformed(Decorate(f), raw)
           IN  /\ given # Throws /\ WellFormed(given)
               /\ Promised(f, raw) => given = raw
  <1> DEFINE given == Transformed(Decorate(f), raw)
             converted == Convert(Decorate(f).type, raw)
  <1>1. WellFormed(converted) /\ converted # Throws /\ (IsList(converted) => IsList(raw))
    BY ConvertedAny
  <1>2. Promised(f, raw) => converted = raw
    <2> SUFFICES ASSUME Promised(f, raw) PROVE converted = raw
      OBVIOUS
    <2>1. \/ ~IsList(raw) /\ (Good(f, raw) \/ raw \in {Null, Undefined})
          \/ IsList(raw) /\ \A k \in DOMAIN raw[2] : Good(f, raw[2][k])
      BY Apart DEF Promised, IsList
    <2>2. CASE ~IsList(raw) /\ (Good(f, raw) \/ raw \in {Null, Undefined})
      <3>1. raw \in Simple \cup {Undefined}
        BY <2>2, RawMeans DEF ListValue
      <3>2. ConvertOne(Decorate(f).type, raw) = raw
        BY <2>2, <3>1, GoodKept
      <3> QED BY <2>2, <3>2, ConvertedAny
    <2>3. CASE IsList(raw) /\ \A k \in DOMAIN raw[2] : Good(f, raw[2][k])
      <3>1. \A k \in DOMAIN raw[2] : raw[2][k] \in Simple
        BY <2>3, RawMeans, SimpleMeans, Apart DEF IsList
      <3>2. \A k \in DOMAIN raw[2] : ConvertOne(Decorate(f).type, raw[2][k]) = raw[2][k]
        BY <2>3, <3>1, GoodKept
      <3> QED BY <2>3, <3>2, ConvertedAny
    <2> QED BY <2>1, <2>2, <2>3
  <1>3. CASE f.kind # "boolean"
    <2>1. Decorate(f).changes = <<>>
      BY <1>3, DecorateParts DEF Fits, Kinds, TextKinds
    <2>2. given = converted
      BY <2>1 DEF Transformed
    <2> HIDE DEF converted
    <2> QED BY <1>1, <1>2, <2>2 DEF given
  <1>4. CASE f.kind = "boolean"
    <2>1. Decorate(f).changes = <<"toBoolean">>
      BY <1>4, DecorateParts
    <2>2. given = Change("toBoolean", converted)
      BY <2>1 DEF Transformed
    <2>3. given = ToBoolean(converted)
      <3> HIDE DEF converted
      <3> QED BY <1>1, <2>2, ChangeMeans
    <2> HIDE DEF converted, given
    <2>4. given = converted \/ given \in {Boolean(TRUE), Boolean(FALSE)}
      BY <2>3 DEF ToBoolean
    <2>5. given # Throws /\ WellFormed(given)
      <3>1. CASE given \in {Boolean(TRUE), Boolean(FALSE)}
        <4>1. Boolean(TRUE)[1] = "boolean" /\ Boolean(FALSE)[1] = "boolean"
          BY DEF Boolean
        <4>2. given[1] = "boolean"
          BY <3>1, <4>1
        <4> QED BY <3>1, <4>2, Apart DEF WellFormed, Formed, IsText, IsList
      <3> QED BY <1>1, <2>4, <3>1
    <2>6. Promised(f, raw) => given = raw
      <3> SUFFICES ASSUME Promised(f, raw) PROVE given = raw
        OBVIOUS
      <3>1. ~IsText(raw)
        <4>1. \A x : Good(f, x) => x \in {Boolean(TRUE), Boolean(FALSE)}
          BY <1>4, GoodOther
        <4>2. Boolean(TRUE)[1] = "boolean" /\ Boolean(FALSE)[1] = "boolean"
          BY DEF Boolean
        <4>3. IsList(raw) \/ raw \in {Null, Undefined} \/ raw \in {Boolean(TRUE), Boolean(FALSE)}
          BY <4>1 DEF Promised
        <4>4. raw[1] \in {"list", "null", "undefined", "boolean"}
          BY <4>2, <4>3, Apart DEF IsList
        <4> QED BY <4>4 DEF IsText
      <3>2. ToBoolean(raw) = raw
        BY <3>1, TextApart DEF ToBoolean
      <3> QED BY <1>2, <2>3, <3>2
    <2> QED BY <2>5, <2>6 DEF given
  <1> QED BY <1>3, <1>4

(* Whatever is sent for a field of any declaration, the field lets through *)
(* what its kind and options tell, unchanged: no converter, validator or   *)
(* skip of src/decorators adds to it or takes from it.                     *)
LEMMA FieldKeepsPromise ==
    ASSUME NEW f, Fits(f), NEW raw \in Raw
    PROVE  LET given == Transformed(Decorate(f), raw)
           IN  /\ Passes(Decorate(f), given) <=> given # Throws /\ Promised(f, given)
               /\ Promised(f, raw) => given = raw \/ (given = Undefined /\ f.optional /\ Cased(f))
  <1> DEFINE given == Transformed(Decorate(f), raw)
  <1>1. /\ given = Throws \/ (WellFormed(given) /\ CaseChanged(f, given))
        /\ Promised(f, raw) => given = raw \/ (given = Undefined /\ f.optional /\ Cased(f))
    <2>1. CASE f.kind \in TextKinds
      BY <2>1, TextGiven
    <2>2. CASE f.kind \notin TextKinds
      <3>1. ~Cased(f)
        BY <2>2 DEF Cased, TextKinds
      <3> QED BY <2>2, <3>1, OtherGiven DEF CaseChanged
    <2> QED BY <2>1, <2>2
  <1>2. given = Throws => ~Passes(Decorate(f), given)
    BY DEF Passes
  <1> HIDE DEF given
  <1>3. Passes(Decorate(f), given) <=> given # Throws /\ Promised(f, given)
    BY <1>1, <1>2, DecoratePasses
  <1> QED BY <1>1, <1>3 DEF given

(* Every field lets through exactly the values its kind and options tell,  *)
(* whatever was sent, and hands them on as they were sent.                 *)
THEOREM EveryFieldKeepsPromise == EveryFieldPromises
  BY DeclaredFits, FieldKeepsPromise DEF EveryFieldPromises
-----------------------------------------------------------------------------
(* The DTOs.  A handler gets what they tell of its parameters.             *)
WholeNumber == [kind |-> "number", optional |-> TRUE, o |-> [int |-> TRUE]]
OrderTold == [kind |-> "enum", optional |-> TRUE, o |-> [enum |-> {"asc", "desc"}]]
NullableText == [kind |-> "string", optional |-> TRUE, o |-> [nullable |-> TRUE]]

LEMMA ToldFields ==
    /\ DOMAIN Told = Listing
    /\ \A route \in Listing : DOMAIN Told[route] = DOMAIN Dto(route)
    /\ \A route \in Listing : \A p \in DOMAIN Dto(route) :
            \/ Dto(route)[p] = WholeOptional /\ Told[route][p] = FromOne
            \/ Dto(route)[p] = StringFieldOptional(<<>>) /\ Told[route][p] = AnyText
            \/ Dto(route)[p] = StringFieldOptional([nullable |-> TRUE]) /\ Told[route][p] = AnyText
            \/ Dto(route)[p] = EnumFieldOptional({"asc", "desc"}, <<>>) /\ Told[route][p] = OrderTold
  <1> DEFINE text == StringFieldOptional(<<>>)
             nullable == StringFieldOptional([nullable |-> TRUE])
             order == EnumFieldOptional({"asc", "desc"}, <<>>)
             asc == OrderTold
  <1>1. /\ Dto("all") = [limit |-> WholeOptional, page |-> WholeOptional, q |-> text, order |-> order]
        /\ Dto("cursor") = [limit |-> WholeOptional, afterCursor |-> text, beforeCursor |-> text, q |-> text]
    BY DEF Dto, OffsetQuery, CursorQuery
  <1>2. /\ Told["all"] = [limit |-> FromOne, page |-> FromOne, q |-> AnyText, order |-> asc]
        /\ Told["cursor"] = [limit |-> FromOne, afterCursor |-> AnyText, beforeCursor |-> AnyText, q |-> AnyText]
        /\ Told["profile"] = [username |-> AnyText, firstName |-> AnyText, lastName |-> AnyText, image |-> AnyText]
        /\ DOMAIN Told = Listing
    BY DEF Told, OrderTold, Listing
  <1> HIDE DEF text, nullable, order, asc
  <1>3. /\ DOMAIN Dto("profile") = {"username", "firstName", "lastName", "image"}
        /\ \A p \in DOMAIN Dto("profile") : Dto("profile")[p] \in {text, nullable}
    <2> DEFINE parts == {"username", "firstName", "lastName", "image"}
               one(p) == StringFieldOptional(IF p = "username" THEN <<>> ELSE [nullable |-> TRUE])
    <2>1. Dto("profile") = [p \in parts |-> one(p)]
      BY DEF Dto, UpdateUserProfileDto
    <2>2. \A p \in parts : one(p) \in {text, nullable}
      BY DEF text, nullable
    <2> HIDE DEF one
    <2> QED BY <2>1, <2>2
  <1>4. \A route \in Listing : DOMAIN Told[route] = DOMAIN Dto(route)
    BY <1>1, <1>2, <1>3 DEF Listing
  <1>5. \A p \in DOMAIN Dto("all") :
            \/ Dto("all")[p] = WholeOptional /\ Told["all"][p] = FromOne
            \/ Dto("all")[p] = text /\ Told["all"][p] = AnyText
            \/ Dto("all")[p] = order /\ Told["all"][p] = asc
    BY <1>1, <1>2
  <1>6. \A p \in DOMAIN Dto("cursor") :
            \/ Dto("cursor")[p] = WholeOptional /\ Told["cursor"][p] = FromOne
            \/ Dto("cursor")[p] = text /\ Told["cursor"][p] = AnyText
    BY <1>1, <1>2
  <1>7. \A p \in DOMAIN Dto("profile") : Dto("profile")[p] \in {text, nullable} /\ Told["profile"][p] = AnyText
    BY <1>2, <1>3
  <1> QED BY <1>2, <1>4, <1>5, <1>6, <1>7 DEF Listing, text, nullable, order, asc

\* What is thrown is not let through, and nobody promised it.
LEMMA ThrowsApart == ASSUME NEW f, f.kind \in {"number", "string"} PROVE ~Promised(f, Throws)
  <1>1. ~Good(f, Throws)
    <2>1. ~IsNumber(Throws) /\ ~IsText(Throws)
      BY Apart DEF IsNumber, IsText
    <2>2. CASE f.kind = "number"
      BY <2>1, <2>2, GoodNumber
    <2>3. CASE f.kind = "string"
      BY <2>1, <2>3, GoodText
    <2> QED BY <2>2, <2>3
  <1> QED BY <1>1, Apart DEF Promised, IsList

\* A parameter that is told, or a whole number under a minimum that nobody checks.
Meets(told, v) == Promised(told, v) \/ Unchecked(told, v)

LEMMA MeetsMean ==
    ASSUME NEW v
    PROVE  /\ Meets(FromOne, v) <=> Promised(WholeNumber, v)
           /\ Meets(AnyText, v) <=> Promised(AnyText, v)
           /\ Meets(OrderTold, v) <=> Promised(OrderTold, v)
  <1>1. /\ FromOne.kind = "number" /\ FromOne.optional = TRUE /\ FromOne.o = [int |-> TRUE, minimum |-> 1]
        /\ WholeNumber.kind = "number" /\ WholeNumber.optional = TRUE /\ WholeNumber.o = [int |-> TRUE]
    BY DEF FromOne, WholeNumber
  <1>2. /\ DOMAIN FromOne.o = {"int", "minimum"} /\ FromOne.o.int = TRUE /\ FromOne.o.minimum = 1
        /\ DOMAIN WholeNumber.o = {"int"} /\ WholeNumber.o.int = TRUE
    BY <1>1
  <1>3. /\ Opt(FromOne.o, "each", FALSE) = FALSE /\ Opt(WholeNumber.o, "each", FALSE) = FALSE
        /\ Opt(FromOne.o, "isPositive", FALSE) = FALSE /\ Opt(WholeNumber.o, "isPositive", FALSE) = FALSE
        /\ Opt(FromOne.o, "int", FALSE) = TRUE /\ Opt(WholeNumber.o, "int", FALSE) = TRUE
    BY <1>2 DEF Opt
  <1>4. Good(FromOne, v) <=> IsNumber(v) /\ v[2] % 2 = 0 /\ v[2] >= 2 * 1
    BY <1>1, <1>2, <1>3, GoodNumber
  <1>5. Good(WholeNumber, v) <=> IsNumber(v) /\ v[2] % 2 = 0
    BY <1>1, <1>2, <1>3, GoodNumber
  <1>6. Unchecked(FromOne, v) <=> IsNumber(v) /\ v[2] % 2 = 0 /\ ~(v[2] >= 2 * 1)
    BY <1>2 DEF Unchecked
  <1>7. /\ Promised(FromOne, v) <=> (v \notin {Null, Undefined} /\ ~IsList(v) /\ Good(FromOne, v)) \/ v \in {Null, Undefined}
        /\ Promised(WholeNumber, v) <=> (v \notin {Null, Undefined} /\ ~IsList(v) /\ Good(WholeNumber, v)) \/ v \in {Null, Undefined}
    BY <1>1, <1>3 DEF Promised
  <1>8. IsNumber(v) => v \notin {Null, Undefined} /\ ~IsList(v)
    BY Apart DEF IsNumber, IsList
  <1>9. Meets(FromOne, v) <=> Promised(WholeNumber, v)
    BY <1>4, <1>5, <1>6, <1>7, <1>8 DEF Meets
  <1>10. ~Unchecked(AnyText, v) /\ ~Unchecked(OrderTold, v)
    <2>1. AnyText.o = <<>> /\ OrderTold.o = [enum |-> {"asc", "desc"}]
      BY DEF AnyText, OrderTold
    <2>2. "minimum" \notin DOMAIN AnyText.o /\ "minimum" \notin DOMAIN OrderTold.o
      BY <2>1
    <2> QED BY <2>2 DEF Unchecked
  <1> QED BY <1>9, <1>10 DEF Meets

LEMMA ToldPasses ==
    ASSUME NEW route \in Listing, NEW p \in DOMAIN Dto(route), NEW raw \in Raw
    PROVE  LET given == Transformed(Dto(route)[p], raw)
           IN  Passes(Dto(route)[p], given) <=> Meets(Told[route][p], given)
  <1> DEFINE field == Dto(route)[p]
             given == Transformed(field, raw)
  <1> SUFFICES Passes(field, given) <=> Meets(Told[route][p], given)
    OBVIOUS
  <1>1. ASSUME NEW f, Fits(f), f.kind \in {"number", "string"}, Decorate(f) = field
        PROVE  Passes(field, given) <=> Promised(f, given)
    <2>1. Passes(field, given) <=> given # Throws /\ Promised(f, given)
      BY <1>1, FieldKeepsPromise
    <2> HIDE DEF given
    <2> QED BY <1>1, <2>1, ThrowsApart
  <1>2. CASE field = WholeOptional /\ Told[route][p] = FromOne
    <2>1. Decorate(WholeNumber) = WholeOptional /\ WholeNumber.kind = "number"
      BY WholeIs, PlainWholeIs DEF Decorate, WholeNumber
    <2>2. Fits(WholeNumber)
      <3>1. WholeNumber.kind = "number" /\ WholeNumber.optional = TRUE /\ WholeNumber.o = [int |-> TRUE]
        BY DEF WholeNumber
      <3>2. Optioned([int |-> TRUE]) /\ Each([int |-> TRUE]) = FALSE /\ "enum" \notin DOMAIN [int |-> TRUE]
        BY DEF Optioned, Each, Opt
      <3> QED BY <3>1, <3>2 DEF Fits, Kinds
    <2>3. Passes(field, given) <=> Promised(WholeNumber, given)
      BY <1>1, <1>2, <2>1, <2>2
    <2> HIDE DEF given, field
    <2> QED BY <1>2, <2>3, MeetsMean
  <1>3. Decorate(AnyText) = StringFieldOptional(<<>>) /\ AnyText.kind = "string" /\ Fits(AnyText)
    <2>1. Decorate(AnyText) = StringFieldOptional(<<>>) /\ AnyText.kind = "string"
      BY DEF Decorate, AnyText
    <2>2. Fits(AnyText)
      <3>1. AnyText.kind = "string" /\ AnyText.optional = TRUE /\ AnyText.o = <<>>
        BY DEF AnyText
      <3>2. Optioned(<<>>) /\ Each(<<>>) = FALSE /\ "enum" \notin DOMAIN <<>>
        BY DEF Optioned, Each, Opt
      <3> QED BY <3>1, <3>2 DEF Fits, Kinds
    <2> QED BY <2>1, <2>2
  <1>4. CASE field = StringFieldOptional(<<>>) /\ Told[route][p] = AnyText
    <2>1. Passes(field, given) <=> Promised(AnyText, given)
      BY <1>1, <1>3, <1>4
    <2> HIDE DEF given, field
    <2> QED BY <1>4, <2>1, MeetsMean
  <1>5. CASE field = StringFieldOptional([nullable |-> TRUE]) /\ Told[route][p] = AnyText
    <2>1. Decorate(NullableText) = StringFieldOptional([nullable |-> TRUE]) /\ NullableText.kind = "string"
      BY DEF Decorate, NullableText
    <2>2. Fits(NullableText)
      <3>1. NullableText.kind = "string" /\ NullableText.optional = TRUE /\ NullableText.o = [nullable |-> TRUE]
        BY DEF NullableText
      <3>2. /\ Optioned([nullable |-> TRUE]) /\ Each([nullable |-> TRUE]) = FALSE
            /\ "enum" \notin DOMAIN [nullable |-> TRUE]
        BY DEF Optioned, Each, Opt
      <3> QED BY <3>1, <3>2 DEF Fits, Kinds
    <2>3. Passes(field, given) <=> Promised(NullableText, given)
      BY <1>1, <1>5, <2>1, <2>2
    <2>4. \A x : Good(NullableText, x) <=> Good(AnyText, x)
      <3>1. ~Cased(NullableText) /\ ~Cased(AnyText) /\ NullableText.kind = "string" /\ AnyText.kind = "string"
        BY DEF Cased, NullableText, AnyText, Opt
      <3>2. ShortestText(NullableText) = 0 /\ ShortestText(AnyText) = 0
        BY <3>1 DEF ShortestText, NullableText, AnyText, Opt
      <3>3. Opt(NullableText.o, "maxLength", 40) = 40 /\ Opt(AnyText.o, "maxLength", 40) = 40
        BY DEF NullableText, AnyText, Opt
      <3> QED BY <3>1, <3>2, <3>3, GoodText
    <2>5. /\ NullableText.optional /\ AnyText.optional /\ NullableText.kind # "class" /\ AnyText.kind # "class"
          /\ ~Opt(NullableText.o, "each", FALSE) /\ ~Opt(AnyText.o, "each", FALSE)
      BY DEF NullableText, AnyText, Opt
    <2> HIDE DEF given
    <2>6. Promised(NullableText, given) <=> Promised(AnyText, given)
      BY <2>4, <2>5 DEF Promised
    <2> HIDE DEF field
    <2> QED BY <1>5, <2>3, <2>6, MeetsMean
  <1>6. CASE field = EnumFieldOptional({"asc", "desc"}, <<>>) /\ Told[route][p] = OrderTold
    <2> DEFINE enum == {"asc", "desc"}
    <2>1. field.type = "any" /\ field.changes = <<>>
      <3> DEFINE plain == EnumField(enum, <<>>)
      <3>1. plain.type = "any" /\ plain.changes = <<>> /\ DOMAIN plain = {"type", "changes", "skips", "checks"}
        BY DEF EnumField, Field
      <3>2. field = Optional(plain)
        BY <1>6 DEF EnumFieldOptional
      <3> HIDE DEF plain, field
      <3> QED BY <3>1, <3>2, OptionalParts
    <2>2. WellFormed(given) /\ given # Throws
      BY <2>1, ConvertedAny DEF Transformed
    <2>3. OrderTold.kind = "enum" /\ OrderTold.optional = TRUE /\ enum = Opt(OrderTold.o, "enum", Enum)
      BY DEF OrderTold, Opt
    <2>4. Optioned(OrderTold.o) /\ Optioned(<<>>)
      BY DEF OrderTold, Optioned
    <2>5. /\ Opt(<<>>, "nullable", FALSE) = Opt(OrderTold.o, "nullable", FALSE)
          /\ Each(<<>>) = Each(OrderTold.o)
      BY DEF OrderTold, Opt, Each
    <2> HIDE DEF given, enum
    <2>6. Passes(EnumFieldOptional(enum, <<>>), given) <=> Promised(OrderTold, given)
      BY <2>2, <2>3, <2>4, <2>5, EnumPasses
    <2>7. Passes(field, given) <=> Promised(OrderTold, given)
      BY <1>6, <2>6 DEF enum
    <2> HIDE DEF field
    <2> QED BY <1>6, <2>7, MeetsMean
  <1> QED BY <1>2, <1>4, <1>5, <1>6, ToldFields

\* The pipe refuses exactly what the DTO does not tell.
Keeps(i, p) == p \in DOMAIN Told[i.route] /\ Meets(Told[i.route][p], Param(i, p, Undefined))

LEMMA RefusedMeans ==
    ASSUME NEW i \in Inputs, i.route \in Listing
    PROVE  Refused(i) <=> \E p \in DOMAIN i.query :
                            ~Keeps(i, p) /\ ~(i.route = "profile" /\ p \notin DOMAIN Told[i.route])
  <1>1. DOMAIN Told[i.route] = DOMAIN Dto(i.route)
    BY ToldFields
  <1>2. ASSUME NEW p \in DOMAIN i.query, p \in DOMAIN Dto(i.route)
        PROVE  Keeps(i, p) <=> Passes(Dto(i.route)[p], Transformed(Dto(i.route)[p], i.query[p]))
    <2>1. i.query[p] \in Raw
      BY RequestsAssumption
    <2>2. Param(i, p, Undefined) = Transformed(Dto(i.route)[p], i.query[p])
      BY DEF Param
    <2> QED BY <1>1, <1>2, <2>1, <2>2, ToldPasses DEF Keeps
  <1>3. \A p : p \notin DOMAIN Dto(i.route) => ~Keeps(i, p)
    BY <1>1 DEF Keeps
  <1> QED BY <1>1, <1>2, <1>3 DEF Refused

\* What an answer says of the pipe.
PipeInv(q) ==
    asked[q].route \in Listing =>
        /\ answer[q].status = 200 => ~Refused(asked[q])
        /\ answer[q].status = 422 => Refused(asked[q])

LEMMA PipeKept ==
    ASSUME NEW q \in Requests, PipeInv(q), asked'[q] = asked[q],
           answer'[q].status = answer[q].status \/ answer'[q].status \notin {200, 422}
    PROVE  PipeInv(q)'
  BY DEF PipeInv, Refused

LEMMA PipeStep ==
    ASSUME TypeOK, NEW q \in Requests, NEW p \in Requests, UploadInv(p), AnswerInv(p), PipeInv(p),
           \/ \E i \in Inputs : Arrive(q, i)
           \/ Step(q)
           \/ \E f \in Files : Put(q, f)
    PROVE  PipeInv(p)'
  <1>1. CASE p # q
    <2>1. asked'[p] = asked[p] /\ answer'[p] = answer[p]
      <3>1. CASE \E i \in Inputs : Arrive(q, i)
        BY <1>1, <3>1, OthersKeep DEF Arrive, TypeOK
      <3>2. CASE Hook(q) \/ Throttle(q) \/ Guard(q) \/ Pipe(q)
        BY <1>1, <3>2, OthersKeep DEF Hook, Throttle, Guard, Pipe, Answer
      <3>3. CASE Handle(q)
        BY <1>1, <3>3, OthersKeep
            DEF Handle, HandleUser, HandleHealth, HandleNative, HandleUpload, Answer, Throw
      <3>4. CASE \E f \in Files : Put(q, f)
        BY <1>1, <3>4, OthersKeep DEF Put, Store, Refuse, Throw
      <3> QED BY <3>1, <3>2, <3>3, <3>4 DEF Step
    <2> QED BY <2>1, PipeKept
  <1>2. /\ \A status : Answer(q, status) => answer'[q].status = status
        /\ Throw(q) => answer'[q].status = 500
        /\ \A status, files, reported : Respond(q, status, files, reported) => answer'[q].status = status
        /\ \A next : Go(q, next) => UNCHANGED answer
    BY DEF Answer, Throw, Respond, Go, TypeOK
  <1>3. CASE p = q /\ \E i \in Inputs : Arrive(q, i)
    <2>1. answer'[q].status = 0
      BY <1>3 DEF Arrive, Go, UploadInv, Before, NoAnswer
    <2> QED BY <1>3, <2>1 DEF PipeInv
  <1>4. CASE p = q /\ (Hook(q) \/ Throttle(q) \/ Guard(q))
    <2>1. pc[q] \in Before /\ UNCHANGED asked
      BY <1>4 DEF Hook, Throttle, Guard, Before
    <2>2. UNCHANGED answer \/ answer'[q].status \in {401, 429, 500}
      BY <1>2, <1>4 DEF Hook, Throttle, Guard
    <2> QED BY <1>4, <2>1, <2>2, PipeKept
  <1>5. CASE p = q /\ Pipe(q)
    <2>1. pc[q] \in Before /\ UNCHANGED asked
      BY <1>5 DEF Pipe, Before
    <2>2. UNCHANGED answer \/ answer'[q].status \in {400, 413} \/ (answer'[q].status = 422 /\ Refused(asked[q]))
      BY <1>2, <1>5 DEF Pipe
    <2>3. CASE answer'[q].status = 422 /\ Refused(asked[q])
      BY <1>5, <2>1, <2>3 DEF PipeInv, Refused
    <2> QED BY <1>5, <2>1, <2>2, <2>3, PipeKept
  <1>6. CASE p = q /\ Handle(q)
    <2>1. pc[q] = "handler" /\ UNCHANGED asked /\ (asked[q].route \in Listing => ~Refused(asked[q]))
      BY <1>6 DEF Handle, AnswerInv
    <2>2. UNCHANGED answer \/ answer'[q].status # 422
      <3>1. CASE HandleUser(q)
        BY <1>2, <3>1 DEF HandleUser
      <3>2. CASE HandleHealth(q)
        BY <1>2, <3>2 DEF HandleHealth
      <3>3. CASE HandleNative(q)
        BY <1>2, <3>3 DEF HandleNative
      <3>4. CASE HandleUpload(q)
        <4>1. \/ Throw(q) \/ Answer(q, 400) \/ Go(q, "storing")
              \/ \E files : Respond(q, 200, files, FALSE)
          BY <3>4 DEF HandleUpload
        <4>2. ASSUME NEW files, Respond(q, 200, files, FALSE) PROVE answer'[q].status # 422
          <5>1. answer'[q].status = 200
            BY <4>2 DEF Respond, TypeOK
          <5> QED BY <5>1
        <4>3. /\ Throw(q) => answer'[q].status # 422
              /\ Answer(q, 400) => answer'[q].status # 422
              /\ Go(q, "storing") => UNCHANGED answer
          BY <1>2
        <4> QED BY <4>1, <4>2, <4>3, Zenon
      <3> QED BY <1>6, <3>1, <3>2, <3>3, <3>4 DEF Handle
    <2>3. CASE UNCHANGED answer
      BY <1>6, <2>1, <2>3, PipeKept
    <2>4. CASE answer'[q].status # 422
      BY <1>6, <2>1, <2>4 DEF PipeInv, Refused
    <2> QED BY <2>2, <2>3, <2>4
  <1>7. CASE p = q /\ \E f \in Files : Put(q, f)
    <2>1. UNCHANGED asked
      BY <1>7 DEF Put, Store, Refuse
    <2>2. CASE pc[q] = "storing"
      BY <1>7, <2>1, <2>2 DEF AnswerInv, PipeInv, Uploads, Listing
    <2>3. CASE pc[q] # "storing"
      <3>1. UNCHANGED answer
        BY <1>7, <2>3 DEF Put, Store, Refuse
      <3> QED BY <1>7, <2>1, <3>1, PipeKept
    <2> QED BY <2>2, <2>3
  <1> QED BY <1>1, <1>3, <1>4, <1>5, <1>6, <1>7 DEF Step

(* No handler of a DTO's route gets, and no answer of it was made from, a  *)
(* parameter that the DTO does not tell or does not allow, but for whole   *)
(* numbers below its minimum; and a 422 names a real offence.              *)
THEOREM PromisesKept == Spec => []FieldsPromise
  <1> DEFINE Piped == \A p \in Requests : PipeInv(p)
  <1>1. Init => Piped
    BY DEF Init, PipeInv, NoAnswer
  <1>2. Uploading /\ Answering /\ Piped /\ [Next]_vars => Piped'
    <2> SUFFICES ASSUME TypeOK, \A q \in Requests : UploadInv(q), \A q \in Requests : AnswerInv(q),
                        Piped, [Next]_vars, NEW p \in Requests
                 PROVE  PipeInv(p)'
      BY DEF Uploading, Answering
    <2>1. ASSUME NEW q \in Requests,
                 (\E i \in Inputs : Arrive(q, i)) \/ Step(q) \/ (\E f \in Files : Put(q, f))
          PROVE  PipeInv(p)'
      BY <2>1, PipeStep
    <2>2. CASE Crash \/ Tick \/ UNCHANGED vars
      BY <2>2, PipeKept DEF Crash, Tick, vars
    <2> QED BY <2>1, <2>2 DEF Next
  <1>3. TypeOK /\ Answering /\ Piped => FieldsPromise
    <2> SUFFICES ASSUME TypeOK, Answering, Piped, NEW q \in Requests, asked[q].route \in DOMAIN Told
                 PROVE  LET i == asked[q]
                            told == Told[i.route]
                            given(p) == Param(i, p, Undefined)
                            keeps(p) == /\ p \in DOMAIN told
                                        /\ Promised(told[p], given(p)) \/ Unchecked(told[p], given(p))
                        IN  /\ pc[q] = "handler" \/ answer[q].status = 200 =>
                                    \A p \in DOMAIN i.query :
                                        keeps(p) \/ (i.route = "profile" /\ p \notin DOMAIN told)
                            /\ answer[q].status = 422 => \E p \in DOMAIN i.query : ~keeps(p)
      BY DEF FieldsPromise
    <2>1. asked[q] \in Inputs /\ asked[q].route \in Listing
      BY ToldFields DEF TypeOK
    <2>2. pc[q] = "handler" \/ answer[q].status = 200 => ~Refused(asked[q])
      BY <2>1 DEF Answering, AnswerInv, PipeInv
    <2>3. answer[q].status = 422 => Refused(asked[q])
      BY <2>1 DEF PipeInv
    <2>4. Refused(asked[q]) <=> \E p \in DOMAIN asked[q].query :
                ~Keeps(asked[q], p) /\ ~(asked[q].route = "profile" /\ p \notin DOMAIN Told[asked[q].route])
      BY <2>1, RefusedMeans
    <2> QED BY <2>2, <2>3, <2>4 DEF Keeps, Meets
  <1> QED BY <1>1, <1>2, <1>3, TypeCorrect, UploadsKept, AnswersKept, PTL DEF Spec
=============================================================================
