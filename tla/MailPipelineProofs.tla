------------------------- MODULE MailPipelineProofs -------------------------
(***************************************************************************)
(* What the mail throttle and the pipeline around it guarantee for every   *)
(* number of requests and workers, every window and an unbounded clock.    *)
(*                                                                         *)
(* Of the throttle alone (Spec): the heart of it is StampOutlives, that    *)
(* the stamp in Redis outlives, by Window, every stamp ever written for    *)
(* its key, so a request that passes the check is Window after all of them *)
(* that it could see.                                                      *)
(*                                                                         *)
(* Of the pipeline (PipelineSpec): its two halves compose.  A behaviour of *)
(* the whole is, seen from the server, a behaviour of MailThrottle and,    *)
(* seen from the queue, one of EmailWorker.  So everything proved of the   *)
(* parts holds of the whole, and an invariant that spans both follows from *)
(* the parts' own inductive invariants.                                    *)
(***************************************************************************)
EXTENDS MailPipeline, TLAPS

WorkerP == INSTANCE EmailWorkerProofs WITH Jobs <- Requests

\* Where a request is fixes what it has done.
Progress ==
    \A r \in Requests :
        /\ pc[r] \in {"idle", "lookup", "ttl", "add", "refused"} => ~Queued(r)
        /\ pc[r] \in {"idle", "lookup", "ttl", "add", "refused", "stamp"} => ~Stamped(r)
        /\ pc[r] = "stamp" => Queued(r)

\* The steps of a request follow one another in time.
InOrder ==
    \A r \in Requests :
        /\ readAt[r] <= now /\ addedAt[r] <= now /\ stampedAt[r] <= now
        /\ pc[r] # "idle" => key[r] \in Keys
        /\ Queued(r) => pc[r] # "idle" /\ readAt[r] <= addedAt[r]
        /\ Stamped(r) => Queued(r) /\ addedAt[r] <= stampedAt[r]

StampOutlives ==
    \A r \in Requests :
        Stamped(r) => cache[key[r]].expiresAt >= stampedAt[r] + Window

\* Whatever is in Redis was put there by a request, and expires.
StampHasAuthor ==
    \A k \in Keys :
        /\ cache[k].expiresAt \in Nat
        /\ cache[k].expiresAt <= now + Window
        /\ cache[k].expiresAt # 0 =>
              \E q \in Requests :
                  /\ key[q] = k /\ Stamped(q)
                  /\ cache[k].expiresAt = stampedAt[q] + Window

\* A request past the check is Window after every stamp it could have seen.
PassedClear ==
    \A q, r \in Requests :
        /\ pc[r] = "add" \/ Queued(r)
        /\ key[q] = key[r] /\ Stamped(q) /\ stampedAt[q] < readAt[r]
        => readAt[r] >= stampedAt[q] + Window

ThrottleInv ==
    /\ TypeOK
    /\ Progress
    /\ InOrder
    /\ StampOutlives
    /\ StampHasAuthor
    /\ PassedClear
    /\ RefusalJustified
-----------------------------------------------------------------------------
LEMMA InitInv == Init => ThrottleInv
  <1> USE ThrottleAssumption
  <1> SUFFICES ASSUME Init PROVE ThrottleInv
    OBVIOUS
  <1>1. TypeOK
    BY DEF Init, TypeOK, Control, Entries, Absent, Never
  <1>2. Progress /\ InOrder /\ StampOutlives /\ PassedClear /\ RefusalJustified
    BY DEF Init, Progress, InOrder, StampOutlives, PassedClear, RefusalJustified, Queued, Stamped
  <1>3. StampHasAuthor
    BY DEF Init, StampHasAuthor, Absent
  <1> QED BY <1>1, <1>2, <1>3 DEF ThrottleInv

LEMMA StepInv == ThrottleInv /\ [Next]_vars => ThrottleInv'
  <1> USE ThrottleAssumption
  <1> SUFFICES ASSUME ThrottleInv, [Next]_vars PROVE ThrottleInv'
    OBVIOUS
  <1> USE DEF ThrottleInv
  <1>1. ASSUME NEW r \in Requests, NEW k \in Keys, Arrive(r, k)
        PROVE ThrottleInv'
    <2> USE <1>1 DEF Arrive, history
    <2>1. TypeOK'
      BY DEF TypeOK, Control, Answered
    <2>2. ~Queued(r) /\ ~Stamped(r)
      BY DEF Progress
    <2>3. Progress' /\ InOrder'
      BY <2>2 DEF Progress, InOrder, TypeOK, Queued, Stamped
    <2>4. StampOutlives' /\ StampHasAuthor' /\ PassedClear' /\ RefusalJustified'
      BY <2>2 DEF StampOutlives, StampHasAuthor, PassedClear, RefusalJustified, TypeOK, Queued, Stamped
    <2> QED BY <2>1, <2>3, <2>4
  <1>2. ASSUME NEW r \in Requests, Lookup(r)
        PROVE ThrottleInv'
    <2> USE <1>2 DEF Lookup, history
    <2>1. TypeOK'
      BY DEF TypeOK, Control, Answered
    <2>2. Progress' /\ InOrder'
      BY DEF Progress, InOrder, TypeOK, Queued, Stamped
    <2>3. StampOutlives' /\ StampHasAuthor' /\ PassedClear' /\ RefusalJustified'
      BY DEF StampOutlives, StampHasAuthor, PassedClear, RefusalJustified, TypeOK, Queued, Stamped
    <2> QED BY <2>1, <2>2, <2>3
  <1>3. ASSUME NEW r \in Requests, ReadTtl(r)
        PROVE ThrottleInv'
    <2> USE <1>3 DEF ReadTtl
    <2>1. TypeOK'
      BY DEF TypeOK, Control, Answered
    <2>2. ~Queued(r) /\ ~Stamped(r) /\ key[r] \in Keys
      BY DEF Progress, InOrder
    <2>3. Progress' /\ InOrder'
      BY <2>2 DEF Progress, InOrder, TypeOK, Queued, Stamped
    <2>4. StampOutlives' /\ StampHasAuthor'
      BY DEF StampOutlives, StampHasAuthor, TypeOK, Queued, Stamped
    <2>5. CASE Throttled(key[r])
      <3>1. /\ cache[key[r]].expiresAt > now
            /\ cache[key[r]].expiresAt # 0
        BY <2>2, <2>5 DEF Throttled, GetTtl, Live, NullTtl, Never, StampHasAuthor, TypeOK
      <3>2. PICK q \in Requests : /\ key[q] = key[r] /\ Stamped(q)
                                  /\ cache[key[r]].expiresAt = stampedAt[q] + Window
        BY <2>2, <3>1 DEF StampHasAuthor
      <3>3. Queued(q) /\ stampedAt[q] <= now /\ now < stampedAt[q] + Window
        BY <3>1, <3>2 DEF InOrder, TypeOK
      <3>4. q # r /\ readAt'[r] = now /\ pc'[r] = "refused"
        BY <2>2, <2>5, <3>2 DEF TypeOK
      <3>5. RefusalJustified'
        BY <3>2, <3>3, <3>4 DEF RefusalJustified, TypeOK, Queued, Stamped
      <3>6. PassedClear'
        BY <2>2, <3>4 DEF PassedClear, TypeOK, Queued, Stamped
      <3> QED BY <2>1, <2>3, <2>4, <3>5, <3>6
    <2>6. CASE ~Throttled(key[r])
      <3>1. cache[key[r]].expiresAt <= now
        BY <2>2, <2>6 DEF Throttled, GetTtl, Live, NullTtl, Never, StampHasAuthor, TypeOK
      <3>2. \A q \in Requests : key[q] = key[r] /\ Stamped(q) => now >= stampedAt[q] + Window
        BY <2>2, <3>1 DEF StampOutlives, StampHasAuthor, TypeOK
      <3>3. readAt'[r] = now /\ pc'[r] = "add"
        BY <2>6 DEF TypeOK
      <3>4. PassedClear'
        BY <2>2, <3>2, <3>3 DEF PassedClear, TypeOK, Queued, Stamped
      <3>5. RefusalJustified'
        BY <2>2, <3>3 DEF RefusalJustified, TypeOK, Queued, Stamped
      <3> QED BY <2>1, <2>3, <2>4, <3>4, <3>5
    <2> QED BY <2>5, <2>6
  <1>4. ASSUME NEW r \in Requests, AddJob(r)
        PROVE ThrottleInv'
    <2> USE <1>4 DEF AddJob
    <2>1. TypeOK'
      BY DEF TypeOK, Control, Answered
    <2>2. ~Stamped(r) /\ ~Queued(r) /\ readAt[r] <= now
      BY DEF Progress, InOrder
    <2>3. Progress' /\ InOrder'
      BY <2>2 DEF Progress, InOrder, TypeOK, Queued, Stamped
    <2>4. StampOutlives' /\ StampHasAuthor' /\ PassedClear'
      BY <2>2 DEF StampOutlives, StampHasAuthor, PassedClear, TypeOK, Queued, Stamped
    <2>5. RefusalJustified'
      BY DEF RefusalJustified, TypeOK, Queued, Stamped
    <2> QED BY <2>1, <2>3, <2>4, <2>5
  <1>5. ASSUME NEW r \in Requests, SetStamp(r)
        PROVE ThrottleInv'
    <2> USE <1>5 DEF SetStamp, Set, NoTtl
    <2>0. Window # NoTtl /\ key[r] \in Keys
      BY DEF TypeOK
    <2>1. TypeOK'
      BY <2>0 DEF TypeOK, Control, Answered, Entries, Never
    <2>2. ~Stamped(r) /\ Queued(r) /\ readAt[r] <= addedAt[r] /\ addedAt[r] <= now
      BY DEF Progress, InOrder
    <2>3. Progress' /\ InOrder'
      BY <2>2 DEF Progress, InOrder, TypeOK, Queued, Stamped
    <2>4. /\ cache'[key[r]].expiresAt = now + Window
          /\ \A k \in Keys : k # key[r] => cache'[k] = cache[k]
      BY <2>0 DEF TypeOK
    <2>5. StampOutlives'
      BY <2>2, <2>4 DEF StampOutlives, InOrder, TypeOK, Queued, Stamped
    <2>6. StampHasAuthor'
      <3>1. ASSUME NEW k \in Keys
            PROVE /\ cache'[k].expiresAt \in Nat
                  /\ cache'[k].expiresAt <= now + Window
                  /\ cache'[k].expiresAt # 0 =>
                        \E q \in Requests : /\ key[q] = k /\ stampedAt'[q] # 0
                                            /\ cache'[k].expiresAt = stampedAt'[q] + Window
        <4>1. CASE k = key[r]
          BY <2>0, <2>4, <4>1 DEF TypeOK
        <4>2. CASE k # key[r]
          BY <2>4, <4>2 DEF StampHasAuthor, TypeOK, Stamped
        <4> QED BY <4>1, <4>2
      <3> QED BY <3>1 DEF StampHasAuthor, Stamped
    <2>7. PassedClear'
      BY <2>2 DEF PassedClear, InOrder, TypeOK, Queued, Stamped
    <2>8. RefusalJustified'
      BY <2>2 DEF RefusalJustified, TypeOK, Queued, Stamped
    <2> QED BY <2>1, <2>3, <2>5, <2>6, <2>7, <2>8
  <1>6. ASSUME NEW r \in Requests, Fail(r)
        PROVE ThrottleInv'
    <2> USE <1>6 DEF Fail, history
    <2>1. TypeOK'
      BY DEF TypeOK, Control, Answered
    <2>2. Progress' /\ InOrder'
      BY DEF Progress, InOrder, TypeOK, Queued, Stamped
    <2>3. StampOutlives' /\ StampHasAuthor' /\ PassedClear' /\ RefusalJustified'
      BY DEF StampOutlives, StampHasAuthor, PassedClear, RefusalJustified, TypeOK, Queued, Stamped
    <2> QED BY <2>1, <2>2, <2>3
  <1>7. ASSUME NEW u \in Users, DeleteAccount(u)
        PROVE ThrottleInv'
    BY <1>7 DEF DeleteAccount, history, TypeOK, Progress, InOrder, StampOutlives, StampHasAuthor,
                PassedClear, RefusalJustified, Queued, Stamped
  <1>8. CASE Tick
    <2> USE <1>8 DEF Tick, history
    <2>1. TypeOK' /\ Progress' /\ InOrder'
      BY DEF TypeOK, Progress, InOrder, Queued, Stamped
    <2>2. StampOutlives' /\ StampHasAuthor' /\ PassedClear' /\ RefusalJustified'
      BY DEF StampOutlives, StampHasAuthor, PassedClear, RefusalJustified, TypeOK, Queued, Stamped
    <2> QED BY <2>1, <2>2
  <1>9. CASE UNCHANGED vars
    BY <1>9 DEF vars, TypeOK, Progress, InOrder, StampOutlives, StampHasAuthor,
                PassedClear, RefusalJustified, Queued, Stamped
  <1> QED
    BY <1>1, <1>2, <1>3, <1>4, <1>5, <1>6, <1>7, <1>8, <1>9 DEF Next, Step

LEMMA Invariance == Spec => []ThrottleInv
  BY InitInv, StepInv, PTL DEF Spec

(* Type correctness of the throttle's state, for any clock and any number  *)
(* of requests in service at once.                                         *)
THEOREM TypeCorrect == Spec => []TypeOK
  <1>1. ThrottleInv => TypeOK
    BY DEF ThrottleInv
  <1> QED BY <1>1, Invariance, PTL

(* Mails of one kind to one user are Window apart unless the operations    *)
(* that queued them overlapped (sendSigninMagicLink, verifyEmail and       *)
(* resetPassword of AuthService).                                          *)
THEOREM Spacing == Spec => []SpacedUnlessOverlapping
  <1>1. ThrottleInv => SpacedUnlessOverlapping
    <2> SUFFICES ASSUME ThrottleInv, NEW q \in Requests, NEW r \in Requests,
                        Queued(q), Queued(r), key[q] = key[r],
                        Stamped(q), stampedAt[q] < readAt[r]
                 PROVE addedAt[r] >= addedAt[q] + Window
      BY DEF SpacedUnlessOverlapping
    <2>1. readAt[r] >= stampedAt[q] + Window
      BY DEF ThrottleInv, PassedClear
    <2>2. addedAt[r] >= readAt[r] /\ addedAt[q] <= stampedAt[q]
      BY DEF ThrottleInv, InOrder
    <2> QED BY <2>1, <2>2, ThrottleAssumption DEF ThrottleInv, TypeOK
  <1> QED BY <1>1, Invariance, PTL

(* Every 429 of the throttle has a mail behind it that was queued and      *)
(* stamped less than Window before the refusal.                            *)
THEOREM Refusals == Spec => []RefusalJustified
  <1>1. ThrottleInv => RefusalJustified
    BY DEF ThrottleInv
  <1> QED BY <1>1, Invariance, PTL

(* No step of a sending operation moves the end of a lock-out back.        *)
THEOREM LockoutsOnlyExtend == Spec => StampsOnlyExtend
  <1>1. ThrottleInv /\ [Next]_vars => [\A k \in Keys : cache'[k].expiresAt >= cache[k].expiresAt]_vars
    <2> SUFFICES ASSUME ThrottleInv, [Next]_vars, NEW k \in Keys
                 PROVE cache'[k].expiresAt >= cache[k].expiresAt
      OBVIOUS
    <2>1. cache[k].expiresAt \in Nat /\ cache[k].expiresAt <= now + Window
      BY DEF ThrottleInv, StampHasAuthor
    <2>2. ASSUME NEW r \in Requests, SetStamp(r)
          PROVE cache'[k].expiresAt >= cache[k].expiresAt
      <3>1. cache'[k] = cache[k] \/ cache'[k].expiresAt = now + Window
        BY <2>2, ThrottleAssumption DEF SetStamp, Set, NoTtl, ThrottleInv, TypeOK
      <3> QED BY <2>1, <3>1
    <2>3. CASE UNCHANGED cache
      BY <2>1, <2>3
    <2> QED
      BY <2>2, <2>3 DEF Next, vars, Step, Arrive, Lookup, ReadTtl, AddJob, Fail, DeleteAccount, Tick
  <1> QED BY <1>1, Invariance, PTL DEF Spec, StampsOnlyExtend
-----------------------------------------------------------------------------
LEMMA ThrottleInit == PipelineInit => Init
  BY DEF PipelineInit

LEMMA ThrottleStep == [PipelineNext]_pipelineVars => [Next]_vars
  <1> SUFFICES ASSUME [PipelineNext]_pipelineVars PROVE [Next]_vars
    OBVIOUS
  <1>1. ASSUME NEW r \in Requests, Enqueue(r) \/ ServerStep(r) \/ ServerOther(r)
        PROVE Next
    BY <1>1 DEF Enqueue, ServerStep, ServerOther, Next, Step
  <1>2. CASE Clock
    BY <1>2 DEF Clock, Next
  <1>3. CASE QueueStep
    <2>1. UNCHANGED accounts
      BY <1>3 DEF QueueStep, Worker!WorkerStep, Worker!FindUser, Worker!SendMail, Worker!Complete,
                  Worker!FailAttempt, Worker!Crash, Worker!Restart, Worker!Take, Worker!JobStep,
                  Worker!Promote, Worker!LockExpires, Worker!Stall
    <2> QED BY <1>3, <2>1 DEF QueueStep, serverVars, vars
  <1>4. ASSUME NEW u \in Users, DeleteUser(u)
        PROVE Next
    BY <1>4 DEF DeleteUser, Next
  <1>5. CASE UNCHANGED pipelineVars
    BY <1>5 DEF pipelineVars, vars
  <1> QED BY <1>1, <1>2, <1>3, <1>4, <1>5 DEF PipelineNext

(* The pipeline is a throttle: what MailThrottleProofs proves of the       *)
(* spacing of mails holds when the queue is the real one.                  *)
THEOREM KeepsThrottle == PipelineSpec => ThrottleKept
  BY ThrottleInit, ThrottleStep, PTL DEF PipelineSpec, ThrottleKept, Spec

\* What the throttle's invariant says of a request about to add its job.
LEMMA EnqueueNamed ==
    ASSUME TypeOK, NEW r \in Requests, Enqueue(r)
    PROVE  key[r][1] \in Worker!Names /\ key[r][2] \in Users
  BY DEF TypeOK, Enqueue, AddJob, Keys, Kinds, Worker!Names

LEMMA WorkerStep == TypeOK /\ [PipelineNext]_pipelineVars => [Worker!Next]_Worker!vars
  <1> SUFFICES ASSUME TypeOK, [PipelineNext]_pipelineVars PROVE [Worker!Next]_Worker!vars
    OBVIOUS
  <1>1. ASSUME NEW r \in Requests, Enqueue(r)
        PROVE Worker!Next
    <2>1. Worker!Add(r, key[r][1], key[r][2])
      BY <1>1 DEF Enqueue
    <2> QED BY <1>1, <2>1, EnqueueNamed DEF Worker!Next
  <1>2. ASSUME NEW r \in Requests, ServerStep(r) \/ ServerOther(r)
        PROVE UNCHANGED Worker!vars
    BY <1>2 DEF ServerStep, ServerOther, queueVars, Worker!vars, Lookup, ReadTtl,
                SetStamp, Fail, Arrive
  <1>3. CASE Clock
    BY <1>3 DEF Clock, queueVars, Worker!vars, Tick
  <1>4. CASE QueueStep
    BY <1>4 DEF QueueStep, Worker!Next
  <1>5. ASSUME NEW u \in Users, DeleteUser(u)
        PROVE Worker!Next
    BY <1>5 DEF DeleteUser, Worker!Next
  <1>6. CASE UNCHANGED pipelineVars
    BY <1>6 DEF pipelineVars, Worker!vars
  <1> QED BY <1>1, <1>2, <1>3, <1>4, <1>5, <1>6 DEF PipelineNext

LEMMA ThrottleAlways == PipelineSpec => []ThrottleInv
  BY Invariance, KeepsThrottle DEF ThrottleKept

\* The two instances of EmailWorker, the module's and its proofs', are one.
LEMMA SameWorker ==
    /\ Worker!Init <=> WorkerP!Init
    /\ [Worker!Next]_Worker!vars <=> [WorkerP!Next]_WorkerP!vars
  <1>1. Worker!Init <=> WorkerP!Init
    BY DEF Worker!Init, WorkerP!Init, Worker!NoJob, WorkerP!NoJob, Worker!NoWorker,
         WorkerP!NoWorker, Worker!NoData, WorkerP!NoData
  <1>2. [Worker!Next]_Worker!vars <=> [WorkerP!Next]_WorkerP!vars
    BY DEF Worker!Next, WorkerP!Next, Worker!Add, WorkerP!Add, Worker!Take, WorkerP!Take,
         Worker!WithoutUser, WorkerP!WithoutUser, Worker!FindUser, WorkerP!FindUser,
         Worker!SendMail, WorkerP!SendMail, Worker!Holds, WorkerP!Holds, Worker!Release,
         WorkerP!Release, Worker!Complete, WorkerP!Complete, Worker!AfterFailure,
         WorkerP!AfterFailure, Worker!FailAttempt, WorkerP!FailAttempt, Worker!Promote,
         WorkerP!Promote, Worker!LockExpires, WorkerP!LockExpires, Worker!Stall,
         WorkerP!Stall, Worker!Crash, WorkerP!Crash, Worker!Restart, WorkerP!Restart,
         Worker!DeleteAccount, WorkerP!DeleteAccount, Worker!WorkerStep, WorkerP!WorkerStep,
         Worker!JobStep, WorkerP!JobStep, Worker!Names, WorkerP!Names, Worker!NoJob,
         WorkerP!NoJob, Worker!NoWorker, WorkerP!NoWorker, Worker!jobVars, WorkerP!jobVars,
         Worker!workerVars, WorkerP!workerVars, Worker!mailVars, WorkerP!mailVars,
         Worker!vars, WorkerP!vars
  <1> QED BY <1>1, <1>2

\* The inductive invariants of the parts are invariants of the whole.
LEMMA PartsAlways == PipelineSpec => [](ThrottleInv /\ WorkerP!WorkerInv)
  <1>1. Attempts \in Nat /\ MaxStalled \in Nat /\ "no job" \notin Requests /\ "no worker" \notin Workers
    BY PipelineAssumption
  <1>2. WorkerP!Spec => []WorkerP!WorkerInv
    BY <1>1, WorkerP!Invariance DEF WorkerP!NoJob, WorkerP!NoWorker
  <1>3. ThrottleInv => TypeOK
    BY DEF ThrottleInv
  <1>4. PipelineInit => Worker!Init
    BY DEF PipelineInit
  <1> QED BY <1>2, <1>3, <1>4, ThrottleAlways, WorkerStep, SameWorker, PTL DEF PipelineSpec, WorkerP!Spec

(* The pipeline is an email queue: what EmailWorkerProofs proves of jobs   *)
(* and mails holds when AuthService adds the jobs.                         *)
THEOREM KeepsWorker == PipelineSpec => WorkerKept
  <1>1. ThrottleInv => TypeOK
    BY DEF ThrottleInv
  <1>2. PipelineInit => Worker!Init
    BY DEF PipelineInit
  <1> QED BY <1>1, <1>2, ThrottleAlways, WorkerStep, PTL DEF PipelineSpec, WorkerKept, Worker!Spec
-----------------------------------------------------------------------------
\* How far a request is, and what has become of its job.
Admission ==
    \A r \in Requests :
        /\ pc[r] \in {"idle", "lookup", "ttl", "add", "refused", "unknown"} => state[r] = "none"
        /\ addedAt[r] # 0 => state[r] # "none"
        /\ state[r] # "none" => pc[r] # "idle" /\ data[r] = [name |-> key[r][1], user |-> key[r][2]]

LEMMA QueueStepKeepsJobs ==
    ASSUME WorkerP!WorkerInv, QueueStep
    PROVE  /\ data' = data
           /\ \A r \in Requests : state'[r] = "none" <=> state[r] = "none"
  <1> USE PipelineAssumption DEF WorkerP!WorkerInv, WorkerP!TypeOK, Worker!jobVars, Worker!NoWorker
  <1>1. ASSUME NEW w \in Workers, Worker!Complete(w) \/ Worker!FailAttempt(w)
        PROVE data' = data /\ \A r \in Requests : state'[r] = "none" <=> state[r] = "none"
    <2>1. Worker!Holds(w) => state[wjob[w]] = "active"
      BY <1>1 DEF Worker!Holds, Worker!Complete, Worker!FailAttempt, WorkerP!RunsNumbered, WorkerP!NoWorker
    <2> QED BY <1>1, <2>1 DEF Worker!Complete, Worker!FailAttempt, Worker!AfterFailure
  <1>2. ASSUME NEW w \in Workers, NEW r \in Requests, Worker!Take(w, r)
        PROVE data' = data /\ \A q \in Requests : state'[q] = "none" <=> state[q] = "none"
    BY <1>2 DEF Worker!Take
  <1>3. ASSUME NEW r \in Requests, Worker!JobStep(r)
        PROVE data' = data /\ \A q \in Requests : state'[q] = "none" <=> state[q] = "none"
    BY <1>3 DEF Worker!JobStep, Worker!Promote, Worker!LockExpires, Worker!Stall
  <1> QED
    BY <1>1, <1>2, <1>3 DEF QueueStep, Worker!WorkerStep, Worker!FindUser, Worker!SendMail, Worker!Crash,
                            Worker!Restart

LEMMA AdmissionStep ==
    ThrottleInv /\ WorkerP!WorkerInv /\ Admission /\ [PipelineNext]_pipelineVars => Admission'
  <1> SUFFICES ASSUME ThrottleInv, WorkerP!WorkerInv, Admission, [PipelineNext]_pipelineVars
               PROVE Admission'
    OBVIOUS
  <1>1. TypeOK
    BY DEF ThrottleInv
  <1> USE <1>1 DEF TypeOK
  <1>2. ASSUME NEW r \in Requests, Enqueue(r) PROVE Admission'
    BY <1>2 DEF Enqueue, AddJob, history, Worker!Add, Admission, WorkerP!WorkerInv,
                WorkerP!TypeOK
  <1>3. ASSUME NEW r \in Requests, ServerStep(r) PROVE Admission'
    BY <1>3 DEF ServerStep, Lookup, ReadTtl, SetStamp, history,
                queueVars, Admission
  <1>4. ASSUME NEW r \in Requests, ServerOther(r) PROVE Admission'
    BY <1>4 DEF ServerOther, Fail, Arrive, history, queueVars, Admission
  <1>5. CASE Clock
    BY <1>5 DEF Clock, Tick, history, queueVars, Admission
  <1>6. CASE QueueStep
    <2>1. UNCHANGED serverVars
      BY <1>6 DEF QueueStep
    <2> QED BY <1>6, <2>1, QueueStepKeepsJobs DEF serverVars, Admission
  <1>7. ASSUME NEW u \in Users, DeleteUser(u) PROVE Admission'
    BY <1>7 DEF DeleteUser, DeleteAccount, history, queueVars, Admission
  <1>8. CASE UNCHANGED pipelineVars
    BY <1>8 DEF pipelineVars, Admission
  <1> QED BY <1>2, <1>3, <1>4, <1>5, <1>6, <1>7, <1>8 DEF PipelineNext

LEMMA AdmissionAlways == PipelineSpec => []Admission
  <1>1. PipelineInit => Admission
    BY DEF PipelineInit, Init, Worker!Init, Admission
  <1> QED BY <1>1, AdmissionStep, PartsAlways, PTL DEF PipelineSpec

(* No mail comes of a request that was refused or whose user was unknown,  *)
(* and a job is about the user and of the kind that its request named.     *)
THEOREM AdmittedOnly == PipelineSpec => []OnlyAdmittedMails
  <1>1. Admission /\ WorkerP!WorkerInv => OnlyAdmittedMails
    <2> SUFFICES ASSUME Admission, WorkerP!WorkerInv, NEW r \in Requests
                 PROVE /\ pc[r] \in {"refused", "unknown"} => state[r] = "none" /\ delivered[r] = {}
                       /\ state[r] # "none" => data[r] = [name |-> key[r][1], user |-> key[r][2]]
      BY DEF OnlyAdmittedMails
    <2>1. state[r] = "none" => delivered[r] = {}
      BY DEF WorkerP!WorkerInv, WorkerP!RunsCounted, WorkerP!RunsNumbered
    <2> QED BY <2>1 DEF Admission
  <1> QED BY <1>1, AdmissionAlways, PartsAlways, PTL

(* Whoever is answered 429 has a job of that kind and for that user in the *)
(* queue, of a request that stamped it less than Window before the refusal.*)
THEOREM RefusalHasJob == PipelineSpec => []RefusedHasJob
  <1>1. Admission /\ ThrottleInv => RefusedHasJob
    <2> SUFFICES ASSUME Admission, ThrottleInv, NEW r \in Requests, pc[r] = "refused"
                 PROVE  \E q \in Requests :
                            /\ Behind(r, q) /\ state[q] # "none"
                            /\ data[q] = [name |-> key[r][1], user |-> key[r][2]]
      BY DEF RefusedHasJob
    <2>1. PICK q \in Requests : Behind(r, q)
      BY DEF ThrottleInv, RefusalJustified, Behind
    <2>2. key[q] = key[r] /\ addedAt[q] # 0
      BY <2>1 DEF Behind, Queued
    <2>3. state[q] # "none" /\ data[q] = [name |-> key[q][1], user |-> key[q][2]]
      BY <2>2 DEF Admission
    <2> QED BY <2>1, <2>2, <2>3
  <1> QED BY <1>1, AdmissionAlways, PartsAlways, PTL
=============================================================================
