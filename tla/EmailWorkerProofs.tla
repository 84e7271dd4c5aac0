-------------------------- MODULE EmailWorkerProofs -------------------------
(***************************************************************************)
(* The email queue for every number of jobs, users, workers, attempts and  *)
(* allowed stalls.  The argument counts runs: each run of a job that is    *)
(* over either failed an attempt, or stalled, or completed the job, and    *)
(* each run sends at most one mail, under its own number.                  *)
(***************************************************************************)
EXTENDS EmailWorker, FiniteSetTheorems, TLAPS

\* Every run is accounted for.
RunsCounted ==
    \A j \in Jobs :
        /\ runs[j] = made[j] + stalls[j] + (IF state[j] \in {"active", "completed"} THEN 1 ELSE 0)
        /\ state[j] # "failed" => made[j] < Tries
        /\ made[j] <= Tries
        /\ state[j] # "failed" => stalls[j] <= MaxStalled
        /\ state[j] = "failed" => \/ made[j] < Tries /\ stalls[j] <= MaxStalled + 1
                                  \/ stalls[j] <= MaxStalled
        /\ state[j] = "none" => runs[j] = 0

\* Only an active job is locked, and mails carry the number of their run.
RunsNumbered ==
    /\ \A j \in Jobs : lock[j] # NoWorker => state[j] = "active"
    /\ \A j \in Jobs : delivered[j] \subseteq 1 .. runs[j]
    /\ \A w \in Workers :
          wpc[w] \notin {"idle", "down"} =>
              /\ state[wjob[w]] # "none" /\ wrun[w] \in 1 .. runs[wjob[w]]
    /\ \A j \in skipped : data[j].name \in {"signin-magic-link", "reset-password"}
    /\ \A j \in skipped : state[j] # "none"

\* A run that is about to send has not sent yet, and no run shares its number.
OneMailPerRun ==
    \A w \in Workers : wpc[w] \in {"find", "send"} =>
        /\ wrun[w] \notin delivered[wjob[w]]
        /\ \A v \in Workers :
              v # w /\ wpc[v] \notin {"idle", "down"} /\ wjob[v] = wjob[w] => wrun[v] # wrun[w]

\* A handler that returned has sent its mail or found no user.
ReturnedDelivered ==
    /\ \A w \in Workers : wpc[w] = "return" => delivered[wjob[w]] # {} \/ wjob[w] \in skipped
    /\ \A j \in Jobs : state[j] = "completed" => delivered[j] # {} \/ j \in skipped

WorkerInv == TypeOK /\ RunsCounted /\ RunsNumbered /\ OneMailPerRun /\ ReturnedDelivered
-----------------------------------------------------------------------------
LEMMA TriesPositive == Tries \in Nat /\ Tries >= 1 /\ (Attempts # 0 => Tries = Attempts)
  BY WorkerAssumption DEF Tries

LEMMA InitInv == Init => WorkerInv
  <1> USE WorkerAssumption, SentinelAssumption, TriesPositive
  <1> SUFFICES ASSUME Init PROVE WorkerInv
    OBVIOUS
  <1>1. TypeOK
    BY DEF Init, TypeOK
  <1>2. RunsCounted
    BY DEF Init, RunsCounted
  <1>3. RunsNumbered /\ OneMailPerRun /\ ReturnedDelivered
    BY DEF Init, RunsNumbered, OneMailPerRun, ReturnedDelivered
  <1> QED BY <1>1, <1>2, <1>3 DEF WorkerInv

LEMMA StepInv == WorkerInv /\ [Next]_vars => WorkerInv'
  <1> USE WorkerAssumption, SentinelAssumption, TriesPositive
  <1> SUFFICES ASSUME WorkerInv, [Next]_vars PROVE WorkerInv'
    OBVIOUS
  <1> USE DEF WorkerInv, jobVars, workerVars, mailVars
  <1>1. ASSUME NEW j \in Jobs, NEW name \in Names, NEW u \in Users, Add(j, name, u)
        PROVE WorkerInv'
    <2> USE <1>1 DEF Add
    <2>1. TypeOK'
      BY DEF TypeOK, Pending
    <2>2. RunsCounted'
      BY DEF RunsCounted, TypeOK
    <2>3. RunsNumbered' /\ OneMailPerRun' /\ ReturnedDelivered'
      BY DEF RunsNumbered, OneMailPerRun, ReturnedDelivered, TypeOK
    <2> QED BY <2>1, <2>2, <2>3
  <1>2. ASSUME NEW w \in Workers, NEW j \in Jobs, Take(w, j)
        PROVE WorkerInv'
    <2> USE <1>2 DEF Take
    <2>1. TypeOK'
      BY DEF TypeOK, Pending
    <2>2. RunsCounted'
      BY DEF RunsCounted, TypeOK
    <2>3. RunsNumbered'
      <3>1. \A i \in Jobs : runs'[i] \in Nat /\ runs[i] <= runs'[i]
        BY DEF TypeOK
      <3>2. \A i \in Jobs : delivered[i] \subseteq 1 .. runs'[i]
        BY <3>1 DEF RunsNumbered, TypeOK
      <3>3. \A v \in Workers : wpc'[v] \notin {"idle", "down"} =>
              state'[wjob'[v]] # "none" /\ wrun'[v] \in 1 .. runs'[wjob'[v]]
        BY <3>1 DEF RunsNumbered, TypeOK
      <3> QED BY <3>2, <3>3 DEF RunsNumbered, TypeOK
    <2>4. OneMailPerRun'
      <3>1. wrun'[w] = runs[j] + 1 /\ wjob'[w] = j
        BY DEF TypeOK
      <3>2. runs[j] + 1 \notin delivered[j]
        BY DEF RunsNumbered, TypeOK
      <3>3. \A v \in Workers : wpc[v] \notin {"idle", "down"} /\ wjob[v] = j => wrun[v] # runs[j] + 1
        BY DEF RunsNumbered, TypeOK
      <3>4. \A v \in Workers : v # w => wpc'[v] = wpc[v] /\ wjob'[v] = wjob[v] /\ wrun'[v] = wrun[v]
        BY DEF TypeOK
      <3> QED BY <3>1, <3>2, <3>3, <3>4 DEF OneMailPerRun
    <2>5. ReturnedDelivered'
      BY DEF ReturnedDelivered, TypeOK
    <2> QED BY <2>1, <2>2, <2>3, <2>4, <2>5
  <1>3. ASSUME NEW w \in Workers, FindUser(w)
        PROVE WorkerInv'
    <2> USE <1>3 DEF FindUser, WithoutUser
    <2>1. TypeOK'
      BY DEF TypeOK
    <2>2. RunsCounted'
      BY DEF RunsCounted
    <2>3. RunsNumbered'
      <3>1. wjob[w] \in Jobs /\ state[wjob[w]] # "none" /\ data[wjob[w]].name \in Names
        BY DEF RunsNumbered, TypeOK
      <3> QED BY <3>1 DEF RunsNumbered, TypeOK, Names
    <2>4. OneMailPerRun' /\ ReturnedDelivered'
      BY DEF OneMailPerRun, ReturnedDelivered, TypeOK
    <2> QED BY <2>1, <2>2, <2>3, <2>4
  <1>4. ASSUME NEW w \in Workers, SendMail(w)
        PROVE WorkerInv'
    <2> USE <1>4 DEF SendMail
    <2>1. wjob[w] \in Jobs /\ wrun[w] \in 1 .. runs[wjob[w]] /\ wrun[w] \in Nat
      BY DEF RunsNumbered, TypeOK
    <2>2. TypeOK'
      BY <2>1 DEF TypeOK
    <2>3. RunsCounted'
      BY DEF RunsCounted
    <2>4. RunsNumbered'
      BY <2>1 DEF RunsNumbered, TypeOK
    <2>5. OneMailPerRun'
      BY <2>1 DEF OneMailPerRun, TypeOK
    <2>6. ReturnedDelivered'
      <3>1. \A i \in Jobs : delivered[i] \subseteq delivered'[i]
        BY <2>1 DEF TypeOK
      <3>2. wpc'[w] = "return" => wrun[w] \in delivered'[wjob[w]]
        BY <2>1 DEF TypeOK
      <3>3. \A v \in Workers : v # w => wpc'[v] = wpc[v]
        BY DEF TypeOK
      <3>4. \A v \in Workers : wpc[v] = "return" => wjob[v] \in Jobs
        BY DEF TypeOK
      <3> QED BY <2>1, <3>1, <3>2, <3>3, <3>4 DEF ReturnedDelivered
    <2> QED BY <2>2, <2>3, <2>4, <2>5, <2>6
  <1>5. ASSUME NEW w \in Workers, Complete(w)
        PROVE WorkerInv'
    <2> USE <1>5 DEF Complete, Release, Holds
    <2>1. wjob[w] \in Jobs /\ (lock[wjob[w]] = w => state[wjob[w]] = "active")
      BY DEF RunsNumbered, TypeOK
    <2>2. TypeOK'
      BY <2>1 DEF TypeOK, Settled
    <2>3. RunsCounted'
      BY <2>1 DEF RunsCounted, TypeOK
    <2>4. RunsNumbered' /\ OneMailPerRun' /\ ReturnedDelivered'
      BY <2>1 DEF RunsNumbered, OneMailPerRun, ReturnedDelivered, TypeOK
    <2> QED BY <2>2, <2>3, <2>4
  <1>6. ASSUME NEW w \in Workers, FailAttempt(w)
        PROVE WorkerInv'
    <2> USE <1>6 DEF FailAttempt, Release, Holds, AfterFailure
    <2>1. wjob[w] \in Jobs /\ (lock[wjob[w]] = w => state[wjob[w]] = "active")
      BY DEF RunsNumbered, TypeOK
    <2>2. TypeOK'
      BY <2>1 DEF TypeOK, Settled, Pending
    <2>3. RunsCounted'
      <3>1. CASE lock[wjob[w]] = w
        BY <2>1, <3>1 DEF RunsCounted, TypeOK
      <3>2. CASE lock[wjob[w]] # w
        BY <2>1, <3>2 DEF RunsCounted, TypeOK
      <3> QED BY <3>1, <3>2
    <2>4. RunsNumbered' /\ OneMailPerRun' /\ ReturnedDelivered'
      BY <2>1 DEF RunsNumbered, OneMailPerRun, ReturnedDelivered, TypeOK
    <2> QED BY <2>2, <2>3, <2>4
  <1>7. ASSUME NEW j \in Jobs, JobStep(j)
        PROVE WorkerInv'
    <2> USE <1>7 DEF JobStep, Promote, LockExpires, Stall
    <2>1. TypeOK'
      BY DEF TypeOK, Settled, Pending
    <2>2. RunsCounted'
      <3>1. CASE Promote(j)
        BY <3>1 DEF RunsCounted, TypeOK
      <3>2. CASE LockExpires(j)
        BY <3>2 DEF RunsCounted, TypeOK
      <3>3. CASE Stall(j)
        BY <3>3 DEF RunsCounted, TypeOK
      <3> QED BY <3>1, <3>2, <3>3
    <2>3. RunsNumbered'
      BY DEF RunsNumbered, TypeOK
    <2>4. OneMailPerRun' /\ ReturnedDelivered'
      BY DEF OneMailPerRun, ReturnedDelivered, TypeOK
    <2> QED BY <2>1, <2>2, <2>3, <2>4
  <1>8. ASSUME NEW w \in Workers, Crash(w) \/ Restart(w)
        PROVE WorkerInv'
    <2> USE <1>8 DEF Crash, Restart
    <2>1. TypeOK' /\ RunsCounted'
      BY DEF TypeOK, RunsCounted
    <2>2. RunsNumbered' /\ OneMailPerRun' /\ ReturnedDelivered'
      BY DEF RunsNumbered, OneMailPerRun, ReturnedDelivered, TypeOK
    <2> QED BY <2>1, <2>2
  <1>9. ASSUME NEW u \in Users, DeleteAccount(u)
        PROVE WorkerInv'
    BY <1>9 DEF DeleteAccount, TypeOK, RunsCounted, RunsNumbered, OneMailPerRun, ReturnedDelivered
  <1>10. CASE UNCHANGED vars
    BY <1>10 DEF vars, TypeOK, RunsCounted, RunsNumbered, OneMailPerRun, ReturnedDelivered
  <1> QED
    BY <1>1, <1>2, <1>3, <1>4, <1>5, <1>6, <1>7, <1>8, <1>9, <1>10 DEF Next, WorkerStep

LEMMA Invariance == Spec => []WorkerInv
  BY InitInv, StepInv, PTL DEF Spec

\* The mails of a job are at most its runs.
LEMMA MailsAreRuns ==
    ASSUME WorkerInv, NEW j \in Jobs
    PROVE  Cardinality(delivered[j]) \in Nat /\ Cardinality(delivered[j]) <= runs[j]
  <1>1. runs[j] \in Nat /\ delivered[j] \subseteq 1 .. runs[j]
    BY DEF WorkerInv, TypeOK, RunsNumbered
  <1>2. IsFiniteSet(1 .. runs[j]) /\ Cardinality(1 .. runs[j]) = runs[j]
    BY <1>1, FS_Interval
  <1> QED BY <1>1, <1>2, FS_Subset, FS_CardinalityType

\* However a job fares, it is not run more than Tries + MaxStalled times.
LEMMA RunsBounded ==
    ASSUME WorkerInv, NEW j \in Jobs
    PROVE  runs[j] \in Nat /\ runs[j] <= Tries + MaxStalled /\ runs[j] <= 1 + made[j] + stalls[j]
  BY WorkerAssumption, TriesPositive DEF WorkerInv, RunsCounted, TypeOK, Pending, Settled

(* Type correctness of the queue and its workers.                          *)
THEOREM TypeCorrect == Spec => []TypeOK
  <1>1. WorkerInv => TypeOK
    BY DEF WorkerInv
  <1> QED BY <1>1, Invariance, PTL

(* One job sends at most Tries + MaxStalled mails, for every Attempts and  *)
(* MaxStalled, however many workers crash or lose their locks.             *)
THEOREM BoundedRedelivery == Spec => []MailsPerJob
  <1>1. WorkerInv => MailsPerJob
    BY MailsAreRuns, RunsBounded, WorkerAssumption, TriesPositive DEF MailsPerJob
  <1> QED BY <1>1, Invariance, PTL

(* A second mail of a job has a failed attempt or a stall to answer for it.*)
THEOREM DuplicatesHaveCause == Spec => []DuplicatesExplained
  <1>1. WorkerInv => DuplicatesExplained
    <2> SUFFICES ASSUME WorkerInv, NEW j \in Jobs
                 PROVE Cardinality(delivered[j]) <= 1 + made[j] + stalls[j]
      BY DEF DuplicatesExplained
    <2>1. made[j] \in Nat /\ stalls[j] \in Nat
      BY DEF WorkerInv, TypeOK
    <2> QED BY <2>1, MailsAreRuns, RunsBounded
  <1> QED BY <1>1, Invariance, PTL

(* A completed job has sent its mail or found, as a magic link or a reset, *)
(* that its user is gone; a verification is never completed without one.   *)
THEOREM CompletionMeansMail == Spec => []CompletedDelivered
  <1>1. WorkerInv => CompletedDelivered
    BY DEF WorkerInv, RunsNumbered, ReturnedDelivered, CompletedDelivered
  <1> QED BY <1>1, Invariance, PTL

(* A settled job stays settled, whatever run of it is still going on.      *)
THEOREM SettledForGood == Spec => SettledStays
  <1>1. WorkerInv /\ [Next]_vars => [\A j \in Jobs : state[j] \in Settled => state'[j] = state[j]]_vars
    <2> SUFFICES ASSUME WorkerInv, [Next]_vars, NEW j \in Jobs, state[j] \in Settled
                 PROVE state'[j] = state[j]
      OBVIOUS
    <2>1. lock[j] = NoWorker
      BY DEF WorkerInv, RunsNumbered, Settled, TypeOK
    <2>2. ASSUME NEW w \in Workers, Complete(w) \/ FailAttempt(w)
          PROVE state'[j] = state[j]
      <3>1. wjob[w] = j => ~Holds(w)
        BY <2>1, SentinelAssumption DEF Holds
      <3> QED BY <2>2, <3>1 DEF Complete, FailAttempt, WorkerInv, TypeOK
    <2>3. ASSUME NEW w \in Workers, NEW i \in Jobs, Take(w, i)
          PROVE state'[j] = state[j]
      BY <2>3 DEF Take, Settled, WorkerInv, TypeOK
    <2>4. ASSUME NEW i \in Jobs, JobStep(i)
          PROVE state'[j] = state[j]
      BY <2>4 DEF JobStep, Promote, LockExpires, Stall, Settled, WorkerInv, TypeOK
    <2>5. ASSUME NEW i \in Jobs, NEW name \in Names, NEW u \in Users, Add(i, name, u)
          PROVE state'[j] = state[j]
      BY <2>5 DEF Add, Settled, WorkerInv, TypeOK
    <2>6. CASE UNCHANGED state
      BY <2>6
    <2> QED
      BY <2>2, <2>3, <2>4, <2>5, <2>6
         DEF Next, WorkerStep, vars, jobVars, FindUser, SendMail, Crash, Restart, DeleteAccount
  <1> QED BY <1>1, Invariance, PTL DEF Spec, SettledStays

(* The queue implements EmailPromise: every step of BullMQ and its workers *)
(* is a step of the promise, or changes nothing that it speaks of.         *)
THEOREM Refinement == Spec => PromiseKept
  <1> USE WorkerAssumption, SentinelAssumption, TriesPositive
  <1>1. Init => Promise!Init
    BY DEF Init, Promise!Init, Status, Pending
  <1>2. WorkerInv /\ [Next]_vars => [Promise!Next]_Promise!vars
    <2> SUFFICES ASSUME WorkerInv, [Next]_vars PROVE [Promise!Next]_Promise!vars
      OBVIOUS
    <2> USE DEF WorkerInv, jobVars, workerVars, mailVars
    <2>1. ASSUME NEW j \in Jobs, NEW name \in Names, NEW u \in Users, Add(j, name, u)
          PROVE Promise!Accept(j)
      BY <2>1 DEF Add, Promise!Accept, Status, Pending, TypeOK
    <2>2. ASSUME NEW w \in Workers, NEW j \in Jobs, Take(w, j)
          PROVE UNCHANGED Promise!vars
      BY <2>2 DEF Take, Promise!vars, Status, Pending, TypeOK
    <2>3. ASSUME NEW w \in Workers, FindUser(w)
          PROVE Promise!Skip(wjob[w]) \/ UNCHANGED Promise!vars
      <3>1. wjob[w] \in Jobs /\ state[wjob[w]] # "none"
        BY <2>3 DEF FindUser, RunsNumbered, TypeOK
      <3> QED BY <2>3, <3>1 DEF FindUser, Promise!Skip, Promise!vars, Status, Pending, TypeOK
    <2>4. ASSUME NEW w \in Workers, SendMail(w)
          PROVE Promise!Deliver(wjob[w], wrun[w]) \/ UNCHANGED Promise!vars
      <3>1. /\ wjob[w] \in Jobs /\ state[wjob[w]] # "none"
            /\ wrun[w] \in 1 .. runs[wjob[w]] /\ wrun[w] \notin delivered[wjob[w]]
        BY <2>4 DEF SendMail, RunsNumbered, OneMailPerRun, TypeOK
      <3>2. wrun[w] \in 1 .. (Tries + MaxStalled)
        BY <3>1, RunsBounded
      <3> QED BY <2>4, <3>1, <3>2 DEF SendMail, Promise!Deliver, Promise!vars, Status, Pending, TypeOK
    <2>5. ASSUME NEW w \in Workers, Complete(w)
          PROVE Promise!Complete(wjob[w]) \/ UNCHANGED Promise!vars
      <3>1. wjob[w] \in Jobs /\ (Holds(w) => state[wjob[w]] = "active")
        BY <2>5 DEF Complete, Holds, RunsNumbered, TypeOK
      <3>2. delivered[wjob[w]] # {} \/ wjob[w] \in skipped
        BY <2>5 DEF Complete, ReturnedDelivered
      <3> QED BY <2>5, <3>1, <3>2 DEF Complete, Promise!Complete, Promise!vars, Status, Pending, TypeOK
    <2>6. ASSUME NEW w \in Workers, FailAttempt(w)
          PROVE Promise!Fail(wjob[w]) \/ UNCHANGED Promise!vars
      <3>1. wjob[w] \in Jobs /\ (Holds(w) => state[wjob[w]] = "active")
        BY <2>6 DEF FailAttempt, Holds, RunsNumbered, TypeOK
      <3> QED BY <2>6, <3>1 DEF FailAttempt, AfterFailure, Promise!Fail, Promise!vars, Status, Pending, TypeOK
    <2>7. ASSUME NEW j \in Jobs, JobStep(j)
          PROVE Promise!Fail(j) \/ UNCHANGED Promise!vars
      BY <2>7 DEF JobStep, Promote, LockExpires, Stall, Promise!Fail, Promise!vars, Status, Pending, TypeOK
    <2>8. ASSUME UNCHANGED <<state, delivered, skipped>>
          PROVE UNCHANGED Promise!vars
      BY <2>8 DEF Promise!vars, Status
    <2>9. ASSUME NEW w \in Workers, WorkerStep(w)
          PROVE [Promise!Next]_Promise!vars
      <3>1. wjob[w] \in Jobs /\ (SendMail(w) => wrun[w] \in 1 .. (Tries + MaxStalled))
        BY <2>9, RunsBounded
           DEF WorkerStep, FindUser, SendMail, Complete, FailAttempt, RunsNumbered, TypeOK
      <3> QED BY <2>3, <2>4, <2>5, <2>6, <2>9, <3>1 DEF WorkerStep, Promise!Next
    <2> QED
      BY <2>1, <2>2, <2>7, <2>8, <2>9
         DEF Next, vars, Crash, Restart, DeleteAccount, Promise!Next
  <1> QED BY <1>1, <1>2, Invariance, PTL DEF Spec, PromiseKept, Promise!Spec
=============================================================================
