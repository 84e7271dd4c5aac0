----------------------------- MODULE EmailWorker ----------------------------
(***************************************************************************)
(* The email queue and the worker process that empties it:                 *)
(* EmailProcessor (src/worker/queues/email/email.processor.ts), its three  *)
(* handlers in EmailQueueService (email.service.ts), and the retry options *)
(* of src/config/bull/bull.config.ts.  BullMQ itself is not in the         *)
(* repository; its job life cycle is modelled as the code relies on it:    *)
(*                                                                         *)
(*   waiting -> active -> completed                                        *)
(*                     -> delayed -> waiting    (attempt failed, retries)  *)
(*                     -> failed                (attempts used up)         *)
(*           a job whose lock is gone: active -> waiting, or -> failed     *)
(*           once it has stalled more than MaxStalled times                *)
(*                                                                         *)
(* A worker holds a lock on the job it runs and renews it; when the worker *)
(* dies, or cannot renew it in time, the lock expires and the job is given *)
(* to a worker again although the first run may still be going on.         *)
(* A worker runs one job at a time (concurrency: 1).                       *)
(***************************************************************************)
EXTENDS Integers, FiniteSets

CONSTANTS Jobs, Users, Workers,
          Attempts,    \* defaultJobOptions.attempts
          MaxStalled   \* BullMQ's maxStalledCount, which the processor leaves at its default

ASSUME WorkerAssumption == Attempts \in Nat /\ MaxStalled \in Nat

NoJob == "no job"
NoWorker == "no worker"
NoData == [name |-> "none", user |-> "none"]
ASSUME SentinelAssumption == NoJob \notin Jobs /\ NoWorker \notin Workers

\* The names AuthService adds, and any other one (the Bull board can add jobs).
Names == {"email-verification", "signin-magic-link", "reset-password", "other"}

VARIABLES state,      \* Jobs -> the list or set of BullMQ the job is in
          data,       \* Jobs -> its name and the user it is about
          lock,       \* Jobs -> the worker whose lock token is in Redis
          made,       \* Jobs -> attemptsMade
          stalls,     \* Jobs -> stalledCount
          wpc,        \* Workers -> where the run of its job is
          wjob,       \* Workers -> the job it runs
          wrun,       \* history: the number of that run
          accounts,   \* users findOne returns (not soft-deleted)
          runs,       \* history: Jobs -> how often it was started
          delivered,  \* history: Jobs -> the runs whose mail the SMTP server took
          skipped     \* history: jobs for which a run found no user

jobVars == <<state, data, lock, made, stalls>>
workerVars == <<wpc, wjob, wrun>>
mailVars == <<delivered, skipped>>
vars == <<state, data, lock, made, stalls, wpc, wjob, wrun, accounts, runs, delivered, skipped>>

Settled == {"completed", "failed"}
Pending == {"waiting", "active", "delayed"}

TypeOK ==
    /\ state \in [Jobs -> {"none"} \cup Pending \cup Settled]
    /\ data \in [Jobs -> [name : Names, user : Users] \cup {NoData}]
    /\ \A j \in Jobs : state[j] # "none" => data[j] \in [name : Names, user : Users]
    /\ lock \in [Jobs -> Workers \cup {NoWorker}]
    /\ made \in [Jobs -> Nat] /\ stalls \in [Jobs -> Nat] /\ runs \in [Jobs -> Nat]
    /\ wpc \in [Workers -> {"idle", "find", "send", "return", "throw", "down"}]
    /\ wjob \in [Workers -> Jobs \cup {NoJob}]
    /\ \A w \in Workers : wpc[w] \notin {"idle", "down"} => wjob[w] \in Jobs
    /\ wrun \in [Workers -> Nat]
    /\ accounts \subseteq Users
    /\ delivered \in [Jobs -> SUBSET Nat]
    /\ skipped \subseteq Jobs

Init ==
    /\ state = [j \in Jobs |-> "none"]
    /\ data = [j \in Jobs |-> NoData]
    /\ lock = [j \in Jobs |-> NoWorker]
    /\ made = [j \in Jobs |-> 0] /\ stalls = [j \in Jobs |-> 0] /\ runs = [j \in Jobs |-> 0]
    /\ wpc = [w \in Workers |-> "idle"]
    /\ wjob = [w \in Workers |-> NoJob]
    /\ wrun = [w \in Workers |-> 0]
    /\ accounts = Users
    /\ delivered = [j \in Jobs |-> {}]
    /\ skipped = {}
-----------------------------------------------------------------------------
\* emailQueue.add(name, data).
Add(j, name, u) ==
    /\ state[j] = "none"
    /\ state' = [state EXCEPT ![j] = "waiting"]
    /\ data' = [data EXCEPT ![j] = [name |-> name, user |-> u]]
    /\ UNCHANGED <<lock, made, stalls, workerVars, accounts, runs, mailVars>>

\* A free worker fetches a job and locks it; the limiter only delays this.
Take(w, j) ==
    /\ wpc[w] = "idle" /\ state[j] = "waiting"
    /\ state' = [state EXCEPT ![j] = "active"]
    /\ lock' = [lock EXCEPT ![j] = w]
    /\ runs' = [runs EXCEPT ![j] = @ + 1]
    /\ wpc' = [wpc EXCEPT ![w] = "find"]
    /\ wjob' = [wjob EXCEPT ![w] = j]
    /\ wrun' = [wrun EXCEPT ![w] = runs[j] + 1]
    /\ UNCHANGED <<data, made, stalls, accounts, mailVars>>

\* Mutant: the verification handler returns early, as the other two do.
WithoutUserQuiet(name) == "return"

\* What a handler does when findOne returns no user: the verification handler
\* logs and goes on to user.email, which throws; the other two return.
WithoutUser(name) == IF name = "email-verification" THEN "throw" ELSE "return"

\* process(): dispatch on job.name and await userRepository.findOne.
FindUser(w) ==
    LET j == wjob[w] IN
    /\ wpc[w] = "find"
    /\ \/ /\ data[j].name # "other" /\ data[j].user \in accounts
          /\ wpc' = [wpc EXCEPT ![w] = "send"]
          /\ UNCHANGED skipped
       \/ /\ data[j].name # "other" /\ data[j].user \notin accounts
          /\ wpc' = [wpc EXCEPT ![w] = WithoutUser(data[j].name)]
          /\ skipped' = IF WithoutUser(data[j].name) = "return" THEN skipped \cup {j} ELSE skipped
       \/ /\ wpc' = [wpc EXCEPT ![w] = "throw"]     \* unknown name, or a database error
          /\ UNCHANGED skipped
    /\ UNCHANGED <<jobVars, wjob, wrun, accounts, runs, delivered>>

\* Mutant: the handler does not await the mail, so it returns whatever happens.
SendMailUnawaited(w) ==
    /\ wpc[w] = "send"
    /\ wpc' = [wpc EXCEPT ![w] = "return"]
    /\ \/ delivered' = [delivered EXCEPT ![wjob[w]] = @ \cup {wrun[w]}]
       \/ UNCHANGED delivered
    /\ UNCHANGED <<jobVars, wjob, wrun, accounts, runs, skipped>>

\* mailService.send...Mail: accepted, refused, or accepted with the reply lost.
SendMail(w) ==
    /\ wpc[w] = "send"
    /\ \/ /\ delivered' = [delivered EXCEPT ![wjob[w]] = @ \cup {wrun[w]}]
          /\ \E next \in {"return", "throw"} : wpc' = [wpc EXCEPT ![w] = next]
       \/ /\ wpc' = [wpc EXCEPT ![w] = "throw"]
          /\ UNCHANGED delivered
    /\ UNCHANGED <<jobVars, wjob, wrun, accounts, runs, skipped>>

\* A worker may change the fate of its job only while it holds the lock.
Holds(w) == lock[wjob[w]] = w

Release(w) ==
    /\ wpc' = [wpc EXCEPT ![w] = "idle"]
    /\ wjob' = [wjob EXCEPT ![w] = NoJob]
    /\ UNCHANGED wrun

\* process() resolved: moveToCompleted, refused by Redis without the lock.
Complete(w) ==
    /\ wpc[w] = "return"
    /\ Release(w)
    /\ IF Holds(w)
       THEN /\ state' = [state EXCEPT ![wjob[w]] = "completed"]
            /\ lock' = [lock EXCEPT ![wjob[w]] = NoWorker]
       ELSE UNCHANGED <<state, lock>>
    /\ UNCHANGED <<data, made, stalls, accounts, runs, mailVars>>

\* Mutant: one retry too many.
AfterFailureLate(j) == IF made[j] < Attempts THEN "delayed" ELSE "failed"

\* moveToFailed: attemptsMade + 1 < attempts retries, after the backoff.
AfterFailure(j) == IF made[j] + 1 < Attempts THEN "delayed" ELSE "failed"

\* process() rejected: moveToFailed, refused by Redis without the lock.
FailAttempt(w) ==
    /\ wpc[w] = "throw"
    /\ Release(w)
    /\ IF Holds(w)
       THEN /\ state' = [state EXCEPT ![wjob[w]] = AfterFailure(wjob[w])]
            /\ made' = [made EXCEPT ![wjob[w]] = @ + 1]
            /\ lock' = [lock EXCEPT ![wjob[w]] = NoWorker]
       ELSE UNCHANGED <<state, made, lock>>
    /\ UNCHANGED <<data, stalls, accounts, runs, mailVars>>

\* The backoff of a delayed job is over.
Promote(j) ==
    /\ state[j] = "delayed"
    /\ state' = [state EXCEPT ![j] = "waiting"]
    /\ UNCHANGED <<data, lock, made, stalls, workerVars, accounts, runs, mailVars>>

\* The lock runs out: its worker died, or did not renew it in time.
LockExpires(j) ==
    /\ lock[j] # NoWorker
    /\ lock' = [lock EXCEPT ![j] = NoWorker]
    /\ UNCHANGED <<state, data, made, stalls, workerVars, accounts, runs, mailVars>>

\* Mutant: stalls are not counted.
StallUncounted(j) ==
    /\ state[j] = "active" /\ lock[j] = NoWorker
    /\ state' = [state EXCEPT ![j] = "waiting"]
    /\ UNCHANGED <<data, lock, made, stalls, workerVars, accounts, runs, mailVars>>

\* Mutant: a job that has stalled as often as it may is not looked at again.
StallGivesUp(j) ==
    /\ state[j] = "active" /\ lock[j] = NoWorker /\ stalls[j] < MaxStalled
    /\ \E w \in Workers : wpc[w] # "down"
    /\ stalls' = [stalls EXCEPT ![j] = @ + 1]
    /\ state' = [state EXCEPT ![j] = "waiting"]
    /\ UNCHANGED <<data, lock, made, workerVars, accounts, runs, mailVars>>

\* The stalled check of some live worker finds an active job without a lock.
Stall(j) ==
    /\ state[j] = "active" /\ lock[j] = NoWorker
    /\ \E w \in Workers : wpc[w] # "down"
    /\ stalls' = [stalls EXCEPT ![j] = @ + 1]
    /\ state' = [state EXCEPT ![j] = IF stalls[j] + 1 > MaxStalled THEN "failed" ELSE "waiting"]
    /\ UNCHANGED <<data, lock, made, workerVars, accounts, runs, mailVars>>

\* The worker process dies; its lock stays in Redis until it expires.
Crash(w) ==
    /\ wpc[w] # "down"
    /\ wpc' = [wpc EXCEPT ![w] = "down"]
    /\ wjob' = [wjob EXCEPT ![w] = NoJob]
    /\ UNCHANGED <<jobVars, wrun, accounts, runs, mailVars>>

\* docker-compose: restart: unless-stopped.
Restart(w) ==
    /\ wpc[w] = "down"
    /\ wpc' = [wpc EXCEPT ![w] = "idle"]
    /\ UNCHANGED <<jobVars, wjob, wrun, accounts, runs, mailVars>>

DeleteAccount(u) ==
    /\ u \in accounts
    /\ accounts' = accounts \ {u}
    /\ UNCHANGED <<jobVars, workerVars, runs, mailVars>>

WorkerStep(w) == FindUser(w) \/ SendMail(w) \/ Complete(w) \/ FailAttempt(w)
JobStep(j) == Promote(j) \/ LockExpires(j) \/ Stall(j)

Next ==
    \/ \E j \in Jobs : JobStep(j) \/ \E name \in Names, u \in Users : Add(j, name, u)
    \/ \E w \in Workers : WorkerStep(w) \/ Crash(w) \/ Restart(w) \/ \E j \in Jobs : Take(w, j)
    \/ \E u \in Users : DeleteAccount(u)

Spec == Init /\ [][Next]_vars
-----------------------------------------------------------------------------
\* The holder of the lock no longer runs the job (it died).
Orphaned(j) == lock[j] # NoWorker /\ wjob[lock[j]] # j

\* Every await of a handler settles, the timers of BullMQ fire, a dead worker is
\* restarted, and workers do not die for ever between two fetches.
Fairness ==
    /\ \A w \in Workers : WF_vars(WorkerStep(w)) /\ WF_vars(Restart(w))
    /\ \A j \in Jobs :
          /\ WF_vars(Promote(j))
          /\ SF_vars(Stall(j))
          /\ WF_vars(Orphaned(j) /\ LockExpires(j))
          /\ SF_vars(\E w \in Workers : Take(w, j))
FairSpec == Spec /\ Fairness
-----------------------------------------------------------------------------
\* An attempts option of 0 still runs the job once.
Tries == IF Attempts = 0 THEN 1 ELSE Attempts

(* Redelivery is bounded: however workers die, lock renewals fail and SMTP *)
(* replies are lost, one job sends at most Tries + MaxStalled mails.       *)
MailsPerJob ==
    \A j \in Jobs : Cardinality(delivered[j]) <= Tries + MaxStalled

(* A user gets a mail twice only because an attempt failed or stalled: a   *)
(* job that went through on its first run sent one mail at most.           *)
DuplicatesExplained ==
    \A j \in Jobs : Cardinality(delivered[j]) <= 1 + made[j] + stalls[j]

(* A job that BullMQ shows as completed has sent its mail, unless it is a  *)
(* magic link or a password reset and the user was gone when a run looked; *)
(* a verification job is never completed without a mail.                   *)
CompletedDelivered ==
    \A j \in Jobs : state[j] = "completed" =>
        \/ delivered[j] # {}
        \/ j \in skipped /\ data[j].name \in {"signin-magic-link", "reset-password"}

(* A run that comes back after its job was given to somebody else cannot   *)
(* reopen a job that has settled.                                          *)
SettledStays ==
    [][\A j \in Jobs : state[j] \in Settled => state'[j] = state[j]]_vars

(* Every job that was added is completed or failed in the end: it is not   *)
(* stuck in active when its worker dies, nor retried for ever.             *)
EveryJobSettles ==
    \A j \in Jobs : (state[j] # "none") ~> (state[j] \in Settled)

(* The queue keeps the promise of EmailPromise.                            *)
Status == [j \in Jobs |-> IF state[j] \in Pending THEN "pending" ELSE state[j]]
Promise == INSTANCE EmailPromise WITH Bound <- Tries + MaxStalled, status <- Status
PromiseKept == Promise!Spec
=============================================================================
