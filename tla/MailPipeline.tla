---------------------------- MODULE MailPipeline ----------------------------
(***************************************************************************)
(* A mail from the request to the mail server: the sending operations of   *)
(* AuthService (MailThrottle, extended here) in the server process, with   *)
(* the email queue and its worker process (EmailWorker).  They meet in two *)
(* places only: the queue, where emailQueue.add of the one is the new job  *)
(* of the other, and the user table, which both read.  Job r is the job of *)
(* request r.                                                              *)
(***************************************************************************)
EXTENDS MailThrottle

CONSTANTS Workers, Attempts, MaxStalled

ASSUME PipelineAssumption ==
    /\ Attempts \in Nat /\ MaxStalled \in Nat
    /\ "no job" \notin Requests /\ "no worker" \notin Workers

VARIABLES state, data, lock, made, stalls, wpc, wjob, wrun, runs, delivered, skipped

serverVars == <<now, cache, pc, key, readAt, addedAt, stampedAt>>
queueVars == <<state, data, lock, made, stalls, wpc, wjob, wrun, runs, delivered, skipped>>
pipelineVars == <<now, cache, pc, key, readAt, addedAt, stampedAt, accounts,
                  state, data, lock, made, stalls, wpc, wjob, wrun, runs, delivered, skipped>>

Worker == INSTANCE EmailWorker WITH Jobs <- Requests

PipelineInit == Init /\ Worker!Init

\* Mutants: every job is added under one name; the add is lost on its way.
EnqueueOneName(r) == AddJob(r) /\ Worker!Add(r, "reset-password", key[r][2])
EnqueueLost(r) == AddJob(r) /\ UNCHANGED queueVars

\* The call that the two processes share: the server adds the job.
Enqueue(r) == AddJob(r) /\ Worker!Add(r, key[r][1], key[r][2])

ServerStep(r) ==
    /\ Lookup(r) \/ ReadTtl(r) \/ SetStamp(r)
    /\ UNCHANGED queueVars

ServerOther(r) ==
    /\ Fail(r) \/ \E k \in Keys : Arrive(r, k)
    /\ UNCHANGED queueVars

Clock == Tick /\ UNCHANGED queueVars

QueueStep ==
    /\ \/ \E w \in Workers : \/ Worker!WorkerStep(w) \/ Worker!Crash(w) \/ Worker!Restart(w)
                             \/ \E r \in Requests : Worker!Take(w, r)
       \/ \E r \in Requests : Worker!JobStep(r)
    /\ UNCHANGED serverVars

DeleteUser(u) ==
    /\ DeleteAccount(u) /\ UNCHANGED queueVars
    /\ Worker!DeleteAccount(u)

PipelineNext ==
    \/ \E r \in Requests : Enqueue(r) \/ ServerStep(r) \/ ServerOther(r)
    \/ Clock
    \/ QueueStep
    \/ \E u \in Users : DeleteUser(u)

PipelineSpec == PipelineInit /\ [][PipelineNext]_pipelineVars

\* The fairness of the two parts.
FairPipelineSpec ==
    /\ PipelineSpec
    /\ \A r \in Requests : WF_pipelineVars(Enqueue(r) \/ ServerStep(r))
    /\ Worker!Fairness
-----------------------------------------------------------------------------
(* A request that was refused, or whose user was unknown, never causes a   *)
(* mail; and a mail is only ever sent for the user and of the kind that    *)
(* its request named.                                                      *)
OnlyAdmittedMails ==
    \A r \in Requests :
        /\ pc[r] \in {"refused", "unknown"} => state[r] = "none" /\ delivered[r] = {}
        /\ state[r] # "none" => data[r] = [name |-> key[r][1], user |-> key[r][2]]

\* q queued its mail and wrote the stamp that r, asking for the same, has read.
Behind(r, q) ==
    /\ key[q] = key[r] /\ Queued(q) /\ Stamped(q)
    /\ stampedAt[q] <= readAt[r] /\ readAt[r] < stampedAt[q] + Window

(* Whoever is answered 429 has a job of that very kind and user in the     *)
(* queue, put there by a request that stamped it less than a Window before *)
(* the refusal: the stamp never vouches for a job that was not stored.     *)
RefusedHasJob ==
    \A r \in Requests : pc[r] = "refused" =>
        \E q \in Requests :
            /\ Behind(r, q)
            /\ state[q] # "none"
            /\ data[q] = [name |-> key[r][1], user |-> key[r][2]]

Settles(q) == delivered[q] # {} \/ q \in skipped \/ state[q] = "failed"

(* That job is settled in the end: the mail which a 429 tells its user to  *)
(* wait for goes out, unless the user is gone or the job used up its       *)
(* attempts.  It need not have been answered with success: a request whose *)
(* stamp was stored and whose reply was lost refuses others all the same.  *)
RefusedIsSettled ==
    \A q \in Requests : (\E r \in Requests : pc[r] = "refused" /\ Behind(r, q)) ~> Settles(q)

(* A request that was answered with success ends in a mail, or in a job    *)
(* that found no user, or in a job that used up its attempts.              *)
SuccessIsSettled ==
    \A r \in Requests : (pc[r] = "sent") ~> Settles(r)

(* The composition behaves, seen from either side, as that side's own      *)
(* specification: what is proved of the parts holds of the whole.          *)
ThrottleKept == Spec
WorkerKept == Worker!Spec
=============================================================================
