---------------------------- MODULE EmailPromise ----------------------------
(***************************************************************************)
(* What the email queue promises to whoever adds a job to it, whatever     *)
(* fails on the way: an accepted job settles at most once; it sends at     *)
(* most Bound mails, one per run; and it counts as completed only when a   *)
(* mail went out or the handler found that there is nobody to write to.    *)
(***************************************************************************)
EXTENDS Integers

CONSTANTS Jobs, Bound

VARIABLES status,      \* Jobs -> none, pending, completed or failed
          delivered,   \* Jobs -> the runs whose mail the mail server took
          skipped      \* jobs for which a run found no recipient

vars == <<status, delivered, skipped>>

Init ==
    /\ status = [j \in Jobs |-> "none"]
    /\ delivered = [j \in Jobs |-> {}]
    /\ skipped = {}

Accept(j) ==
    /\ status[j] = "none"
    /\ status' = [status EXCEPT ![j] = "pending"]
    /\ UNCHANGED <<delivered, skipped>>

\* A run that lost its job may still be sending when the job settles.
Deliver(j, run) ==
    /\ status[j] # "none"
    /\ run \in (1 .. Bound) \ delivered[j]
    /\ delivered' = [delivered EXCEPT ![j] = @ \cup {run}]
    /\ UNCHANGED <<status, skipped>>

Skip(j) ==
    /\ status[j] # "none"
    /\ skipped' = skipped \cup {j}
    /\ UNCHANGED <<status, delivered>>

Complete(j) ==
    /\ status[j] = "pending"
    /\ delivered[j] # {} \/ j \in skipped
    /\ status' = [status EXCEPT ![j] = "completed"]
    /\ UNCHANGED <<delivered, skipped>>

Fail(j) ==
    /\ status[j] = "pending"
    /\ status' = [status EXCEPT ![j] = "failed"]
    /\ UNCHANGED <<delivered, skipped>>

Next ==
    \E j \in Jobs :
        \/ Accept(j) \/ Skip(j) \/ Complete(j) \/ Fail(j)
        \/ \E run \in 1 .. Bound : Deliver(j, run)

Spec == Init /\ [][Next]_vars
=============================================================================
