--------------------------- MODULE MCMailPipeline ---------------------------
EXTENDS MailPipeline

CONSTANTS r1, r2

\* Bounds: r1 arrives first, and r2 for the same kind and user (the keys share
\* nothing); the clock ticks between the two.  A password reset is, in the server,
\* like a verification mail and, in the worker, like a magic link: those two kinds
\* are enough.  No symmetry: the run checks liveness.
InOrder ==
    /\ pc[r2] # "idle" => pc[r1] # "idle" /\ key[r2] = key[r1]
    /\ pc[r1] # "idle" => key[r1][1] # "reset-password"
MCOther(r) == ServerOther(r) /\ InOrder'
MCClock == pc[r1] # "idle" /\ pc[r2] = "idle" /\ Clock
MCNext ==
    \/ \E r \in Requests : Enqueue(r) \/ ServerStep(r) \/ MCOther(r)
    \/ MCClock
    \/ QueueStep
    \/ \E u \in Users : DeleteUser(u)
MCSpec ==
    /\ PipelineInit /\ [][MCNext]_pipelineVars
    /\ \A r \in Requests : WF_pipelineVars(Enqueue(r) \/ ServerStep(r))
    /\ Worker!Fairness
=============================================================================
