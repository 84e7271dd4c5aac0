---------------------------- MODULE MCEmailWorker ---------------------------
(* EmailWorker for TLC.  Jobs share nothing but the workers, so one job is   *)
(* enough; it takes two workers to run it twice at once.  No symmetry: the   *)
(* run checks liveness.                                                      *)
EXTENDS EmailWorker
=============================================================================
