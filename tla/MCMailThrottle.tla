--------------------------- MODULE MCMailThrottle ---------------------------
(* MailThrottle for TLC.  Two requests, of any of the three kinds: a second  *)
(* one is what a throttle is about.  No symmetry: the run checks liveness.   *)
EXTENDS MailThrottle
=============================================================================
