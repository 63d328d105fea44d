---------------------------- MODULE MCJobQueue ----------------------------
(* Jobs with two attempts, a direct owner and a pool of two machines.      *)
EXTENDS JobQueue
=============================================================================
