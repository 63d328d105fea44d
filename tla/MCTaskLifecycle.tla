-------------------------- MODULE MCTaskLifecycle --------------------------
(* One task line, several requests, two processes that sweep. *)
EXTENDS TaskLifecycle
=============================================================================
