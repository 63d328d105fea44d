----------------------------- MODULE MCDevBuild -----------------------------
(* A build of two calls' worth of budget, two workers, one decision at a time. *)
(* Two faults meet a build nobody edited or asked anything of; one whose       *)
(* ceiling was raised meets a fault or an edit, and not both.                  *)
EXTENDS DevBuild, TLC

Symmetry == Permutations(Tick)

MCWallet == [held |-> 1, credit |-> 1]

FewMisfortunes ==
    /\ edits > 0 \/ changes # <<>> => faults <= 1
    /\ money.ceiling = Budget \/ faults + edits <= 1
=============================================================================
