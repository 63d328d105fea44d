---------------------------- MODULE MCUserService ----------------------------
(* What users ask of the service: the HTTP server in front, the decisions    *)
(* behind it.  The two modules share no variable and no constant, so every   *)
(* state of their composition is a state of each, and one part moves in a    *)
(* behaviour.                                                                *)
EXTENDS UserDecisions, HttpApi, TLC

VARIABLE part

ServiceInit ==
    /\ Init /\ ApiInit
    /\ part \in {"decisions", "api"} /\ (part = "api" => ~wide)
ServiceNext ==
    /\ UNCHANGED part
    /\ \/ part = "decisions" /\ Next /\ UNCHANGED apiVars
       \/ part = "api" /\ ApiNext /\ UNCHANGED vars
ServiceSpec == ServiceInit /\ [][ServiceNext]_<<vars, apiVars, part>>

\* Two requests at a time on either side, interchangeable.
Alike == Permutations(Call) \cup Permutations(Client)
MCNode == {1, 2}
=============================================================================
