---------------------------- MODULE MCOpsControl ----------------------------
(* Two processes of one system with a task of two attempts; two              *)
(* administrators and the gateway; the coordinators of two servers; and two  *)
(* models.  One part moves in a behaviour.  The first and the last share no  *)
(* variable with the others.  The coordinators change no approval, the       *)
(* administrators no tick, and a request of either kind is to a coordinator  *)
(* what the route for agents files: neither part adds to the states the      *)
(* other's property speaks of.                                               *)
EXTENDS OpsControl, AdminOps, TLC

CONSTANT FirstModel
VARIABLE part

ControlRoomInit ==
    /\ Init /\ AdminInit
    /\ part \in {"system", "asking", "ticks", "models"} /\ (part # "models" => slot = FirstModel)
ControlRoomNext ==
    /\ UNCHANGED part
    /\ \/ part = "system" /\ Next /\ UNCHANGED adminVars
       \/ part = "asking" /\ AskingNext /\ UNCHANGED vars
       \/ part = "ticks" /\ TickNext /\ UNCHANGED vars
       \/ part = "models" /\ ModelNext /\ UNCHANGED vars
ControlRoomSpec == ControlRoomInit /\ [][ControlRoomNext]_<<vars, adminVars, part>>

Alike == Permutations(Proc) \cup Permutations(Admin) \cup Permutations(Coordinator)
=============================================================================
