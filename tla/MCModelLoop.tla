----------------------------- MODULE MCModelLoop -----------------------------
(* One task with one change the user may get approved, inline and with       *)
(* workers; and the document store that every record of it is kept in.  The  *)
(* modules share no variable, so every state of their composition is a state *)
(* of each, and one part moves in a behaviour.                               *)
EXTENDS ModelLoop, Store, TLC

VARIABLE part

KeptLoopInit ==
    /\ Init /\ StoreInit
    /\ part \in {"loop", "store"}
    /\ part = "loop" => kind = "json"
    /\ part = "store" => inline
KeptLoopNext ==
    /\ UNCHANGED part
    /\ \/ part = "loop" /\ Next /\ UNCHANGED storeVars
       \/ part = "store" /\ StoreNext /\ UNCHANGED vars
KeptLoopSpec == KeptLoopInit /\ [][KeptLoopNext]_<<vars, storeVars, part>>

\* Plans of one step and of two in a row.
MCPlans == {[s \in {"exec"} |-> {}],
            [s \in {"exec", "then"} |-> IF s = "then" THEN {"exec"} ELSE {}]}
MCGuarded == {<<"exec", 2>>}

\* Bound: the second cycle has a plan of two steps, if any has.
LongPlanSecond == \A c \in Cycle : <<"then", c>> \in nodes => c = 2

Alike == Permutations(DbCall)
=============================================================================
