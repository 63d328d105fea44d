---------------------------- MODULE MCFoundations ----------------------------
(* The graph a list of steps becomes, the rules that decide which node of a  *)
(* graph may run, and the platform's own work on itself, which has no graph: *)
(* one failure and two tasks, of which the first may go through a repair     *)
(* round to its pull request and the second stops at its first question.     *)
(* The modules share no variable; one part moves in a behaviour. The builder *)
(* goes through all its questions alone, and through three of them beside    *)
(* the auditor.                                                              *)
(*                                                                           *)
(* Readiness is checked on every dependency relation over three keys, every  *)
(* dependency mode, and the statuses a stored node may have when             *)
(* applyReadiness starts; "failed" stands for timed_out too, which the rules *)
(* do not tell from it.                                                      *)
EXTENDS JevReadiness, JevPlanner, OpsWork

VARIABLE part

FoundationsInit ==
    /\ LoopInit /\ PlannerInit /\ WorkInit
    /\ part \in {"readiness", "planner", "builder", "work"}
    /\ part # "readiness" => pc = "kahn" /\ settles = {} /\ \A k \in Key : deps[k] = {} /\ start[k] = "ready"
FoundationsNext ==
    /\ UNCHANGED part
    /\ \/ part = "readiness" /\ LoopNext /\ UNCHANGED <<plannerVars, workVars>>
       \/ part = "planner" /\ PlannerNext /\ UNCHANGED <<loopVars, workVars>>
       \/ part = "builder" /\ WorkNext /\ UNCHANGED <<auditorVars, loopVars, plannerVars>>
       \/ part = "work" /\ WorkNext /\ Len(request') <= 3 /\ UNCHANGED <<loopVars, plannerVars>>
FoundationsSpec == FoundationsInit /\ [][FoundationsNext]_<<loopVars, plannerVars, workVars, part>>

MCSpelling == {"app", "./app/page", "docs/../app"}
MCName == {"app", "app/page", "docs/../app"}
MCUnder == {<<"app", "app/page">>}
MCNormal == [s \in MCSpelling |-> IF s = "./app/page" THEN "app/page" ELSE s]
MCResolved == [s \in MCSpelling |-> IF s = "./app/page" THEN "app/page" ELSE "app"]
MCKey == 1..3
MCStartStatus == {"pending", "ready", "running", "succeeded", "failed",
                  "skipped", "cancelled"}
Asks == <<5, 0>>
=============================================================================
