------------------------------ MODULE MCJevGraph ------------------------------
(* The two ways of carrying a plan out, as a graph and as a list; they share *)
(* no variable, and one part moves in a behaviour.                           *)
(*                                                                           *)
(* One task has two graphs.  Graph 1 can grow to the shape of the model      *)
(* loop with a replanning: an implementation (1) that announces successors,  *)
(* an execution node (2) with a deadline, a review (3) that runs on settled  *)
(* work and announces successors, and a replan (4) that runs on settled work *)
(* too.  Graph 2 is a second plan (5) of the same task.  The list is of one  *)
(* step or of two, requested twice and verified meanwhile; no two of two     *)
(* steps are carried out at once.                                            *)
EXTENDS JevGraph, TaskExecution, TLC

VARIABLE part

CarryingInit == Init /\ TaskInit /\ part \in {"graph", "list"}
\* The requests for a plan of two steps that are being carried out.
LongPlans == Cardinality({r \in Request : Len(eng[r].kinds) > 1})

CarryingNext ==
    /\ UNCHANGED part
    /\ \/ part = "graph" /\ Next /\ UNCHANGED taskVars
       \/ part = "list" /\ TaskNext /\ LongPlans' <= 1 /\ UNCHANGED vars
CarryingSpec == CarryingInit /\ [][CarryingNext]_<<vars, taskVars, part>>

Alike == Permutations(Worker) \cup Permutations(Request)
MCNode == 1..5
MCGraph == {1, 2}
MCGraphOf == [n \in MCNode |-> IF n <= 4 THEN 1 ELSE 2]
MCDependsOn == <<{}, {1}, {2}, {3}, {}>>
MCFirstMax == <<1, 2, 1, 1, 1>>
MCTimeout == <<0, 1, 0, 0, 0>>
MCReopens == <<1, 0, 0, 0, 0>>
MCCanRun == [w \in Worker |-> MCNode]
MCStepPlans == {<<"package">>, <<"engine", "command">>, <<"deploy">>}
=============================================================================
