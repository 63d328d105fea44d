---------------------------- MODULE MCJevExecution ----------------------------
(* One agent with a budget of 3 units: a workspace node of price 2 that is   *)
(* retried (1), a model node of price 1 whose call costs 3 (2), and after    *)
(* node 1 a model node no one priced, whose call costs 1 (3).                *)
EXTENDS JevExecution, TLC

MCNode == 1..3
MCGraphOf == [n \in MCNode |-> 1]
MCDependsOn == <<{}, {}, {1}>>
MCFirstMax == <<2, 1, 1>>
MCTimeout == <<0, 0, 0>>
MCReopens == <<0, 0, 0>>
MCPrice == <<2, 1, 0>>
MCCost == <<{NoUsage, 1}, {3}, {1}>>
MCCanRun == [w \in Worker |-> MCNode]
MCSymmetry == Permutations(Worker)

(* The liveness instance: the model node follows the workspace node, has a   *)
(* deadline, and may be reopened once.                                       *)
LiveNode == 1..2
LiveGraphOf == [n \in LiveNode |-> 1]
LiveDependsOn == <<{}, {1}>>
LiveFirstMax == <<2, 1>>
LiveTimeout == <<0, 2>>
LiveReopens == <<0, 1>>
LivePrice == <<2, 1>>
LiveCost == <<{NoUsage}, {3}>>
LiveCanRun == [w \in Worker |-> LiveNode]
=============================================================================
