------------------------------ MODULE JevDomain ------------------------------
(***************************************************************************)
(* The pure rules of src/src/jev-domain.js: when may a node run, what dies *)
(* when a node dies, and which status a graph has.  A node is a number:    *)
(* its position `order` in the planner's list, which also names its key.   *)
(* The planner's fields of a node are the parameters; the operators take   *)
(* the stored statuses as an argument.  This module has no state, so the   *)
(* parameters may also be instantiated with variables (JevReadiness).      *)
(***************************************************************************)
EXTENDS Naturals

CONSTANTS
    Node,       \* every node any plan may hold
    DependsOn,  \* DependsOn[n]: the nodes n depends on
    Settles,    \* the nodes whose dependsOnMode is "settled"
    Expands     \* the nodes whose payload declares expandsGraph

Terminal   == {"succeeded", "failed", "skipped", "cancelled", "timed_out"}
DOOMED     == Terminal \ {"succeeded"}
Unfinished == {"pending", "ready", "running"}
NodeStatus == Unfinished \cup Terminal

ActiveGraphStatus == {"pending", "running"}
GraphStatus == ActiveGraphStatus \cup {"succeeded", "failed", "cancelled"}

-----------------------------------------------------------------------------
(* assertGraphShape.  Keys are distinct by construction (a set), so what is *)
(* left to refuse is an empty graph, a self or dangling dependency, a cycle.*)

Acyclic(N) ==
    \A S \in SUBSET N : S # {} => \E n \in S : DependsOn[n] \cap S = {}

WellShaped(N) ==
    /\ N # {}
    /\ \A n \in N : DependsOn[n] \subseteq N \ {n}
    /\ Acyclic(N)

-----------------------------------------------------------------------------
(* applyReadiness: the fixpoint, in closed form.                            *)

\* The dependency statuses that doom n.
DoomsIt(n) == IF n \in Settles THEN {"cancelled", "skipped"} ELSE DOOMED

Open(st, N) == {n \in N : st[n] \in {"pending", "ready"}}

\* S is closed: it has every open node with a dooming dependency, where a
\* dependency in S counts as skipped.
DoomClosed(st, N, S) ==
    \A n \in Open(st, N) :
        (\E d \in DependsOn[n] : st[d] \in DoomsIt(n) \/ d \in S) => n \in S

\* The least closed set: the nodes the propagation skips.
SkipSet(st, N) ==
    {n \in Open(st, N) :
        \A S \in SUBSET Open(st, N) : DoomClosed(st, N, S) => n \in S}

\* Every dependency is where this node needs it.
Satisfied(st, n) ==
    \A d \in DependsOn[n] :
        IF n \in Settles THEN st[d] \in Terminal ELSE st[d] = "succeeded"

\* The statuses after applyReadiness ran over the nodes N of one graph.
Readiness(st, N) ==
    [n \in Node |->
        IF n \in SkipSet(st, N) THEN "skipped"
        ELSE IF n \in N /\ st[n] = "pending" /\ Satisfied(st, n) THEN "ready"
        ELSE st[n]]

\* The dependencies that may be recorded as skippedBecause: the code takes the
\* first dooming one of the list, whose order the set DependsOn[n] abstracts.
Causes(st, n) == {d \in DependsOn[n] : st[d] \in DoomsIt(n)}

-----------------------------------------------------------------------------
(* claimableNodes: READY is a cache, so the dependencies are asked again.   *)

Claimable(st, N) ==
    {n \in N : st[n] = "ready" /\ Satisfied(st, n) /\ Causes(st, n) = {}}

-----------------------------------------------------------------------------
(* deriveGraphStatus over the nodes N of a graph; att is the attempt count. *)

\* A succeeded node whose announced successors do not exist yet.
AwaitsExpansion(st, N, n) ==
    /\ n \in Expands
    /\ st[n] = "succeeded"
    /\ \A m \in N : n \notin DependsOn[m]

DeriveGraphStatus(st, att, N) ==
    LET started(n) == st[n] = "running" \/ st[n] \in Terminal \/ att[n] > 0
    IN  IF N = {} THEN "pending"
        ELSE IF \E n \in N : AwaitsExpansion(st, N, n) THEN "running"
        ELSE IF \A n \in N : st[n] = "succeeded" THEN "succeeded"
        ELSE IF \A n \in N : st[n] \in Terminal
             THEN IF \E n \in N : st[n] = "cancelled" THEN "cancelled" ELSE "failed"
        ELSE IF \E n \in N : started(n) THEN "running" ELSE "pending"
=============================================================================
