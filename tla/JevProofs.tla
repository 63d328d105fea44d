------------------------------ MODULE JevProofs ------------------------------
(***************************************************************************)
(* Theorems about the execution graphs of JevGraph, for every plan, number *)
(* of workers, retry ceiling, lease and deadline, and then about the       *)
(* executor of JevExecution that works through them, for every price, cost *)
(* and budget.                                                             *)
(***************************************************************************)
EXTENDS JevExecution, FiniteSetTheorems, TLAPS

-----------------------------------------------------------------------------
(* What applyReadiness and deriveGraphStatus return                         *)

\* A pass of applyReadiness only skips open nodes and only opens a pending node
\* whose dependencies are where it needs them.
LEMMA ReadinessEffect ==
    ASSUME NEW st \in [Node -> NodeStatus], NEW N \in SUBSET Node
    PROVE  /\ Readiness(st, N) \in [Node -> NodeStatus]
           /\ \A n \in Node :
                \/ Readiness(st, N)[n] = st[n]
                \/ /\ n \in N
                   /\ st[n] \in {"pending", "ready"}
                   /\ Readiness(st, N)[n] = "skipped"
                \/ /\ n \in N
                   /\ st[n] = "pending"
                   /\ Readiness(st, N)[n] = "ready"
                   /\ Satisfied(st, n)
<1>1. SkipSet(st, N) \subseteq {n \in N : st[n] \in {"pending", "ready"}}
  BY DEF SkipSet, Open
<1>2. ASSUME NEW n \in Node
      PROVE  /\ Readiness(st, N)[n] \in NodeStatus
             /\ \/ Readiness(st, N)[n] = st[n]
                \/ /\ n \in N
                   /\ st[n] \in {"pending", "ready"}
                   /\ Readiness(st, N)[n] = "skipped"
                \/ /\ n \in N
                   /\ st[n] = "pending"
                   /\ Readiness(st, N)[n] = "ready"
                   /\ Satisfied(st, n)
  BY <1>1 DEF Readiness, NodeStatus, Unfinished, Terminal
<1>3. Readiness(st, N) \in [Node -> NodeStatus]
  BY <1>2 DEF Readiness
<1> QED BY <1>2, <1>3

\* deriveGraphStatus returns a graph status.
LEMMA DeriveType ==
    ASSUME NEW st, NEW att, NEW N
    PROVE  DeriveGraphStatus(st, att, N) \in GraphStatus
BY DEF DeriveGraphStatus, GraphStatus, ActiveGraphStatus

\* Settling readiness keeps the statuses and causes typed.
LEMMA SettleType ==
    ASSUME NEW st \in [Node -> NodeStatus], NEW N \in SUBSET Node, NEW G,
           because \in [Node -> Node], SettleReadiness(st, N, G)
    PROVE  /\ status' = Readiness(st, {n \in N : GraphOf[n] \in G})
           /\ status' \in [Node -> NodeStatus]
           /\ because' \in [Node -> Node]
<1> DEFINE touched == {n \in N : GraphOf[n] \in G}
           casualties == {n \in Node : st[n] # "skipped" /\ status'[n] = "skipped"}
<1>1. status' = Readiness(st, touched)
  BY DEF SettleReadiness
<1>2. status' \in [Node -> NodeStatus]
  BY <1>1, ReadinessEffect
<1>3. PICK cause \in [casualties -> Node] :
         because' = [n \in Node |-> IF n \in casualties THEN cause[n]
                                    ELSE IF status'[n] = "skipped"
                                         THEN because[n] ELSE n]
  BY DEF SettleReadiness
<1>4. because' \in [Node -> Node]
  BY <1>3
<1> QED BY <1>1, <1>2, <1>4

\* refreshGraph keeps the graph rows typed.
LEMMA RefreshType ==
    ASSUME NEW G, RefreshGraph(G),
           graphStatus \in [Graph -> GraphStatus \cup {"absent"}]
    PROVE  graphStatus' \in [Graph -> GraphStatus \cup {"absent"}]
BY DeriveType DEF RefreshGraph

\* What the code's arithmetic needs of the constants.
LEMMA ConstantTypes ==
    /\ Node \subseteq Nat
    /\ GraphOf \in [Node -> Graph]
    /\ FirstMax \in [Node -> Nat \ {0}]
    /\ Timeout \in [Node -> Nat]
    /\ LeaseLength \in Nat \ {0}
    /\ 0 \in 0..LeaseLength
    /\ LeaseLength \in 0..LeaseLength
<1>1. /\ Node \subseteq Nat
      /\ GraphOf \in [Node -> Graph]
      /\ FirstMax \in [Node -> Nat \ {0}]
      /\ Timeout \in [Node -> Nat]
      /\ LeaseLength \in Nat \ {0}
  BY GraphAssumption DEF GraphAssumption
<1> QED BY <1>1

-----------------------------------------------------------------------------
(* Types                                                                    *)

\* Each operation keeps the rows typed.
LEMMA TypeStep == TypeOK /\ [Next]_vars => TypeOK'
<1> USE ConstantTypes
<1> SUFFICES ASSUME TypeOK, [Next]_vars PROVE TypeOK'
  OBVIOUS
<1> USE DEF TypeOK
<1>1. ASSUME NEW g \in Graph, NEW S \in SUBSET Node, nodes \cup S \subseteq Node, StoreNodes(g, S)
      PROVE  TypeOK'
  <2> DEFINE st == [n \in Node |-> IF n \in S THEN "pending" ELSE status[n]]
  <2>1. st \in [Node -> NodeStatus]
    BY DEF NodeStatus, Unfinished
  <2>2. nodes' \in SUBSET Node /\ SettleReadiness(st, nodes', {g}) /\ RefreshGraph({g})
    BY <1>1 DEF StoreNodes
  <2>3. status' \in [Node -> NodeStatus] /\ because' \in [Node -> Node]
    BY <2>1, <2>2, SettleType
  <2>4. graphStatus' \in [Graph -> GraphStatus \cup {"absent"}]
    BY <2>2, RefreshType
  <2> QED BY <1>1, <2>2, <2>3, <2>4 DEF StoreNodes
<1>2. ASSUME NEW g \in Graph, NEW S \in SUBSET Node, CreateTaskGraph(g, S)
      PROVE  TypeOK'
  BY <1>1, <1>2 DEF CreateTaskGraph
<1>3. ASSUME NEW g \in Graph, NEW S \in SUBSET Node, ExpandGraph(g, S)
      PROVE  TypeOK'
  BY <1>1, <1>3 DEF ExpandGraph
<1>4. ASSUME NEW w \in Worker, ClaimNextNode(w)
      PROVE  TypeOK'
  <2>1. PICK n \in Node :
          /\ status' = [status EXCEPT ![n] = "running"]
          /\ attempt' = [attempt EXCEPT ![n] = @ + 1]
          /\ lease' = [lease EXCEPT ![n] = attempt[n] + 1]
          /\ leaseLeft' = [leaseLeft EXCEPT ![n] = LeaseLength]
          /\ deadlineLeft' = [deadlineLeft EXCEPT ![n] =
                IF Timeout[n] > 0 /\ @ = NoDeadline THEN Timeout[n] ELSE @]
          /\ work' = [work EXCEPT ![w] = [node |-> n, lease |-> attempt[n] + 1]]
          /\ UNCHANGED <<nodes, maxAttempts, because, leaked, accepted>>
          /\ RefreshGraph({GraphOf[n]})
    BY <1>4 DEF ClaimNextNode, FreshLease, DeadlineAtClaim
  <2>2. graphStatus' \in [Graph -> GraphStatus \cup {"absent"}]
    BY <2>1, RefreshType
  <2>3. work' \in [Worker -> [node : Node, lease : Nat] \cup {NoWork}]
    BY <2>1
  <2>4. status' \in [Node -> NodeStatus]
    BY <2>1 DEF NodeStatus, Unfinished
  <2> QED BY <2>1, <2>2, <2>3, <2>4
<1>5. ASSUME NEW w \in Worker, RenewNodeLease(w)
      PROVE  TypeOK'
  <2>1. PICK c \in Timers(w) :
          /\ ClaimCurrent(c)
          /\ leaseLeft' = [leaseLeft EXCEPT ![c.node] = LeaseLength]
          /\ UNCHANGED <<nodes, status, attempt, maxAttempts, lease, deadlineLeft,
                         because, graphStatus, work, leaked, accepted>>
    BY <1>5 DEF RenewNodeLease
  <2> QED BY <2>1
<1>6. ASSUME NEW w \in Worker, LeaseCurrent(w)
      PROVE  work[w].node \in Node /\ work[w].lease \in Nat
  BY <1>6 DEF LeaseCurrent, ClaimCurrent, NoWork
<1>7. ASSUME NEW w \in Worker, CompleteNode(w)
      PROVE  TypeOK'
  <2> DEFINE n == work[w].node
             st == [status EXCEPT ![n] = "succeeded"]
  <2>1. n \in Node /\ work[w].lease \in Nat
    BY <1>6, <1>7 DEF CompleteNode
  <2>2. st \in [Node -> NodeStatus]
    BY <2>1 DEF NodeStatus, Terminal
  <2>3. SettleReadiness(st, nodes, {GraphOf[n]}) /\ RefreshGraph({GraphOf[n]}) /\ MayForget(w)
    BY <1>7 DEF CompleteNode
  <2>4. status' \in [Node -> NodeStatus] /\ because' \in [Node -> Node]
    BY <2>2, <2>3, SettleType
  <2>5. graphStatus' \in [Graph -> GraphStatus \cup {"absent"}]
    BY <2>3, RefreshType
  <2>6. /\ accepted' = accepted \cup {<<n, work[w].lease>>}
        /\ leaseLeft' = [leaseLeft EXCEPT ![n] = 0]
        /\ UNCHANGED <<nodes, attempt, maxAttempts, lease, deadlineLeft, leaked>>
        /\ work' \in {work, [work EXCEPT ![w] = NoWork]}
    BY <1>7 DEF CompleteNode, MayForget
  <2>7. accepted' \subseteq Node \X Nat
    BY <2>1, <2>6
  <2> QED BY <2>4, <2>5, <2>6, <2>7
<1>8. ASSUME NEW w \in Worker, NEW retryable \in BOOLEAN, FailNode(w, retryable)
      PROVE  TypeOK'
  <2> DEFINE n == work[w].node
             st == [status EXCEPT ![n] = "failed"]
  <2>1. n \in Node
    BY <1>6, <1>8 DEF FailNode
  <2>2. st \in [Node -> NodeStatus]
    BY <2>1 DEF NodeStatus, Terminal
  <2>3. /\ \/ status' = [status EXCEPT ![n] = "ready"] /\ UNCHANGED because
           \/ SettleReadiness(st, nodes, {GraphOf[n]})
        /\ RefreshGraph({GraphOf[n]})
        /\ MayForget(w)
    BY <1>8 DEF FailNode
  <2>4. status' \in [Node -> NodeStatus] /\ because' \in [Node -> Node]
    <3>1. CASE status' = [status EXCEPT ![n] = "ready"] /\ UNCHANGED because
      BY <2>1, <3>1 DEF NodeStatus, Unfinished
    <3>2. CASE SettleReadiness(st, nodes, {GraphOf[n]})
      BY <2>2, <3>2, SettleType
    <3> QED BY <2>3, <3>1, <3>2
  <2>5. graphStatus' \in [Graph -> GraphStatus \cup {"absent"}]
    BY <2>3, RefreshType
  <2> QED BY <1>8, <2>1, <2>3, <2>4, <2>5 DEF FailNode, MayForget
<1>9. ASSUME NEW w \in Worker, ReportRefused(w) \/ WorkerCrash(w) \/ ExecutorThrows(w)
      PROVE  TypeOK'
  <2>1. leaked' \subseteq Worker \X [node : Node, lease : Nat]
    BY <1>9 DEF ReportRefused, WorkerCrash, ExecutorThrows
  <2> QED BY <1>9, <2>1 DEF ReportRefused, WorkerCrash, ExecutorThrows, nodeVars
<1>10. ASSUME SweepStalledNodes
       PROVE  TypeOK'
  <2> DEFINE st == [n \in Node |-> SweepStatus(n)]
             touched == {GraphOf[n] : n \in Stalled}
  <2>1. st \in [Node -> NodeStatus]
    BY DEF SweepStatus, NodeStatus, Unfinished, Terminal
  <2>2. SettleReadiness(st, nodes, touched) /\ RefreshGraph(touched)
    BY <1>10 DEF SweepStalledNodes
  <2>3. status' \in [Node -> NodeStatus] /\ because' \in [Node -> Node]
    BY <2>1, <2>2, SettleType
  <2>4. graphStatus' \in [Graph -> GraphStatus \cup {"absent"}]
    BY <2>2, RefreshType
  <2> QED BY <1>10, <2>3, <2>4 DEF SweepStalledNodes
<1>11. ASSUME NEW n \in Node, ReopenNode(n)
       PROVE  TypeOK'
  <2> DEFINE revived == {m \in NodesOf(GraphOf[n], nodes) :
                            status[m] = "skipped" /\ because[m] = n}
             st == [m \in Node |-> IF m = n \/ m \in revived THEN "pending" ELSE status[m]]
  <2>1. st \in [Node -> NodeStatus]
    BY DEF NodeStatus, Unfinished
  <2>2. SettleReadiness(st, nodes, {GraphOf[n]}) /\ RefreshGraph({GraphOf[n]})
    BY <1>11 DEF ReopenNode, Reopenable
  <2>3. status' \in [Node -> NodeStatus] /\ because' \in [Node -> Node]
    BY <2>1, <2>2, SettleType
  <2>4. graphStatus' \in [Graph -> GraphStatus \cup {"absent"}]
    BY <2>2, RefreshType
  <2>5. /\ maxAttempts' = [maxAttempts EXCEPT ![n] = @ + 1]
        /\ lease' = [lease EXCEPT ![n] = 0]
        /\ leaseLeft' = [leaseLeft EXCEPT ![n] = 0]
        /\ UNCHANGED <<nodes, attempt, deadlineLeft, work, leaked, accepted>>
    BY <1>11 DEF ReopenNode, Reopenable
  <2>6. maxAttempts' \in [Node -> Nat]
    BY <2>5
  <2> QED BY <2>3, <2>4, <2>5, <2>6
<1>12. ASSUME NEW g \in Graph, CancelGraph(g)
       PROVE  TypeOK'
  <2>1. RefreshGraph({g})
    BY <1>12 DEF CancelGraph
  <2>2. graphStatus' \in [Graph -> GraphStatus \cup {"absent"}]
    BY <2>1, RefreshType
  <2> QED BY <1>12, <2>2 DEF CancelGraph, NodeStatus, Terminal
<1>13. ASSUME Tick
       PROVE  TypeOK'
  BY <1>13 DEF Tick, Countdown, NoDeadline
<1>14. CASE UNCHANGED vars
  BY <1>14 DEF vars, nodeVars
<1> QED
  BY <1>2, <1>3, <1>4, <1>5, <1>7, <1>8, <1>9, <1>10, <1>11, <1>12, <1>13, <1>14
     DEF Next, Planner, WorkerStep, Operator

\* Every operation of jev.js keeps the stored rows typed, for any plan.
THEOREM TypeCorrect == Spec => []TypeOK
<1>1. Init => TypeOK
  BY ConstantTypes DEF Init, TypeOK, NodeStatus, Unfinished, NoDeadline
<1> QED BY <1>1, TypeStep, PTL DEF Spec

-----------------------------------------------------------------------------
(* What a step does to one node                                             *)

\* Rows exist where the code expects them: a node not stored is as createTaskGraph
\* will write it, a graph not stored has no nodes, and no dependency dangles.
Stored ==
    /\ \A n \in Node \ nodes : status[n] = "pending"
    /\ \A g \in Graph : graphStatus[g] = "absent" => NodesOf(g, nodes) = {}
    /\ \A n \in nodes : DependsOn[n] \subseteq nodes

\* The moves of one node's status.
NodeStep(n) ==
    \/ status'[n] = status[n]
    \/ status[n] = "ready" /\ status'[n] = "running"
    \/ status[n] = "running" /\ status'[n] \in {"succeeded", "failed", "timed_out"}
    \/ /\ status[n] = "running"
       /\ status'[n] \in {"ready", "skipped"}
       /\ attempt[n] < maxAttempts[n]
    \/ status[n] \in {"pending", "ready"} /\ status'[n] = "skipped"
    \/ status[n] = "pending" /\ status'[n] = "ready"
    \/ /\ status[n] \in {"failed", "timed_out"}
       /\ status'[n] \in {"pending", "ready", "skipped"}
       /\ maxAttempts'[n] = maxAttempts[n] + 1
       /\ graphStatus[GraphOf[n]] # "cancelled"
    \/ /\ status[n] = "skipped"
       /\ status'[n] \in {"pending", "ready"}
       /\ graphStatus[GraphOf[n]] # "cancelled"
    \/ status[n] \in Unfinished /\ status'[n] = "cancelled"

\* Only a claim raises the attempt, and no step lowers the ceiling.
AttemptStep(n) ==
    /\ attempt'[n] = IF status[n] = "ready" /\ status'[n] = "running"
                     THEN attempt[n] + 1 ELSE attempt[n]
    /\ maxAttempts'[n] \in {maxAttempts[n], maxAttempts[n] + 1}

\* A node that became READY in a step has its dependencies where it needs them,
\* or it was RUNNING and is retried.
ReadyStep(n) ==
    status'[n] = "ready" /\ status[n] \notin {"ready", "running"} => Satisfied(status', n)

\* A graph or a node disappears in no step, a new node comes with its
\* dependencies, and a node changes only when it is stored.
StoreStep ==
    /\ nodes \subseteq nodes'
    /\ \A n \in nodes' : n \in nodes \/ DependsOn[n] \subseteq nodes'
    /\ \A n \in Node \ nodes' : status'[n] = status[n]
    /\ \A g \in Graph : graphStatus'[g] = "absent" =>
          graphStatus[g] = "absent" /\ NodesOf(g, nodes') = NodesOf(g, nodes)

StepEffect == StoreStep /\ \A n \in Node : NodeStep(n) /\ AttemptStep(n) /\ ReadyStep(n)

\* Settling readiness never disturbs what decides whether a node is satisfied.
LEMMA SettleStep ==
    ASSUME NEW st \in [Node -> NodeStatus], NEW N \in SUBSET Node, NEW G,
           DependsOn \in [Node -> SUBSET Node],
           SettleReadiness(st, N, G)
    PROVE  \A n \in Node :
              \/ status'[n] = st[n]
              \/ n \in N /\ GraphOf[n] \in G /\ st[n] \in {"pending", "ready"} /\ status'[n] = "skipped"
              \/ n \in N /\ GraphOf[n] \in G /\ st[n] = "pending" /\ status'[n] = "ready"
                 /\ Satisfied(status', n)
<1> DEFINE touched == {n \in N : GraphOf[n] \in G}
<1>1. status' = Readiness(st, touched)
  BY DEF SettleReadiness
<1>2. touched \in SUBSET Node
  OBVIOUS
<1> HIDE DEF touched
<1>3. \A n \in Node :
         \/ status'[n] = st[n]
         \/ n \in touched /\ st[n] \in {"pending", "ready"} /\ status'[n] = "skipped"
         \/ n \in touched /\ st[n] = "pending" /\ status'[n] = "ready" /\ Satisfied(st, n)
  BY <1>1, <1>2, ReadinessEffect
<1>4. ASSUME NEW n \in Node, Satisfied(st, n)
      PROVE  Satisfied(status', n)
  <2>1. ASSUME NEW d \in DependsOn[n]
        PROVE  IF n \in Settles THEN status'[d] \in Terminal ELSE status'[d] = "succeeded"
    <3>1. d \in Node
      OBVIOUS
    <3>2. IF n \in Settles THEN st[d] \in Terminal ELSE st[d] = "succeeded"
      BY <1>4 DEF Satisfied
    <3> QED BY <1>3, <3>1, <3>2 DEF Terminal
  <2> QED BY <2>1 DEF Satisfied
<1> QED BY <1>3, <1>4 DEF touched

\* refreshGraph never un-stores a graph, and stores the ones it is given.
LEMMA RefreshStep ==
    ASSUME NEW G, RefreshGraph(G)
    PROVE  \A g \in Graph : /\ graphStatus'[g] = "absent" => graphStatus[g] = "absent" /\ g \notin G
                            /\ g \notin G => graphStatus'[g] = graphStatus[g]
<1>1. \A g \in Graph : graphStatus'[g] =
         IF g \in G THEN DeriveGraphStatus(status', attempt', NodesOf(g, nodes'))
                    ELSE graphStatus[g]
  BY DEF RefreshGraph
<1>2. "absent" \notin GraphStatus
  BY DEF GraphStatus, ActiveGraphStatus
<1> QED BY <1>1, <1>2, DeriveType

\* Every operation of jev.js has the effect on each node that StepEffect lists:
\* which status may follow which, and what must hold when it does.
LEMMA StepHasEffect == TypeOK /\ Stored /\ [Next]_vars => StepEffect
<1> SUFFICES ASSUME TypeOK, Stored, [Next]_vars PROVE StepEffect
  OBVIOUS
<1> USE ConstantTypes
<1>0. DependsOn \in [Node -> SUBSET Node]
  BY GraphAssumption DEF GraphAssumption
<1>1. ASSUME NEW g \in Graph, NEW S \in SUBSET Node, StoreNodes(g, S),
             S \cap nodes = {}, S \subseteq NodesOf(g, Node), S # {},
             \A n \in S : DependsOn[n] \subseteq nodes \cup S
      PROVE  StepEffect
  <2> DEFINE st == [n \in Node |-> IF n \in S THEN "pending" ELSE status[n]]
  <2>1. st = status
    BY <1>1 DEF Stored, TypeOK
  <2>2. /\ nodes' = nodes \cup S
        /\ SettleReadiness(st, nodes', {g})
        /\ RefreshGraph({g})
        /\ UNCHANGED <<attempt, maxAttempts>>
    BY <1>1 DEF StoreNodes
  <2> HIDE DEF st
  <2>3. nodes' \in SUBSET Node /\ status \in [Node -> NodeStatus]
    BY <2>2 DEF TypeOK
  <2>4. \A n \in Node :
           \/ status'[n] = status[n]
           \/ n \in nodes' /\ status[n] \in {"pending", "ready"} /\ status'[n] = "skipped"
           \/ n \in nodes' /\ status[n] = "pending" /\ status'[n] = "ready" /\ Satisfied(status', n)
    BY <1>0, <2>1, <2>2, <2>3, SettleStep
  <2>5. \A n \in Node : NodeStep(n) /\ AttemptStep(n) /\ ReadyStep(n)
    BY <2>2, <2>4 DEF NodeStep, AttemptStep, ReadyStep, TypeOK
  <2>6. \A h \in Graph : graphStatus'[h] = "absent" =>
           graphStatus[h] = "absent" /\ NodesOf(h, nodes') = NodesOf(h, nodes)
    <3> SUFFICES ASSUME NEW h \in Graph, graphStatus'[h] = "absent"
                 PROVE  graphStatus[h] = "absent" /\ NodesOf(h, nodes') = NodesOf(h, nodes)
      OBVIOUS
    <3>1. graphStatus[h] = "absent" /\ h # g
      BY <2>2, RefreshStep
    <3> QED BY <1>1, <2>2, <3>1 DEF NodesOf
  <2>7. \A n \in nodes' : n \in nodes \/ DependsOn[n] \subseteq nodes'
    BY <1>1, <2>2
  <2> QED BY <2>2, <2>4, <2>5, <2>6, <2>7 DEF StepEffect, StoreStep
<1>2. ASSUME NEW g \in Graph, NEW S \in SUBSET Node, CreateTaskGraph(g, S)
      PROVE  StepEffect
  <2>1. NodesOf(g, nodes) = {} /\ S \subseteq NodesOf(g, Node) /\ WellShaped(S) /\ StoreNodes(g, S)
    BY <1>2 DEF CreateTaskGraph, Stored
  <2>2. S \cap nodes = {}
    BY <2>1 DEF NodesOf
  <2>3. S # {} /\ \A n \in S : DependsOn[n] \subseteq nodes \cup S
    BY <2>1 DEF WellShaped
  <2> QED BY <1>1, <2>1, <2>2, <2>3
<1>3. ASSUME NEW g \in Graph, NEW S \in SUBSET Node, ExpandGraph(g, S)
      PROVE  StepEffect
  <2>1. /\ S \subseteq NodesOf(g, Node) \ nodes
        /\ S # {}
        /\ WellShaped(NodesOf(g, nodes) \cup S)
        /\ StoreNodes(g, S)
    BY <1>3 DEF ExpandGraph
  <2>2. \A n \in S : DependsOn[n] \subseteq nodes \cup S
    BY <2>1 DEF NodesOf, WellShaped
  <2>3. S \subseteq NodesOf(g, Node) /\ S \cap nodes = {} /\ S # {} /\ StoreNodes(g, S)
    BY <2>1
  <2> QED BY <1>1, <2>2, <2>3
\* Every other action leaves the set of nodes alone.
<1>4. ASSUME UNCHANGED nodes,
             \A g \in Graph : graphStatus'[g] = "absent" => graphStatus[g] = "absent",
             \A n \in Node \ nodes : status'[n] = status[n]
      PROVE  StoreStep
  BY <1>4 DEF StoreStep
<1>5. ASSUME NEW w \in Worker, ClaimNextNode(w)
      PROVE  StepEffect
  <2>1. PICK n \in Node :
          /\ n \in nodes
          /\ status[n] = "ready"
          /\ status' = [status EXCEPT ![n] = "running"]
          /\ attempt' = [attempt EXCEPT ![n] = @ + 1]
          /\ UNCHANGED <<nodes, maxAttempts>>
          /\ RefreshGraph({GraphOf[n]})
    BY <1>5 DEF ClaimNextNode, FreshLease, DeadlineAtClaim, NextClaim, Claimable
  <2>2. StoreStep
    BY <1>4, <2>1, RefreshStep DEF TypeOK
  <2>3. \A m \in Node : NodeStep(m) /\ AttemptStep(m) /\ ReadyStep(m)
    BY <2>1 DEF NodeStep, AttemptStep, ReadyStep, TypeOK
  <2> QED BY <2>2, <2>3 DEF StepEffect
<1>6. ASSUME UNCHANGED <<nodes, status, attempt, maxAttempts, graphStatus>>
      PROVE  StepEffect
  <2>1. StoreStep
    BY <1>4, <1>6
  <2>2. \A m \in Node : NodeStep(m) /\ AttemptStep(m) /\ ReadyStep(m)
    BY <1>6 DEF NodeStep, AttemptStep, ReadyStep, TypeOK
  <2> QED BY <2>1, <2>2 DEF StepEffect
\* The actions that write some statuses st and then settle the touched graphs.
<1>7. ASSUME NEW st \in [Node -> NodeStatus], NEW G,
             SettleReadiness(st, nodes, G), RefreshGraph(G), UNCHANGED nodes,
             \A n \in Node \ nodes : st[n] = status[n]
      PROVE  /\ StoreStep
             /\ \A n \in Node :
                  \/ status'[n] = st[n]
                  \/ st[n] \in {"pending", "ready"} /\ status'[n] = "skipped"
                  \/ st[n] = "pending" /\ status'[n] = "ready" /\ Satisfied(status', n)
  <2>1. nodes \in SUBSET Node
    BY DEF TypeOK
  <2>2. \A n \in Node :
           \/ status'[n] = st[n]
           \/ n \in nodes /\ st[n] \in {"pending", "ready"} /\ status'[n] = "skipped"
           \/ n \in nodes /\ st[n] = "pending" /\ status'[n] = "ready" /\ Satisfied(status', n)
    BY <1>0, <1>7, <2>1, SettleStep
  <2>3. StoreStep
    BY <1>4, <1>7, <2>2, RefreshStep
  <2> QED BY <2>2, <2>3
<1>8. ASSUME NEW w \in Worker, LeaseCurrent(w)
      PROVE  work[w].node \in nodes /\ status[work[w].node] = "running"
  BY <1>8 DEF LeaseCurrent, ClaimCurrent, NoWork, TypeOK, Stored
<1>9. ASSUME NEW w \in Worker, CompleteNode(w)
      PROVE  StepEffect
  <2> DEFINE n == work[w].node
             st == [status EXCEPT ![n] = "succeeded"]
  <2>1. n \in nodes /\ status[n] = "running"
    BY <1>8, <1>9 DEF CompleteNode
  <2>2. /\ SettleReadiness(st, nodes, {GraphOf[n]})
        /\ RefreshGraph({GraphOf[n]})
        /\ UNCHANGED <<nodes, attempt, maxAttempts>>
    BY <1>9 DEF CompleteNode
  <2>3. st \in [Node -> NodeStatus] /\ \A m \in Node : st[m] = IF m = n THEN "succeeded" ELSE status[m]
    BY <2>1 DEF TypeOK, NodeStatus, Terminal
  <2> HIDE DEF st
  <2>4. StoreStep /\ \A m \in Node :
           \/ status'[m] = st[m]
           \/ st[m] \in {"pending", "ready"} /\ status'[m] = "skipped"
           \/ st[m] = "pending" /\ status'[m] = "ready" /\ Satisfied(status', m)
    BY <1>7, <2>1, <2>2, <2>3
  <2>5. \A m \in Node : NodeStep(m) /\ AttemptStep(m) /\ ReadyStep(m)
    BY <2>1, <2>2, <2>3, <2>4 DEF NodeStep, AttemptStep, ReadyStep, TypeOK
  <2> QED BY <2>4, <2>5 DEF StepEffect
<1>10. ASSUME NEW w \in Worker, NEW retryable \in BOOLEAN, FailNode(w, retryable)
       PROVE  StepEffect
  <2> DEFINE n == work[w].node
             st == [status EXCEPT ![n] = "failed"]
  <2>1. n \in nodes /\ status[n] = "running"
    BY <1>8, <1>10 DEF FailNode
  <2>2. /\ RefreshGraph({GraphOf[n]})
        /\ UNCHANGED <<nodes, attempt, maxAttempts>>
        /\ \/ attempt[n] < maxAttempts[n] /\ status' = [status EXCEPT ![n] = "ready"]
           \/ SettleReadiness(st, nodes, {GraphOf[n]})
    BY <1>10 DEF FailNode
  <2>3. CASE attempt[n] < maxAttempts[n] /\ status' = [status EXCEPT ![n] = "ready"]
    <3>1. StoreStep
      BY <1>4, <2>1, <2>2, <2>3, RefreshStep DEF TypeOK
    <3>2. \A m \in Node : NodeStep(m) /\ AttemptStep(m) /\ ReadyStep(m)
      BY <2>1, <2>2, <2>3 DEF NodeStep, AttemptStep, ReadyStep, TypeOK
    <3> QED BY <3>1, <3>2 DEF StepEffect
  <2>4. CASE SettleReadiness(st, nodes, {GraphOf[n]})
    <3>1. st \in [Node -> NodeStatus] /\ \A m \in Node : st[m] = IF m = n THEN "failed" ELSE status[m]
      BY <2>1 DEF TypeOK, NodeStatus, Terminal
    <3> HIDE DEF st
    <3>2. StoreStep /\ \A m \in Node :
             \/ status'[m] = st[m]
             \/ st[m] \in {"pending", "ready"} /\ status'[m] = "skipped"
             \/ st[m] = "pending" /\ status'[m] = "ready" /\ Satisfied(status', m)
      BY <1>7, <2>1, <2>2, <2>4, <3>1
    <3>3. \A m \in Node : NodeStep(m) /\ AttemptStep(m) /\ ReadyStep(m)
      BY <2>1, <2>2, <3>1, <3>2 DEF NodeStep, AttemptStep, ReadyStep, TypeOK
    <3> QED BY <3>2, <3>3 DEF StepEffect
  <2> QED BY <2>2, <2>3, <2>4
<1>11. ASSUME SweepStalledNodes
       PROVE  StepEffect
  <2> DEFINE st == [n \in Node |-> SweepStatus(n)]
             touched == {GraphOf[n] : n \in Stalled}
  <2>1. /\ SettleReadiness(st, nodes, touched)
        /\ RefreshGraph(touched)
        /\ UNCHANGED <<nodes, attempt, maxAttempts>>
    BY <1>11 DEF SweepStalledNodes
  <2>2. /\ st \in [Node -> NodeStatus]
        /\ \A m \in Node :
             \/ st[m] = status[m]
             \/ /\ m \in nodes
                /\ status[m] = "running"
                /\ \/ st[m] \in {"timed_out", "failed"}
                   \/ st[m] = "ready" /\ attempt[m] < maxAttempts[m]
    BY DEF TypeOK, SweepStatus, Stalled, NodeStatus, Terminal, Unfinished
  <2> HIDE DEF st, touched
  <2>3. StoreStep /\ \A m \in Node :
           \/ status'[m] = st[m]
           \/ st[m] \in {"pending", "ready"} /\ status'[m] = "skipped"
           \/ st[m] = "pending" /\ status'[m] = "ready" /\ Satisfied(status', m)
    BY <1>7, <2>1, <2>2
  <2> QED
    BY <2>1, <2>2, <2>3 DEF StepEffect, NodeStep, AttemptStep, ReadyStep, TypeOK
<1>12. ASSUME NEW n \in Node, ReopenNode(n)
       PROVE  StepEffect
  <2> DEFINE revived == {m \in NodesOf(GraphOf[n], nodes) :
                            status[m] = "skipped" /\ because[m] = n}
             st == [m \in Node |-> IF m = n \/ m \in revived THEN "pending" ELSE status[m]]
  <2>1. /\ n \in nodes
        /\ status[n] \in {"failed", "timed_out"}
        /\ graphStatus[GraphOf[n]] # "cancelled"
        /\ maxAttempts' = [maxAttempts EXCEPT ![n] = @ + 1]
        /\ UNCHANGED <<nodes, attempt>>
        /\ SettleReadiness(st, nodes, {GraphOf[n]})
        /\ RefreshGraph({GraphOf[n]})
    BY <1>12 DEF ReopenNode, Reopenable
  <2>2. /\ st \in [Node -> NodeStatus]
        /\ \A m \in Node :
             \/ st[m] = status[m] /\ m # n
             \/ st[m] = "pending" /\ m = n
             \/ /\ st[m] = "pending"
                /\ m # n
                /\ m \in nodes
                /\ status[m] = "skipped"
                /\ GraphOf[m] = GraphOf[n]
    BY DEF TypeOK, NodesOf, NodeStatus, Unfinished
  <2> HIDE DEF st
  <2>3. StoreStep /\ \A m \in Node :
           \/ status'[m] = st[m]
           \/ st[m] \in {"pending", "ready"} /\ status'[m] = "skipped"
           \/ st[m] = "pending" /\ status'[m] = "ready" /\ Satisfied(status', m)
    BY <1>7, <2>1, <2>2
  <2>4. \A m \in Node : AttemptStep(m)
    BY <2>1, <2>2, <2>3 DEF AttemptStep, TypeOK
  <2>5. \A m \in Node : NodeStep(m) /\ ReadyStep(m)
    BY <2>1, <2>2, <2>3 DEF NodeStep, ReadyStep, TypeOK
  <2> QED BY <2>3, <2>4, <2>5 DEF StepEffect
<1>13. ASSUME NEW g \in Graph, CancelGraph(g)
       PROVE  StepEffect
  <2>1. /\ RefreshGraph({g})
        /\ UNCHANGED <<nodes, attempt, maxAttempts>>
        /\ \A m \in Node : \/ status'[m] = status[m]
                           \/ m \in nodes /\ status[m] \in Unfinished /\ status'[m] = "cancelled"
    BY <1>13 DEF CancelGraph, NodesOf, TypeOK
  <2>2. StoreStep
    BY <1>4, <2>1, RefreshStep
  <2>3. \A m \in Node : NodeStep(m) /\ AttemptStep(m) /\ ReadyStep(m)
    BY <2>1 DEF NodeStep, AttemptStep, ReadyStep, TypeOK, Unfinished
  <2> QED BY <2>2, <2>3 DEF StepEffect
<1>14. ASSUME NEW w \in Worker, RenewNodeLease(w) \/ ReportRefused(w) \/ WorkerCrash(w)
              \/ ExecutorThrows(w)
       PROVE  StepEffect
  BY <1>6, <1>14 DEF RenewNodeLease, ReportRefused, WorkerCrash, ExecutorThrows, nodeVars
<1>15. CASE Tick
  BY <1>6, <1>15 DEF Tick
<1>16. CASE UNCHANGED vars
  BY <1>6, <1>16 DEF vars, nodeVars
<1> QED
  BY <1>2, <1>3, <1>5, <1>9, <1>10, <1>11, <1>12, <1>13, <1>14, <1>15, <1>16
     DEF Next, Planner, WorkerStep, Operator

-----------------------------------------------------------------------------
(* What holds in every state                                                *)

\* A row not stored yet is untouched, and a stored node has its dependencies stored.
LEMMA StoredStep == TypeOK /\ Stored /\ [Next]_vars => Stored'
<1> SUFFICES ASSUME TypeOK, Stored, [Next]_vars PROVE Stored'
  OBVIOUS
<1>1. StoreStep
  BY StepHasEffect DEF StepEffect
<1>2. \A n \in Node \ nodes' : status'[n] = "pending"
  BY <1>1 DEF StoreStep, Stored
<1>3. \A g \in Graph : graphStatus'[g] = "absent" => NodesOf(g, nodes') = {}
  BY <1>1 DEF StoreStep, Stored
<1>4. \A n \in nodes' : DependsOn[n] \subseteq nodes'
  BY <1>1 DEF StoreStep, Stored
<1> QED BY <1>2, <1>3, <1>4 DEF Stored

\* What Stored says of the rows holds in every state.
LEMMA StoredInvariant == Spec => []Stored
<1>1. Init => Stored
  BY DEF Init, Stored, NodesOf
<1> QED BY <1>1, StoredStep, TypeCorrect, PTL DEF Spec

\* A success and a cancellation are final, and any other settled node comes back
\* to life only in a graph that is not cancelled (reopenNode).
THEOREM SettledStaysSettled == Spec => SettledIsFinal
<1>1. TypeOK /\ Stored /\ [Next]_vars =>
        [\A n \in Node :
            status[n] \in Terminal /\ status'[n] # status[n] =>
              /\ status[n] \in {"failed", "timed_out", "skipped"}
              /\ status'[n] \in {"pending", "ready", "skipped"}
              /\ graphStatus[GraphOf[n]] # "cancelled"]_vars
  <2> SUFFICES ASSUME TypeOK, Stored, [Next]_vars, NEW n \in Node,
                      status[n] \in Terminal, status'[n] # status[n]
               PROVE  /\ status[n] \in {"failed", "timed_out", "skipped"}
                      /\ status'[n] \in {"pending", "ready", "skipped"}
                      /\ graphStatus[GraphOf[n]] # "cancelled"
    OBVIOUS
  <2>1. NodeStep(n)
    BY StepHasEffect DEF StepEffect
  <2> QED BY <2>1 DEF NodeStep, Terminal, Unfinished
<1> QED BY <1>1, TypeCorrect, StoredInvariant, PTL DEF Spec, SettledIsFinal

\* The ceiling and what makes it inductive: a casualty still has an attempt,
\* because reopenNode may bring it back to PENDING with the same ceiling.
CeilingInv ==
    /\ AttemptsWithinCeiling
    /\ \A n \in Node : status[n] = "skipped" => attempt[n] < maxAttempts[n]

\* No node is ever claimed more often than its ceiling allows, though the claim
\* itself does not look at the ceiling.
THEOREM CeilingHolds == Spec => []AttemptsWithinCeiling
<1>1. Init => CeilingInv
  BY ConstantTypes DEF Init, CeilingInv, AttemptsWithinCeiling
<1>2. TypeOK /\ Stored /\ CeilingInv /\ [Next]_vars => CeilingInv'
  <2> SUFFICES ASSUME TypeOK, Stored, CeilingInv, [Next]_vars, NEW n \in Node
               PROVE  /\ attempt'[n] <= maxAttempts'[n]
                      /\ status'[n] \in {"pending", "ready", "skipped"} =>
                           attempt'[n] < maxAttempts'[n]
    BY DEF CeilingInv, AttemptsWithinCeiling
  <2>1. NodeStep(n) /\ AttemptStep(n)
    BY StepHasEffect DEF StepEffect
  <2>2. attempt[n] \in Nat /\ maxAttempts[n] \in Nat /\ attempt[n] <= maxAttempts[n]
    BY DEF TypeOK, CeilingInv, AttemptsWithinCeiling
  <2>3. status[n] \in {"pending", "ready", "skipped"} => attempt[n] < maxAttempts[n]
    BY DEF CeilingInv, AttemptsWithinCeiling
  <2>4. CASE status[n] = "ready" /\ status'[n] = "running"
    BY <2>1, <2>2, <2>3, <2>4 DEF AttemptStep
  <2>5. CASE ~(status[n] = "ready" /\ status'[n] = "running")
    <3>1. attempt'[n] = attempt[n] /\ maxAttempts'[n] \in {maxAttempts[n], maxAttempts[n] + 1}
      BY <2>1, <2>5 DEF AttemptStep
    <3>2. status'[n] \in {"pending", "ready", "skipped"} =>
            \/ status[n] \in {"pending", "ready", "skipped"}
            \/ attempt[n] < maxAttempts[n]
            \/ maxAttempts'[n] = maxAttempts[n] + 1
      BY <2>1, <2>5 DEF NodeStep
    <3> QED BY <2>2, <2>3, <3>1, <3>2
  <2> QED BY <2>4, <2>5
<1>3. CeilingInv => AttemptsWithinCeiling
  BY DEF CeilingInv
<1> QED BY <1>1, <1>2, <1>3, TypeCorrect, StoredInvariant, PTL DEF Spec

\* Work never runs ahead of the work it depends on.
THEOREM DependenciesFirst == Spec => []RunsAfterDependencies
<1>1. Init => RunsAfterDependencies
  BY DEF Init, RunsAfterDependencies
<1>2. TypeOK /\ Stored /\ RunsAfterDependencies /\ [Next]_vars => RunsAfterDependencies'
  <2> SUFFICES ASSUME TypeOK, Stored, RunsAfterDependencies, [Next]_vars,
                      NEW n \in nodes' \ Settles, NEW d \in DependsOn[n],
                      status'[n] \in {"ready", "running", "succeeded"}
               PROVE  d \in nodes' /\ status'[d] = "succeeded"
    BY DEF RunsAfterDependencies
  <2>1. StoreStep /\ \A m \in Node : NodeStep(m) /\ ReadyStep(m)
    BY StepHasEffect DEF StepEffect
  <2>2. Stored' /\ TypeOK'
    BY TypeStep, StoredStep
  <2>3. n \in Node /\ d \in nodes' /\ d \in Node
    BY <2>2 DEF Stored, TypeOK
  <2>4. CASE status[n] \in {"ready", "running", "succeeded"}
    <3>1. n \in nodes
      BY <2>3, <2>4 DEF Stored
    <3>2. status[d] = "succeeded"
      BY <2>4, <3>1 DEF RunsAfterDependencies
    <3> QED BY <2>1, <2>3, <3>2 DEF NodeStep, Unfinished
  <2>5. CASE status[n] \notin {"ready", "running", "succeeded"}
    <3>1. status'[n] = "ready"
      BY <2>1, <2>3, <2>5 DEF NodeStep
    <3>2. Satisfied(status', n)
      BY <2>1, <2>3, <2>5, <3>1 DEF ReadyStep
    <3> QED BY <2>3, <3>2 DEF Satisfied
  <2> QED BY <2>4, <2>5
<1> QED BY <1>1, <1>2, TypeCorrect, StoredInvariant, PTL DEF Spec

-----------------------------------------------------------------------------
(* Results and claims                                                       *)

\* The only way into SUCCEEDED is an accepted completion, under the lease the
\* node runs under, and an accepted completion always leads there.
AcceptStep ==
    \/ /\ accepted' = accepted
       /\ \A m \in Node : status'[m] = "succeeded" => status[m] = "succeeded"
    \/ \E n \in Node :
         /\ status[n] = "running"
         /\ status'[n] = "succeeded"
         /\ accepted' = accepted \cup {<<n, lease[n]>>}
         /\ \A m \in Node \ {n} : status'[m] = "succeeded" => status[m] = "succeeded"

\* Only completeNode accepts a result: one, of a running node, under its lease.
LEMMA AcceptHasEffect == TypeOK /\ [Next]_vars => AcceptStep
<1> SUFFICES ASSUME TypeOK, [Next]_vars PROVE AcceptStep
  OBVIOUS
<1> USE ConstantTypes
<1>0. DependsOn \in [Node -> SUBSET Node] /\ nodes \in SUBSET Node
  BY GraphAssumption DEF GraphAssumption, TypeOK
\* Settling readiness makes no node succeed.
<1>1. ASSUME NEW st \in [Node -> NodeStatus], NEW N \in SUBSET Node, NEW G,
             SettleReadiness(st, N, G), NEW m \in Node, status'[m] = "succeeded"
      PROVE  st[m] = "succeeded"
  BY <1>0, <1>1, SettleStep
<1>a. ASSUME NEW st \in [Node -> NodeStatus], NEW N \in SUBSET Node, NEW G,
             SettleReadiness(st, N, G), NEW m \in Node, st[m] = "succeeded"
      PROVE  status'[m] = "succeeded"
  BY <1>0, <1>a, SettleStep
<1>2. ASSUME NEW g \in Graph, NEW S \in SUBSET Node, StoreNodes(g, S)
      PROVE  AcceptStep
  <2> DEFINE st == [n \in Node |-> IF n \in S THEN "pending" ELSE status[n]]
  <2>1. nodes' \in SUBSET Node /\ SettleReadiness(st, nodes', {g}) /\ accepted' = accepted
    BY <1>0, <1>2 DEF StoreNodes
  <2>2. st \in [Node -> NodeStatus] /\ \A m \in Node : st[m] \in {"pending", status[m]}
    BY DEF TypeOK, NodeStatus, Unfinished
  <2> HIDE DEF st
  <2>3. \A m \in Node : status'[m] = "succeeded" => status[m] = "succeeded"
    BY <1>1, <2>1, <2>2
  <2> QED BY <2>1, <2>3 DEF AcceptStep
<1>3. ASSUME NEW w \in Worker, CompleteNode(w)
      PROVE  AcceptStep
  <2> DEFINE n == work[w].node
             st == [status EXCEPT ![n] = "succeeded"]
  <2>1. n \in Node /\ status[n] = "running" /\ work[w].lease = lease[n]
    BY <1>3 DEF CompleteNode, LeaseCurrent, ClaimCurrent, NoWork, TypeOK
  <2>2. SettleReadiness(st, nodes, {GraphOf[n]}) /\ accepted' = accepted \cup {<<n, work[w].lease>>}
    BY <1>3 DEF CompleteNode
  <2>3. st \in [Node -> NodeStatus] /\ \A m \in Node : st[m] = IF m = n THEN "succeeded" ELSE status[m]
    BY <2>1 DEF TypeOK, NodeStatus, Terminal
  <2> HIDE DEF st
  <2>4. \A m \in Node : status'[m] = "succeeded" => st[m] = "succeeded"
    BY <1>0, <1>1, <2>2, <2>3
  <2>5. status'[n] = "succeeded"
    <3>1. st[n] = "succeeded"
      BY <2>1, <2>3
    <3> QED BY <1>0, <1>a, <2>1, <2>2, <2>3, <3>1
  <2> QED BY <2>1, <2>2, <2>3, <2>4, <2>5 DEF AcceptStep
<1>4. ASSUME NEW w \in Worker, NEW retryable \in BOOLEAN, FailNode(w, retryable)
      PROVE  AcceptStep
  <2> DEFINE n == work[w].node
             st == [status EXCEPT ![n] = "failed"]
  <2>1. /\ accepted' = accepted
        /\ \/ status' = [status EXCEPT ![n] = "ready"]
           \/ SettleReadiness(st, nodes, {GraphOf[n]})
    BY <1>4 DEF FailNode
  <2>2. CASE status' = [status EXCEPT ![n] = "ready"]
    BY <2>1, <2>2 DEF AcceptStep, TypeOK
  <2>3. CASE SettleReadiness(st, nodes, {GraphOf[n]})
    <3>1. st \in [Node -> NodeStatus] /\ \A m \in Node : st[m] \in {"failed", status[m]}
      BY DEF TypeOK, NodeStatus, Terminal
    <3> HIDE DEF st
    <3>2. \A m \in Node : status'[m] = "succeeded" => status[m] = "succeeded"
      BY <1>0, <1>1, <2>3, <3>1
    <3> QED BY <2>1, <3>2 DEF AcceptStep
  <2> QED BY <2>1, <2>2, <2>3
<1>5. ASSUME SweepStalledNodes
      PROVE  AcceptStep
  <2> DEFINE st == [n \in Node |-> SweepStatus(n)]
             touched == {GraphOf[n] : n \in Stalled}
  <2>1. SettleReadiness(st, nodes, touched) /\ accepted' = accepted
    BY <1>5 DEF SweepStalledNodes
  <2>2. st \in [Node -> NodeStatus] /\ \A m \in Node : st[m] = "succeeded" => status[m] = "succeeded"
    BY DEF TypeOK, SweepStatus, NodeStatus, Terminal, Unfinished
  <2> HIDE DEF st, touched
  <2>3. \A m \in Node : status'[m] = "succeeded" => status[m] = "succeeded"
    BY <1>0, <1>1, <2>1, <2>2
  <2> QED BY <2>1, <2>3 DEF AcceptStep
<1>6. ASSUME NEW n \in Node, ReopenNode(n)
      PROVE  AcceptStep
  <2> DEFINE revived == {m \in NodesOf(GraphOf[n], nodes) :
                            status[m] = "skipped" /\ because[m] = n}
             st == [m \in Node |-> IF m = n \/ m \in revived THEN "pending" ELSE status[m]]
  <2>1. SettleReadiness(st, nodes, {GraphOf[n]}) /\ accepted' = accepted
    BY <1>6 DEF ReopenNode, Reopenable
  <2>2. st \in [Node -> NodeStatus] /\ \A m \in Node : st[m] \in {"pending", status[m]}
    BY DEF TypeOK, NodeStatus, Unfinished
  <2> HIDE DEF st
  <2>3. \A m \in Node : status'[m] = "succeeded" => status[m] = "succeeded"
    BY <1>0, <1>1, <2>1, <2>2
  <2> QED BY <2>1, <2>3 DEF AcceptStep
<1>7. ASSUME NEW w \in Worker, ClaimNextNode(w)
      PROVE  AcceptStep
  BY <1>7 DEF ClaimNextNode, FreshLease, DeadlineAtClaim, AcceptStep, TypeOK
<1>8. ASSUME NEW g \in Graph, CancelGraph(g)
      PROVE  AcceptStep
  BY <1>8 DEF CancelGraph, AcceptStep, TypeOK
<1>9. ASSUME UNCHANGED <<status, accepted>>
      PROVE  AcceptStep
  BY <1>9 DEF AcceptStep
<1>10. ASSUME NEW w \in Worker, RenewNodeLease(w) \/ ReportRefused(w) \/ WorkerCrash(w)
              \/ ExecutorThrows(w)
       PROVE  AcceptStep
  BY <1>9, <1>10 DEF RenewNodeLease, ReportRefused, WorkerCrash, ExecutorThrows, nodeVars
<1>11. CASE Tick
  BY <1>9, <1>11 DEF Tick
<1>12. CASE UNCHANGED vars
  BY <1>9, <1>12 DEF vars, nodeVars
<1> QED
  BY <1>2, <1>3, <1>4, <1>5, <1>6, <1>7, <1>8, <1>10, <1>11, <1>12
     DEF Next, Planner, WorkerStep, Operator, CreateTaskGraph, ExpandGraph

\* A node's result is accepted at most once, whatever stale workers report.
THEOREM OneResultPerNode == Spec => []AtMostOneSuccess
<1>1. Init => AtMostOneSuccess
  BY DEF Init, AtMostOneSuccess
<1>2. TypeOK /\ Stored /\ AtMostOneSuccess /\ [Next]_vars => AtMostOneSuccess'
  <2> SUFFICES ASSUME TypeOK, Stored, AtMostOneSuccess, [Next]_vars
               PROVE  AtMostOneSuccess'
    OBVIOUS
  <2>1. \A m \in Node : status[m] = "succeeded" => status'[m] = "succeeded"
    BY StepHasEffect DEF StepEffect, NodeStep, Unfinished
  <2>2. AcceptStep
    BY AcceptHasEffect
  <2>3. CASE /\ accepted' = accepted
             /\ \A m \in Node : status'[m] = "succeeded" => status[m] = "succeeded"
    BY <2>1, <2>3 DEF AtMostOneSuccess
  <2>4. ASSUME NEW n \in Node,
               status[n] = "running",
               status'[n] = "succeeded",
               accepted' = accepted \cup {<<n, lease[n]>>},
               \A m \in Node \ {n} : status'[m] = "succeeded" => status[m] = "succeeded"
        PROVE  AtMostOneSuccess'
    <3>1. \A p \in accepted : p[1] # n
      BY <2>4 DEF AtMostOneSuccess
    <3>2. \A p, q \in accepted' : p[1] = q[1] => p = q
      BY <2>4, <3>1 DEF AtMostOneSuccess
    <3>3. \A m \in Node : status'[m] = "succeeded" <=> \E p \in accepted' : p[1] = m
      <4> TAKE m \in Node
      <4>1. CASE m = n
        <5>1. <<n, lease[n]>> \in accepted' /\ <<n, lease[n]>>[1] = n
          BY <2>4
        <5> QED BY <2>4, <4>1, <5>1
      <4>2. CASE m # n
        <5>1. status'[m] = "succeeded" <=> status[m] = "succeeded"
          BY <2>1, <2>4, <4>2
        <5>2. (\E p \in accepted' : p[1] = m) <=> \E p \in accepted : p[1] = m
          BY <2>4, <4>2
        <5> QED BY <5>1, <5>2 DEF AtMostOneSuccess
      <4> QED BY <4>1, <4>2
    <3> QED BY <3>2, <3>3 DEF AtMostOneSuccess
  <2> QED BY <2>2, <2>3, <2>4 DEF AcceptStep
<1> QED BY <1>1, <1>2, TypeCorrect, StoredInvariant, PTL DEF Spec

\* How a step moves the claims: a worker forgets its claim, keeps it, or takes a
\* node under an attempt no one has had; a running node keeps its lease.
ClaimStep ==
    /\ \A w \in Worker :
         \/ work'[w] \in {work[w], NoWork}
         \/ \E n \in Node :
              /\ work'[w] = [node |-> n, lease |-> attempt[n] + 1]
              /\ attempt'[n] = attempt[n] + 1
              /\ \A v \in Worker \ {w} : work'[v] = work[v]
    /\ \A n \in Node : status'[n] = "running" =>
         \/ status[n] = "running" /\ lease'[n] = lease[n] /\ attempt'[n] = attempt[n]
         \/ lease'[n] = attempt'[n]

\* Only claimNextNode hands out work: one claim, under an attempt number that is
\* fresh, and no other operation gives a running node a lease.
LEMMA ClaimHasEffect == TypeOK /\ [Next]_vars => ClaimStep
<1> SUFFICES ASSUME TypeOK, [Next]_vars PROVE ClaimStep
  OBVIOUS
<1> USE ConstantTypes
<1>0. DependsOn \in [Node -> SUBSET Node] /\ nodes \in SUBSET Node
  BY GraphAssumption DEF GraphAssumption, TypeOK
\* Settling readiness makes no node running.
<1>1. ASSUME NEW st \in [Node -> NodeStatus], NEW N \in SUBSET Node, NEW G,
             SettleReadiness(st, N, G), NEW m \in Node, status'[m] = "running"
      PROVE  st[m] = "running"
  BY <1>0, <1>1, SettleStep
<1>2. ASSUME NEW g \in Graph, NEW S \in SUBSET Node, StoreNodes(g, S)
      PROVE  ClaimStep
  <2> DEFINE st == [n \in Node |-> IF n \in S THEN "pending" ELSE status[n]]
  <2>1. nodes' \in SUBSET Node /\ SettleReadiness(st, nodes', {g}) /\ UNCHANGED <<work, attempt, lease>>
    BY <1>0, <1>2 DEF StoreNodes
  <2>2. st \in [Node -> NodeStatus] /\ \A m \in Node : st[m] \in {"pending", status[m]}
    BY DEF TypeOK, NodeStatus, Unfinished
  <2> HIDE DEF st
  <2>3. \A m \in Node : status'[m] = "running" => status[m] = "running"
    BY <1>1, <2>1, <2>2
  <2> QED BY <2>1, <2>3 DEF ClaimStep
<1>3. ASSUME NEW w \in Worker, ClaimNextNode(w)
      PROVE  ClaimStep
  <2>1. PICK n \in Node :
          /\ status' = [status EXCEPT ![n] = "running"]
          /\ attempt' = [attempt EXCEPT ![n] = @ + 1]
          /\ lease' = [lease EXCEPT ![n] = attempt[n] + 1]
          /\ work' = [work EXCEPT ![w] = [node |-> n, lease |-> attempt[n] + 1]]
    BY <1>3 DEF ClaimNextNode, FreshLease, DeadlineAtClaim
  <2>2. attempt'[n] = attempt[n] + 1 /\ lease'[n] = attempt[n] + 1
    BY <2>1 DEF TypeOK
  <2>3. \A m \in Node : status'[m] = "running" =>
          \/ status[m] = "running" /\ lease'[m] = lease[m] /\ attempt'[m] = attempt[m]
          \/ lease'[m] = attempt'[m]
    BY <2>1, <2>2 DEF TypeOK
  <2>4. \A v \in Worker : work'[v] = IF v = w THEN [node |-> n, lease |-> attempt[n] + 1] ELSE work[v]
    BY <2>1 DEF TypeOK
  <2> QED BY <2>2, <2>3, <2>4 DEF ClaimStep
<1>4. ASSUME NEW w \in Worker, CompleteNode(w)
      PROVE  ClaimStep
  <2> DEFINE n == work[w].node
             st == [status EXCEPT ![n] = "succeeded"]
  <2>1. /\ SettleReadiness(st, nodes, {GraphOf[n]})
        /\ UNCHANGED <<attempt, lease>>
        /\ work' \in {work, [work EXCEPT ![w] = NoWork]}
    BY <1>4 DEF CompleteNode, MayForget
  <2>2. st \in [Node -> NodeStatus] /\ \A m \in Node : st[m] \in {"succeeded", status[m]}
    BY DEF TypeOK, NodeStatus, Terminal
  <2> HIDE DEF st
  <2>3. \A m \in Node : status'[m] = "running" => status[m] = "running"
    BY <1>0, <1>1, <2>1, <2>2
  <2> QED BY <2>1, <2>3 DEF ClaimStep, TypeOK
<1>5. ASSUME NEW w \in Worker, NEW retryable \in BOOLEAN, FailNode(w, retryable)
      PROVE  ClaimStep
  <2> DEFINE n == work[w].node
             st == [status EXCEPT ![n] = "failed"]
  <2>1. /\ n \in Node
        /\ \/ status' = [status EXCEPT ![n] = "ready"]
           \/ SettleReadiness(st, nodes, {GraphOf[n]})
        /\ attempt' = attempt
        /\ lease' = [lease EXCEPT ![n] = 0]
        /\ work' \in {work, [work EXCEPT ![w] = NoWork]}
    BY <1>5 DEF FailNode, MayForget, LeaseCurrent, ClaimCurrent, NoWork, TypeOK
  <2>2. st \in [Node -> NodeStatus] /\ \A m \in Node : st[m] = IF m = n THEN "failed" ELSE status[m]
    BY <2>1 DEF TypeOK, NodeStatus, Terminal
  <2> HIDE DEF st
  <2>3. \A m \in Node : status'[m] = "running" => status[m] = "running" /\ m # n
    <3>1. CASE status' = [status EXCEPT ![n] = "ready"]
      BY <2>1, <3>1 DEF TypeOK
    <3>2. CASE SettleReadiness(st, nodes, {GraphOf[n]})
      BY <1>0, <1>1, <2>1, <2>2, <3>2
    <3> QED BY <2>1, <3>1, <3>2
  <2>4. \A m \in Node \ {n} : lease'[m] = lease[m]
    BY <2>1 DEF TypeOK
  <2>5. \A v \in Worker : work'[v] \in {work[v], NoWork}
    BY <2>1 DEF TypeOK
  <2> QED BY <2>1, <2>3, <2>4, <2>5 DEF ClaimStep
<1>6. ASSUME SweepStalledNodes
      PROVE  ClaimStep
  <2> DEFINE st == [n \in Node |-> SweepStatus(n)]
             touched == {GraphOf[n] : n \in Stalled}
  <2>1. /\ SettleReadiness(st, nodes, touched)
        /\ UNCHANGED <<work, attempt>>
        /\ lease' = [n \in Node |-> IF n \in Stalled THEN 0 ELSE lease[n]]
    BY <1>6 DEF SweepStalledNodes
  <2>2. st \in [Node -> NodeStatus] /\ \A m \in Node : st[m] = "running" => status[m] = "running" /\ m \notin Stalled
    BY DEF TypeOK, SweepStatus, NodeStatus, Terminal, Unfinished
  <2> HIDE DEF st, touched
  <2>3. \A m \in Node : status'[m] = "running" => status[m] = "running" /\ m \notin Stalled
    BY <1>0, <1>1, <2>1, <2>2
  <2> QED BY <2>1, <2>3 DEF ClaimStep
<1>7. ASSUME NEW n \in Node, ReopenNode(n)
      PROVE  ClaimStep
  <2> DEFINE revived == {m \in NodesOf(GraphOf[n], nodes) :
                            status[m] = "skipped" /\ because[m] = n}
             st == [m \in Node |-> IF m = n \/ m \in revived THEN "pending" ELSE status[m]]
  <2>1. /\ SettleReadiness(st, nodes, {GraphOf[n]})
        /\ UNCHANGED <<work, attempt>>
        /\ lease' = [lease EXCEPT ![n] = 0]
    BY <1>7 DEF ReopenNode, Reopenable
  <2>2. /\ st \in [Node -> NodeStatus]
        /\ \A m \in Node : st[m] = "running" => status[m] = "running" /\ m # n
    BY DEF TypeOK, NodeStatus, Unfinished
  <2> HIDE DEF st
  <2>3. \A m \in Node : status'[m] = "running" => status[m] = "running" /\ m # n
    BY <1>0, <1>1, <2>1, <2>2
  <2> QED BY <2>1, <2>3 DEF ClaimStep, TypeOK
<1>8. ASSUME NEW g \in Graph, CancelGraph(g)
      PROVE  ClaimStep
  BY <1>8 DEF CancelGraph, ClaimStep, TypeOK
<1>9. ASSUME UNCHANGED <<status, lease, attempt>>,
             \A w \in Worker : work'[w] \in {work[w], NoWork}
      PROVE  ClaimStep
  BY <1>9 DEF ClaimStep
<1>10. ASSUME NEW w \in Worker, RenewNodeLease(w) \/ ReportRefused(w) \/ WorkerCrash(w)
              \/ ExecutorThrows(w)
       PROVE  ClaimStep
  <2>1. UNCHANGED <<status, lease, attempt>> /\ work' \in {work, [work EXCEPT ![w] = NoWork]}
    BY <1>10 DEF RenewNodeLease, ReportRefused, WorkerCrash, ExecutorThrows, nodeVars
  <2> QED BY <1>9, <2>1 DEF TypeOK
<1>11. CASE Tick
  BY <1>9, <1>11 DEF Tick
<1>12. CASE UNCHANGED vars
  BY <1>9, <1>12 DEF vars, nodeVars
<1> QED
  BY <1>2, <1>3, <1>4, <1>5, <1>6, <1>7, <1>8, <1>10, <1>11, <1>12
     DEF Next, Planner, WorkerStep, Operator, CreateTaskGraph, ExpandGraph

\* Exactly one worker may report on a running node.
THEOREM OneOwnerHolds == Spec => []OneOwner
<1>1. Init => OneOwner
  BY DEF Init, OneOwner
<1>2. TypeOK /\ Stored /\ OneOwner /\ [Next]_vars => OneOwner'
  <2> SUFFICES ASSUME TypeOK, Stored, OneOwner, [Next]_vars PROVE OneOwner'
    OBVIOUS
  <2>1. ClaimStep
    BY ClaimHasEffect
  <2>2. \A n \in Node : attempt'[n] \in {attempt[n], attempt[n] + 1} /\ attempt[n] \in Nat
    BY StepHasEffect DEF StepEffect, AttemptStep, TypeOK
  <2>3. \A n \in Node : status'[n] = "running" => lease'[n] = attempt'[n]
    BY <2>1 DEF ClaimStep, OneOwner
  <2>4. \A w \in Worker : work[w] # NoWork =>
           work[w].node \in Node /\ work[w].lease \in 1..attempt[work[w].node]
    BY DEF TypeOK, OneOwner
  <2>5. ASSUME NEW w \in Worker, work'[w] # NoWork
        PROVE  work'[w].lease \in 1..attempt'[work'[w].node]
    <3>1. CASE work'[w] = work[w]
      BY <2>2, <2>4, <2>5, <3>1
    <3>2. ASSUME NEW n \in Node, work'[w] = [node |-> n, lease |-> attempt[n] + 1],
                 attempt'[n] = attempt[n] + 1
          PROVE  work'[w].lease \in 1..attempt'[work'[w].node]
      BY <2>2, <3>2
    <3> QED BY <2>1, <2>5, <3>1, <3>2 DEF ClaimStep
  <2>6. ASSUME NEW w \in Worker, NEW v \in Worker, v # w, work'[w] # NoWork
        PROVE  work'[v] # work'[w]
    <3>1. CASE work'[w] = work[w] /\ work'[v] = work[v]
      BY <2>6, <3>1 DEF OneOwner
    <3>2. CASE work'[v] = NoWork
      BY <2>6, <3>2
    <3>3. ASSUME NEW a \in Worker, NEW b \in Worker, a # b, NEW n \in Node,
                 work'[a] = [node |-> n, lease |-> attempt[n] + 1], work'[b] = work[b]
          PROVE  work'[a] # work'[b]
      <4>1. work[b] # NoWork => work[b].lease \in 1..attempt[work[b].node]
        BY <2>4
      <4>2. work[b] = [node |-> n, lease |-> attempt[n] + 1] => work[b] # NoWork
        BY ConstantTypes DEF NoWork
      <4> QED BY <2>2, <3>3, <4>1, <4>2
    <3> QED BY <2>1, <2>6, <3>1, <3>2, <3>3 DEF ClaimStep
  <2> QED BY <2>3, <2>5, <2>6 DEF OneOwner
<1> QED BY <1>1, <1>2, TypeCorrect, StoredInvariant, PTL DEF Spec
-----------------------------------------------------------------------------
(* No node hangs                                                            *)

\* The nodes the propagation skips are closed under it: a node with a dooming
\* dependency, or with one that is skipped, is skipped.
LEMMA SkipSetClosed ==
    ASSUME NEW st, NEW N
    PROVE  /\ SkipSet(st, N) \subseteq Open(st, N)
           /\ DoomClosed(st, N, SkipSet(st, N))
<1>1. SkipSet(st, N) \subseteq Open(st, N)
  BY DEF SkipSet
<1>2. ASSUME NEW n \in Open(st, N), NEW d \in DependsOn[n],
             st[d] \in DoomsIt(n) \/ d \in SkipSet(st, N)
      PROVE  n \in SkipSet(st, N)
  <2>1. ASSUME NEW S \in SUBSET Open(st, N), DoomClosed(st, N, S)
        PROVE  n \in S
    <3>1. d \in SkipSet(st, N) => d \in S
      BY <2>1 DEF SkipSet
    <3> QED BY <1>2, <2>1, <3>1 DEF DoomClosed
  <2> QED BY <2>1 DEF SkipSet
<1> QED BY <1>1, <1>2 DEF DoomClosed

\* They are the least such set.
LEMMA SkipSetLeast ==
    ASSUME NEW st, NEW N, NEW S \in SUBSET Open(st, N), DoomClosed(st, N, S)
    PROVE  SkipSet(st, N) \subseteq S
BY DEF SkipSet

\* After readiness is settled over N, no node of N waits behind a dead
\* dependency, and none is PENDING with nothing left to wait for.
LEMMA SettleLeavesNoneStranded ==
    ASSUME NEW st \in [Node -> NodeStatus], NEW N \in SUBSET Node,
           DependsOn \in [Node -> SUBSET Node], NEW n \in N
    PROVE  LET after == Readiness(st, N)
           IN  /\ after[n] = "pending" => ~Satisfied(after, n)
               /\ after[n] \in {"pending", "ready"} => Causes(after, n) = {}
<1> DEFINE after == Readiness(st, N)
<1>0. n \in Node /\ \A d \in DependsOn[n] : d \in Node
  OBVIOUS
<1>1. \A m \in Node : after[m] = IF m \in SkipSet(st, N) THEN "skipped"
                                 ELSE IF m \in N /\ st[m] = "pending" /\ Satisfied(st, m)
                                      THEN "ready" ELSE st[m]
  BY DEF Readiness
<1> HIDE DEF after
<1> SUFFICES ASSUME after[n] \in {"pending", "ready"}
             PROVE  /\ after[n] = "pending" => ~Satisfied(after, n)
                    /\ Causes(after, n) = {}
  BY DEF after
<1>2. n \notin SkipSet(st, N) /\ n \in Open(st, N)
  BY <1>0, <1>1 DEF Open
<1>3. \A d \in DependsOn[n] : st[d] \notin DoomsIt(n) /\ d \notin SkipSet(st, N)
  BY <1>2, SkipSetClosed DEF DoomClosed
<1>4. \A d \in DependsOn[n] : \/ after[d] = st[d]
                              \/ st[d] = "pending" /\ after[d] = "ready"
  BY <1>0, <1>1, <1>3
<1>5. Causes(after, n) = {}
  <2> SUFFICES ASSUME NEW d \in DependsOn[n], after[d] \in DoomsIt(n)
               PROVE  FALSE
    BY DEF Causes
  <2> QED BY <1>3, <1>4 DEF DoomsIt, DOOMED, Terminal
<1>6. ASSUME after[n] = "pending", Satisfied(after, n)
      PROVE  FALSE
  <2>1. st[n] = "pending" /\ ~Satisfied(st, n)
    BY <1>0, <1>1, <1>2, <1>6
  <2>2. \A d \in DependsOn[n] : after[d] = st[d]
    BY <1>4, <1>6 DEF Satisfied, Terminal
  <2> QED BY <1>6, <2>1, <2>2 DEF Satisfied
<1> QED BY <1>5, <1>6

-----------------------------------------------------------------------------
(* The five ways a step touches the nodes                                   *)

\* The step writes the statuses st, of nodes of the graphs G only, and settles
\* the readiness of those graphs.
Settling(st, G) ==
    /\ SettleReadiness(st, nodes', G) /\ RefreshGraph(G)
    /\ UNCHANGED attempt
    /\ nodes \subseteq nodes' /\ nodes' \subseteq Node
    /\ \A n \in nodes' \ nodes : GraphOf[n] \in G
    /\ \A n \in Node :
         /\ st[n] # status[n] => n \in nodes /\ GraphOf[n] \in G
         /\ st[n] = "running" => status[n] = "running"
         /\ st[n] = "skipped" => status[n] = "skipped"
         /\ st[n] = "cancelled" <=> status[n] = "cancelled"
         /\ status[n] = "succeeded" => st[n] = "succeeded"

\* Otherwise it moves one node and settles nothing, or cancels a graph.
Claiming(n) ==
    /\ n \in nodes /\ status[n] = "ready" /\ Satisfied(status, n) /\ Causes(status, n) = {}
    /\ status' = [status EXCEPT ![n] = "running"]
    /\ attempt' = [attempt EXCEPT ![n] = @ + 1]
    /\ UNCHANGED nodes /\ RefreshGraph({GraphOf[n]})

Retrying(n) ==
    /\ n \in nodes /\ status[n] = "running"
    /\ status' = [status EXCEPT ![n] = "ready"]
    /\ UNCHANGED <<nodes, attempt>> /\ RefreshGraph({GraphOf[n]})

Cancelling(g) ==
    /\ status' = [n \in Node |-> IF n \in NodesOf(g, nodes) /\ status[n] \in Unfinished
                                 THEN "cancelled" ELSE status[n]]
    /\ UNCHANGED <<nodes, attempt>> /\ RefreshGraph({g})

StepKind ==
    \/ UNCHANGED <<nodes, status, attempt, graphStatus>>
    \/ \E st \in [Node -> NodeStatus], G \in SUBSET Graph : Settling(st, G)
    \/ \E n \in Node : Claiming(n) \/ Retrying(n)
    \/ \E g \in Graph : Cancelling(g)

\* Every operation is of one of these kinds.
LEMMA StepHasKind == TypeOK /\ Stored /\ [Next]_vars => StepKind
<1> SUFFICES ASSUME TypeOK, Stored, [Next]_vars PROVE StepKind
  OBVIOUS
<1> USE ConstantTypes
<1>0. nodes \subseteq Node /\ status \in [Node -> NodeStatus] /\ attempt \in [Node -> Nat]
  BY DEF TypeOK
<1>1. ASSUME NEW g \in Graph, NEW S \in SUBSET Node, StoreNodes(g, S),
             S \cap nodes = {}, S \subseteq NodesOf(g, Node)
      PROVE  StepKind
  <2> DEFINE st == [n \in Node |-> IF n \in S THEN "pending" ELSE status[n]]
  <2>1. st = status
    BY <1>0, <1>1 DEF Stored
  <2>2. /\ nodes' = nodes \cup S /\ SettleReadiness(st, nodes', {g}) /\ RefreshGraph({g})
        /\ UNCHANGED attempt
    BY <1>1 DEF StoreNodes
  <2> HIDE DEF st
  <2>3. Settling(st, {g})
    BY <1>0, <1>1, <2>1, <2>2 DEF Settling, NodesOf
  <2>4. {g} \in SUBSET Graph /\ st \in [Node -> NodeStatus]
    BY <1>0, <2>1
  <2> QED BY <2>3, <2>4 DEF StepKind
<1>2. ASSUME NEW g \in Graph, NEW S \in SUBSET Node, CreateTaskGraph(g, S)
      PROVE  StepKind
  <2>1. NodesOf(g, nodes) = {} /\ S \subseteq NodesOf(g, Node) /\ StoreNodes(g, S)
    BY <1>2 DEF CreateTaskGraph, Stored
  <2>2. S \cap nodes = {}
    BY <2>1 DEF NodesOf
  <2> QED BY <1>1, <2>1, <2>2
<1>3. ASSUME NEW g \in Graph, NEW S \in SUBSET Node, ExpandGraph(g, S)
      PROVE  StepKind
  BY <1>1, <1>3 DEF ExpandGraph
<1>4. ASSUME NEW w \in Worker, ClaimNextNode(w)
      PROVE  StepKind
  <2>1. PICK n \in Node :
          /\ NextClaim(w, n)
          /\ status' = [status EXCEPT ![n] = "running"]
          /\ attempt' = [attempt EXCEPT ![n] = @ + 1]
          /\ UNCHANGED nodes
          /\ RefreshGraph({GraphOf[n]})
    BY <1>4 DEF ClaimNextNode
  <2>2. n \in nodes /\ status[n] = "ready" /\ Satisfied(status, n) /\ Causes(status, n) = {}
    BY <2>1 DEF NextClaim, Claimable
  <2> QED BY <2>1, <2>2 DEF StepKind, Claiming
<1>5. ASSUME NEW w \in Worker, LeaseCurrent(w)
      PROVE  work[w].node \in nodes /\ status[work[w].node] = "running"
  BY <1>5 DEF LeaseCurrent, ClaimCurrent, NoWork, TypeOK, Stored
\* A running node is settled.
<1>6. ASSUME NEW n \in nodes, status[n] = "running", NEW s \in {"succeeded", "failed"},
             SettleReadiness([status EXCEPT ![n] = s], nodes, {GraphOf[n]}),
             RefreshGraph({GraphOf[n]}), UNCHANGED <<nodes, attempt>>
      PROVE  StepKind
  <2> DEFINE st == [status EXCEPT ![n] = s]
  <2>1. st \in [Node -> NodeStatus] /\ \A m \in Node : st[m] = IF m = n THEN s ELSE status[m]
    BY <1>0 DEF NodeStatus, Terminal
  <2>2. SettleReadiness(st, nodes', {GraphOf[n]})
    BY <1>6
  <2> HIDE DEF st
  <2>3. Settling(st, {GraphOf[n]}) /\ {GraphOf[n]} \in SUBSET Graph
    BY <1>0, <1>6, <2>1, <2>2 DEF Settling
  <2> QED BY <2>1, <2>3 DEF StepKind
<1>7. ASSUME NEW w \in Worker, CompleteNode(w)
      PROVE  StepKind
  BY <1>5, <1>6, <1>7 DEF CompleteNode
<1>8. ASSUME NEW w \in Worker, NEW retryable \in BOOLEAN, FailNode(w, retryable)
      PROVE  StepKind
  <2> DEFINE n == work[w].node
  <2>1. n \in nodes /\ status[n] = "running"
    BY <1>5, <1>8 DEF FailNode
  <2>2. /\ RefreshGraph({GraphOf[n]}) /\ UNCHANGED <<nodes, attempt>>
        /\ \/ status' = [status EXCEPT ![n] = "ready"]
           \/ SettleReadiness([status EXCEPT ![n] = "failed"], nodes, {GraphOf[n]})
    BY <1>8 DEF FailNode
  <2> HIDE DEF n
  <2>3. CASE status' = [status EXCEPT ![n] = "ready"]
    BY <1>0, <2>1, <2>2, <2>3 DEF StepKind, Retrying
  <2>4. CASE SettleReadiness([status EXCEPT ![n] = "failed"], nodes, {GraphOf[n]})
    BY <1>6, <2>1, <2>2, <2>4
  <2> QED BY <2>2, <2>3, <2>4
<1>9. ASSUME SweepStalledNodes
      PROVE  StepKind
  <2> DEFINE st == [n \in Node |-> SweepStatus(n)]
             touched == {GraphOf[n] : n \in Stalled}
  <2>1. /\ SettleReadiness(st, nodes, touched) /\ RefreshGraph(touched)
        /\ UNCHANGED <<nodes, attempt>>
    BY <1>9 DEF SweepStalledNodes
  <2>2. /\ st \in [Node -> NodeStatus]
        /\ touched \subseteq Graph
        /\ \A n \in Node :
             \/ st[n] = status[n]
             \/ /\ n \in nodes /\ status[n] = "running" /\ GraphOf[n] \in touched
                /\ st[n] \in {"timed_out", "failed", "ready"}
    BY <1>0 DEF SweepStatus, Stalled, NodeStatus, Terminal, Unfinished
  <2> HIDE DEF st, touched
  <2>3. Settling(st, touched)
    BY <1>0, <2>1, <2>2 DEF Settling
  <2> QED BY <2>2, <2>3 DEF StepKind
<1>10. ASSUME NEW n \in Node, ReopenNode(n)
       PROVE  StepKind
  <2> DEFINE revived == {m \in NodesOf(GraphOf[n], nodes) :
                            status[m] = "skipped" /\ because[m] = n}
             st == [m \in Node |-> IF m = n \/ m \in revived THEN "pending" ELSE status[m]]
  <2>1. /\ n \in nodes /\ status[n] \in {"failed", "timed_out"}
        /\ SettleReadiness(st, nodes, {GraphOf[n]})
        /\ RefreshGraph({GraphOf[n]}) /\ UNCHANGED <<nodes, attempt>>
    BY <1>10 DEF ReopenNode, Reopenable
  <2>2. /\ st \in [Node -> NodeStatus]
        /\ \A m \in Node :
             \/ st[m] = status[m]
             \/ /\ m \in nodes /\ GraphOf[m] = GraphOf[n] /\ st[m] = "pending"
                /\ status[m] \in {"failed", "timed_out", "skipped"}
    BY <1>0, <2>1 DEF NodesOf, NodeStatus, Unfinished
  <2> HIDE DEF st
  <2>3. Settling(st, {GraphOf[n]}) /\ {GraphOf[n]} \in SUBSET Graph
    BY <1>0, <2>1, <2>2 DEF Settling
  <2> QED BY <2>2, <2>3 DEF StepKind
<1>11. ASSUME NEW g \in Graph, CancelGraph(g)
       PROVE  StepKind
  <2>1. Cancelling(g)
    BY <1>11 DEF CancelGraph, Cancelling, NodesOf
  <2> QED BY <2>1 DEF StepKind
<1>12. ASSUME NEW w \in Worker, RenewNodeLease(w) \/ ReportRefused(w) \/ WorkerCrash(w)
              \/ ExecutorThrows(w)
       PROVE  StepKind
  BY <1>12 DEF RenewNodeLease, ReportRefused, WorkerCrash, ExecutorThrows, nodeVars, StepKind
<1>13. CASE Tick \/ UNCHANGED vars
  BY <1>13 DEF Tick, vars, nodeVars, StepKind
<1> QED
  BY <1>2, <1>3, <1>4, <1>7, <1>8, <1>9, <1>10, <1>11, <1>12, <1>13
     DEF Next, Planner, WorkerStep, Operator

-----------------------------------------------------------------------------
(* What a started node knows of its dependencies                            *)

\* A plan is stored with its edges inside one graph.
LEMMA NewNodesShaped ==
    [Next]_vars => \A n \in nodes' : \/ n \in nodes
                                     \/ \A d \in DependsOn[n] : GraphOf[d] = GraphOf[n]
<1> SUFFICES ASSUME [Next]_vars
             PROVE  \A n \in nodes' : \/ n \in nodes
                                      \/ \A d \in DependsOn[n] : GraphOf[d] = GraphOf[n]
  OBVIOUS
<1>1. ASSUME NEW g \in Graph, NEW S \in SUBSET Node, CreateTaskGraph(g, S) \/ ExpandGraph(g, S)
      PROVE  \A n \in nodes' : \/ n \in nodes
                               \/ \A d \in DependsOn[n] : GraphOf[d] = GraphOf[n]
  <2>1. PICK N \in SUBSET NodesOf(g, Node \cup nodes) : S \subseteq N /\ WellShaped(N)
    BY <1>1 DEF CreateTaskGraph, ExpandGraph, NodesOf
  <2>2. nodes' = nodes \cup S
    BY <1>1 DEF CreateTaskGraph, ExpandGraph, StoreNodes
  <2> QED BY <2>1, <2>2 DEF WellShaped, NodesOf
<1>2. CASE UNCHANGED nodes
  BY <1>2
<1>3. CASE \E w \in Worker : WorkerStep(w)
  BY <1>2, <1>3 DEF WorkerStep, ClaimNextNode, RenewNodeLease, CompleteNode, FailNode,
                    ReportRefused, WorkerCrash, ExecutorThrows, nodeVars
<1>4. CASE SweepStalledNodes \/ Operator \/ Tick
  BY <1>2, <1>4 DEF SweepStalledNodes, Operator, ReopenNode, CancelGraph, Tick
<1> QED
  BY <1>1, <1>2, <1>3, <1>4 DEF Next, Planner, vars, nodeVars

\* Edges stay inside one graph; a node that has run was claimed, when its
\* dependencies had run, and for a node of the normal mode had succeeded.
EdgesInside == \A n \in nodes : \A d \in DependsOn[n] : GraphOf[d] = GraphOf[n]

RanWasClaimed ==
    /\ \A n \in Node \ nodes : attempt[n] = 0
    /\ \A n \in Node : status[n] \in {"running", "succeeded", "failed", "timed_out"} => attempt[n] > 0

DependenciesRan ==
    \A n \in nodes : attempt[n] > 0 =>
        \A d \in DependsOn[n] : attempt[d] > 0 /\ (n \notin Settles => status[d] = "succeeded")

Started == EdgesInside /\ RanWasClaimed /\ DependenciesRan

\* Every operation keeps it.
LEMMA StartedStep == TypeOK /\ Stored /\ Started /\ [Next]_vars => Started'
<1> SUFFICES ASSUME TypeOK, Stored, Started, [Next]_vars PROVE Started'
  OBVIOUS
<1>0. nodes' \subseteq Node /\ nodes \subseteq nodes' /\ nodes \subseteq Node
      /\ \A n \in nodes : DependsOn[n] \subseteq nodes
  BY TypeStep, StepHasEffect DEF TypeOK, StepEffect, StoreStep, Stored
<1>1. \A n \in Node : NodeStep(n) /\ AttemptStep(n) /\ attempt[n] \in Nat /\ attempt'[n] \in Nat
  BY StepHasEffect, TypeStep DEF StepEffect, TypeOK
<1>2. \A n \in Node : attempt'[n] >= attempt[n]
  BY <1>1 DEF AttemptStep
<1>3. \A n \in nodes' : \A d \in DependsOn[n] : GraphOf[d] = GraphOf[n]
  BY NewNodesShaped DEF Started, EdgesInside
<1>4. \A n \in Node \ nodes : attempt'[n] = 0
  BY <1>1 DEF AttemptStep, Started, RanWasClaimed, Stored
<1>5. ASSUME NEW n \in Node, status'[n] \in {"running", "succeeded", "failed", "timed_out"}
      PROVE  attempt'[n] > 0
  <2>1. CASE status[n] = "ready" /\ status'[n] = "running"
    BY <1>1, <2>1 DEF AttemptStep
  <2>2. CASE status[n] \in {"running", "succeeded", "failed", "timed_out"}
    BY <1>1, <1>2, <2>2 DEF Started, RanWasClaimed
  <2> QED BY <1>1, <1>5, <2>1, <2>2 DEF NodeStep
<1>6. ASSUME NEW n \in nodes', attempt'[n] > 0, NEW d \in DependsOn[n]
      PROVE  attempt'[d] > 0 /\ (n \notin Settles => status'[d] = "succeeded")
  <2>1. n \in Node /\ n \in nodes /\ d \in Node
    BY <1>0, <1>4, <1>6
  <2>2. attempt[d] > 0 /\ (n \notin Settles => status[d] = "succeeded")
    <3>1. CASE attempt[n] > 0
      BY <1>6, <2>1, <3>1 DEF Started, DependenciesRan
    <3>2. CASE ~(attempt[n] > 0)
      <4>1. status[n] = "ready" /\ status'[n] = "running"
        BY <1>1, <1>6, <2>1, <3>2 DEF AttemptStep
      <4>2. Claiming(n)
        <5>1. StepKind
          BY StepHasKind
        <5>2. ASSUME NEW m \in Node, Claiming(m)
              PROVE  m = n
          BY <2>1, <4>1, <5>2 DEF Claiming, TypeOK
        <5>3. ASSUME NEW st \in [Node -> NodeStatus], NEW G, Settling(st, G)
              PROVE  FALSE
          BY <1>6, <3>2, <5>3 DEF Settling
        <5>4. ASSUME NEW m \in Node, Retrying(m)
              PROVE  FALSE
          BY <1>6, <3>2, <5>4 DEF Retrying
        <5>5. ASSUME NEW g \in Graph, Cancelling(g)
              PROVE  FALSE
          BY <1>6, <3>2, <5>5 DEF Cancelling
        <5> QED BY <1>6, <3>2, <5>1, <5>2, <5>3, <5>4, <5>5 DEF StepKind
      <4>3. status[d] \notin DoomsIt(n)
            /\ IF n \in Settles THEN status[d] \in Terminal ELSE status[d] = "succeeded"
        BY <4>2 DEF Claiming, Satisfied, Causes
      <4>4. status[d] \in {"running", "succeeded", "failed", "timed_out"}
        BY <4>3 DEF DoomsIt, Terminal
      <4> QED BY <2>1, <4>3, <4>4 DEF Started, RanWasClaimed
    <3> QED BY <3>1, <3>2
  <2>3. attempt'[d] > 0
    BY <1>1, <1>2, <2>1, <2>2
  <2>4. status[d] = "succeeded" => status'[d] = "succeeded"
    BY <1>1, <2>1 DEF NodeStep, Unfinished
  <2> QED BY <2>2, <2>3, <2>4
<1>7. \A n \in Node \ nodes' : attempt'[n] = 0
  BY <1>0, <1>4
<1> QED BY <1>3, <1>5, <1>6, <1>7 DEF Started, EdgesInside, RanWasClaimed, DependenciesRan
-----------------------------------------------------------------------------
(* Nothing stranded                                                         *)

\* A node that has run is skipped only where a cancelled node may have doomed a
\* chain of settled-mode nodes.
StartedSkipped ==
    \A n \in nodes : attempt[n] > 0 /\ status[n] = "skipped" =>
        n \in Settles /\ CancelledIn(n)

\* The strengthening of NothingStranded: a running node too has a dead
\* dependency only where its graph was cut, as a retry makes it READY again
\* without settling readiness.
NoneStranded ==
    \A n \in nodes :
        /\ status[n] = "pending" => ~Satisfied(status, n) /\ Causes(status, n) = {}
        /\ status[n] \in Unfinished /\ Causes(status, n) # {} =>
              n \in Settles /\ CancelledIn(n)

\* A cancellation stays, whatever is settled afterwards.
LEMMA SettlingEffect ==
    ASSUME TypeOK, NEW st \in [Node -> NodeStatus], NEW G, Settling(st, G)
    PROVE  LET touched == {n \in nodes' : GraphOf[n] \in G}
           IN  /\ status' = Readiness(st, touched)
               /\ \A n \in Node :
                    \/ status'[n] = st[n]
                    \/ /\ n \in nodes'
                       /\ GraphOf[n] \in G
                       /\ st[n] \in {"pending", "ready"}
                       /\ status'[n] = "skipped"
                    \/ /\ n \in nodes'
                       /\ GraphOf[n] \in G
                       /\ st[n] = "pending"
                       /\ status'[n] = "ready"
<1>1. DependsOn \in [Node -> SUBSET Node]
  BY GraphAssumption DEF GraphAssumption
<1>2. nodes' \in SUBSET Node /\ SettleReadiness(st, nodes', G)
  BY DEF Settling
<1>3. status' = Readiness(st, {n \in nodes' : GraphOf[n] \in G})
  BY <1>2 DEF SettleReadiness
<1>4. \A n \in Node :
         \/ status'[n] = st[n]
         \/ n \in nodes' /\ GraphOf[n] \in G /\ st[n] \in {"pending", "ready"} /\ status'[n] = "skipped"
         \/ n \in nodes' /\ GraphOf[n] \in G /\ st[n] = "pending" /\ status'[n] = "ready"
  BY <1>1, <1>2, SettleStep
<1> QED BY <1>3, <1>4

\* Only a cancellation makes a started node a casualty.
LEMMA StartedSkippedStep ==
    TypeOK /\ Stored /\ Started /\ StartedSkipped /\ [Next]_vars => StartedSkipped'
<1> SUFFICES ASSUME TypeOK, Stored, Started, StartedSkipped, [Next]_vars,
                    NEW n \in nodes', attempt'[n] > 0, status'[n] = "skipped"
             PROVE  n \in Settles /\ CancelledIn(n)'
  BY DEF StartedSkipped
<1>0. nodes' \subseteq Node /\ nodes \subseteq nodes' /\ nodes \subseteq Node /\ n \in Node
      /\ DependsOn \in [Node -> SUBSET Node]
      /\ \A m \in nodes : DependsOn[m] \subseteq nodes
  BY TypeStep, StepHasEffect, GraphAssumption
     DEF TypeOK, StepEffect, StoreStep, Stored, GraphAssumption
\* A cancelled node stays cancelled, so the old evidence still stands.
<1>1. CancelledIn(n) => CancelledIn(n)'
  <2>1. \A m \in Node : status[m] = "cancelled" => status'[m] = "cancelled"
    BY StepHasEffect DEF StepEffect, NodeStep, Unfinished
  <2> QED BY <1>0, <2>1 DEF CancelledIn
<1>2. ASSUME n \in nodes, attempt[n] > 0, status[n] = "skipped"
      PROVE  n \in Settles /\ CancelledIn(n)'
  BY <1>1, <1>2 DEF StartedSkipped
<1>3. StepKind
  BY StepHasKind
<1>4. CASE UNCHANGED <<nodes, status, attempt, graphStatus>>
  BY <1>2, <1>4
<1>5. ASSUME NEW m \in Node, Claiming(m) \/ Retrying(m)
      PROVE  n \in Settles /\ CancelledIn(n)'
  <2>1. status[n] = "skipped" /\ m # n /\ n \in nodes /\ attempt'[n] = attempt[n]
    BY <1>0, <1>5 DEF Claiming, Retrying, TypeOK
  <2> QED BY <1>2, <2>1
<1>6. ASSUME NEW g \in Graph, Cancelling(g)
      PROVE  n \in Settles /\ CancelledIn(n)'
  <2>1. status[n] = "skipped" /\ n \in nodes /\ attempt'[n] = attempt[n]
    BY <1>0, <1>6 DEF Cancelling
  <2> QED BY <1>2, <2>1
<1>7. ASSUME NEW st \in [Node -> NodeStatus], NEW G \in SUBSET Graph, Settling(st, G)
      PROVE  n \in Settles /\ CancelledIn(n)'
  <2> DEFINE touched == {m \in nodes' : GraphOf[m] \in G}
             spared == {m \in nodes : attempt[m] > 0 /\ (m \notin Settles \/ ~CancelledIn(m))}
             skips == SkipSet(st, touched)
  <2>1. /\ attempt' = attempt
        /\ \A m \in Node : /\ st[m] = "skipped" => status[m] = "skipped"
                           /\ st[m] = "cancelled" => status[m] = "cancelled"
                           /\ status[m] = "succeeded" => st[m] = "succeeded"
    BY <1>7 DEF Settling
  <2>2. status' = Readiness(st, touched)
    BY <1>7, SettlingEffect
  <2>3. n \in nodes /\ attempt[n] > 0
    BY <1>0, <2>1 DEF Started, RanWasClaimed
  <2>4. \A m \in spared : \A d \in DependsOn[m] :
            \/ st[d] = "succeeded"
            \/ m \in Settles /\ d \in spared /\ st[d] \notin {"cancelled", "skipped"}
    <3> TAKE m \in spared
    <3> TAKE d \in DependsOn[m]
    <3>1. d \in nodes /\ GraphOf[d] = GraphOf[m] /\ attempt[d] > 0
          /\ (m \notin Settles => status[d] = "succeeded")
      BY <1>0 DEF Started, EdgesInside, DependenciesRan, spared
    <3>2. CASE m \notin Settles
      BY <1>0, <2>1, <3>1, <3>2
    <3>3. CASE m \in Settles
      <4>1. ~CancelledIn(m) /\ ~CancelledIn(d)
        BY <3>1, <3>3 DEF CancelledIn
      <4>2. status[d] # "cancelled"
        BY <3>1, <4>1 DEF CancelledIn
      <4>3. status[d] # "skipped"
        BY <3>1, <4>1 DEF StartedSkipped
      <4> QED BY <1>0, <2>1, <3>1, <3>3, <4>1, <4>2, <4>3
    <3> QED BY <3>2, <3>3
  <2>5. skips \subseteq Open(st, touched) /\ DoomClosed(st, touched, skips)
    BY SkipSetClosed
  <2> HIDE DEF skips, spared, touched
  <2>6. DoomClosed(st, touched, skips \ spared)
    <3> SUFFICES ASSUME NEW m \in Open(st, touched), NEW d \in DependsOn[m],
                        st[d] \in DoomsIt(m) \/ d \in skips \ spared
                 PROVE  m \in skips \ spared
      BY DEF DoomClosed
    <3>1. m \in skips
      BY <2>5 DEF DoomClosed
    <3>2. m \notin spared
      <4> SUFFICES ASSUME m \in spared PROVE FALSE
        OBVIOUS
      <4>1. d \in skips => st[d] \in {"pending", "ready"}
        BY <2>5 DEF Open
      <4> QED BY <2>4, <4>1 DEF DoomsIt, DOOMED, Terminal
    <3> QED BY <3>1, <3>2
  <2>7. skips \subseteq skips \ spared
    BY <2>5, <2>6, SkipSetLeast DEF skips
  <2>8. CASE n \in skips
    <3>1. n \notin spared
      BY <2>7, <2>8
    <3>2. n \in Settles /\ CancelledIn(n)
      BY <2>3, <3>1 DEF spared
    <3> QED BY <1>1, <3>2
  <2>9. CASE n \notin skips
    <3>1. st[n] = "skipped"
      BY <1>0, <2>2, <2>9 DEF Readiness, skips
    <3> QED BY <1>0, <1>2, <2>1, <2>3, <3>1
  <2> QED BY <2>8, <2>9
<1> QED BY <1>3, <1>4, <1>5, <1>6, <1>7 DEF StepKind
\* Nothing a cancellation has cut is ever uncut.
LEMMA CutsStay ==
    ASSUME TypeOK, Stored, [Next]_vars, NEW n, CancelledIn(n)
    PROVE  CancelledIn(n)'
<1>1. nodes \subseteq nodes' /\ nodes \subseteq Node
  BY StepHasEffect DEF TypeOK, StepEffect, StoreStep
<1>2. \A m \in Node : status[m] = "cancelled" => status'[m] = "cancelled"
  BY StepHasEffect DEF StepEffect, NodeStep, Unfinished
<1> QED BY <1>1, <1>2 DEF CancelledIn

\* What NoneStranded says of one node.
Unstranded(n) ==
    /\ status[n] = "pending" => ~Satisfied(status, n) /\ Causes(status, n) = {}
    /\ status[n] \in Unfinished /\ Causes(status, n) # {} =>
          n \in Settles /\ CancelledIn(n)

\* The dependencies of an untouched node are untouched, so it waits as before.
LEMMA WaitsAsBefore ==
    ASSUME TypeOK, Stored, NoneStranded, [Next]_vars, NEW n \in nodes,
           status'[n] = status[n], \A d \in DependsOn[n] : status'[d] = status[d]
    PROVE  Unstranded(n)'
<1>1. CancelledIn(n) => CancelledIn(n)'
  BY CutsStay
<1>2. Causes(status', n) = Causes(status, n) /\ (Satisfied(status', n) => Satisfied(status, n))
  BY DEF Satisfied, Causes
<1> QED BY <1>1, <1>2 DEF NoneStranded, Unstranded

\* Every operation leaves no stored node stranded.
LEMMA NoneStrandedStep ==
    TypeOK /\ Stored /\ Started /\ StartedSkipped /\ NoneStranded /\ [Next]_vars
    => NoneStranded'
<1> SUFFICES ASSUME TypeOK, Stored, Started, StartedSkipped, NoneStranded, [Next]_vars,
                    NEW n \in nodes'
             PROVE  Unstranded(n)'
  BY DEF NoneStranded, Unstranded
<1>0. /\ nodes' \in SUBSET Node /\ nodes \subseteq nodes' /\ n \in Node
      /\ DependsOn \in [Node -> SUBSET Node]
      /\ \A d \in DependsOn[n] : d \in Node /\ d \in nodes'
      /\ \A m \in Node \ nodes : status[m] = "pending"
      /\ GraphOf \in [Node -> Graph]
  BY TypeStep, StoredStep, StepHasEffect, GraphAssumption
     DEF TypeOK, StepEffect, StoreStep, Stored, GraphAssumption
<1>1. Started' /\ StartedSkipped'
  BY StartedStep, StartedSkippedStep
<1>2. \A d \in DependsOn[n] : GraphOf[d] = GraphOf[n]
  BY <1>1 DEF Started, EdgesInside
<1>3. StepKind
  BY StepHasKind
<1>4. CASE UNCHANGED <<nodes, status, attempt, graphStatus>>
  BY <1>4, WaitsAsBefore
<1>5. ASSUME NEW st \in [Node -> NodeStatus], NEW G \in SUBSET Graph, Settling(st, G)
      PROVE  Unstranded(n)'
  <2> DEFINE touched == {m \in nodes' : GraphOf[m] \in G}
  <2>1. /\ status' = Readiness(st, touched)
        /\ \A m \in Node : \/ status'[m] = st[m]
                           \/ GraphOf[m] \in G /\ st[m] # "cancelled" /\ status'[m] \in {"skipped", "ready"}
    BY <1>5, SettlingEffect
  <2>2. CASE GraphOf[n] \notin G
    <3>1. n \in nodes
      BY <1>5, <2>2 DEF Settling
    <3>2. \A m \in Node : GraphOf[m] \notin G => status'[m] = status[m]
      BY <1>5, <2>1 DEF Settling
    <3> QED BY <1>0, <1>2, <2>2, <3>1, <3>2, WaitsAsBefore
  <2>3. CASE GraphOf[n] \in G /\ status'[n] # "running"
    <3>1. n \in touched /\ touched \in SUBSET Node
      BY <1>0, <2>3
    <3> HIDE DEF touched
    <3>2. /\ status'[n] = "pending" => ~Satisfied(status', n)
          /\ status'[n] \in {"pending", "ready"} => Causes(status', n) = {}
      BY <1>0, <2>1, <3>1, SettleLeavesNoneStranded
    <3> QED BY <2>3, <3>2 DEF Unfinished, Unstranded
  \* A running node has a dead dependency only if that was cut, or was a settled
  \* node that has run and was skipped behind a cut one.
  <2>4. CASE status'[n] = "running"
    <3> SUFFICES ASSUME NEW d \in DependsOn[n], status'[d] \in DoomsIt(n)
                 PROVE  n \in Settles /\ CancelledIn(n)'
      BY <2>4 DEF Causes, Unstranded
    <3>1. attempt'[n] > 0
      BY <1>0, <1>1, <2>4 DEF Started, RanWasClaimed
    <3>2. attempt'[d] > 0 /\ (n \notin Settles => status'[d] = "succeeded")
      BY <1>1, <3>1 DEF Started, DependenciesRan
    <3>3. n \in Settles /\ status'[d] \in {"cancelled", "skipped"}
      BY <3>2 DEF DoomsIt, DOOMED, Terminal
    <3>4. status'[d] = "skipped" => CancelledIn(d)'
      BY <1>0, <1>1, <3>2 DEF StartedSkipped
    <3> QED BY <1>0, <1>2, <3>3, <3>4 DEF CancelledIn
  <2> QED BY <2>2, <2>3, <2>4
<1>6. ASSUME NEW m \in Node, Claiming(m) \/ Retrying(m)
      PROVE  Unstranded(n)'
  <2>1. /\ n \in nodes /\ m \in nodes
        /\ status[m] \in {"ready", "running"} /\ status'[m] \in {"ready", "running"}
        /\ \A k \in Node \ {m} : status'[k] = status[k]
    BY <1>0, <1>6 DEF Claiming, Retrying, TypeOK
  <2>2. Causes(status', n) \subseteq Causes(status, n)
    BY <1>0, <2>1 DEF Causes, DoomsIt, DOOMED, Terminal
  <2>3. Satisfied(status', n) => Satisfied(status, n)
    BY <1>0, <2>1 DEF Satisfied, Terminal
  <2>4. status'[n] \in Unfinished => status[n] \in Unfinished
    BY <1>0, <2>1 DEF Unfinished
  <2>5. status'[n] = "pending" => status[n] = "pending"
    BY <1>0, <2>1
  <2>6. CancelledIn(n) => CancelledIn(n)'
    BY CutsStay
  <2> QED BY <2>1, <2>2, <2>3, <2>4, <2>5, <2>6 DEF NoneStranded, Unstranded
<1>7. ASSUME NEW g \in Graph, Cancelling(g)
      PROVE  Unstranded(n)'
  <2>1. /\ UNCHANGED nodes
        /\ \A k \in Node : status'[k] = IF k \in NodesOf(g, nodes) /\ status[k] \in Unfinished
                                         THEN "cancelled" ELSE status[k]
    BY <1>7 DEF Cancelling
  <2>2. CASE GraphOf[n] = g
    <3>1. status'[n] \notin Unfinished
      BY <1>0, <2>1, <2>2 DEF NodesOf, Unfinished
    <3> QED BY <3>1 DEF Unstranded, Unfinished
  <2>3. CASE GraphOf[n] # g
    <3>1. \A k \in Node : GraphOf[k] # g => status'[k] = status[k]
      BY <2>1 DEF NodesOf
    <3> QED BY <1>0, <1>2, <2>1, <2>3, <3>1, WaitsAsBefore
  <2> QED BY <2>2, <2>3
<1> QED BY <1>3, <1>4, <1>5, <1>6, <1>7 DEF StepKind

\* No node hangs, in any plan, whatever is claimed, lost, retried, reopened,
\* expanded or cancelled.
THEOREM NoNodeHangs == Spec => []NothingStranded
<1> DEFINE Inv == Started /\ StartedSkipped /\ NoneStranded
<1>1. Init => Inv
  BY DEF Init, Started, EdgesInside, RanWasClaimed, DependenciesRan, StartedSkipped,
         NoneStranded
<1>2. TypeOK /\ Stored /\ Inv /\ [Next]_vars => Inv'
  BY StartedStep, StartedSkippedStep, NoneStrandedStep
<1>3. Inv => NothingStranded
  BY DEF NoneStranded, NothingStranded, Unfinished
<1> HIDE DEF Inv
<1> QED BY <1>1, <1>2, <1>3, TypeCorrect, StoredInvariant, PTL DEF Spec

-----------------------------------------------------------------------------
(* The executor works through the operations of the graph                   *)

\* The actions of the executor that change the ledger or its own memory only.
LEMMA LedgerStep ==
    ASSUME NEW w \in Worker,
           \/ Reserve(w) \/ SettleNode(w) \/ CallProvider(w) \/ SettleAnswer(w)
           \/ SettleRefusal(w) \/ SettleUnknown(w) \/ RecordUnknown(w)
           \/ ReadHeadroom(w) \/ ChargeOverrun(w)
    PROVE  UNCHANGED vars
BY DEF Reserve, SettleNode, CallProvider, SettleAnswer, SettleRefusal, SettleUnknown,
       RecordUnknown, ReadHeadroom, ChargeOverrun

\* Settling a record moves no money and no executor; of the graph it moves what
\* reopenNode moves, or nothing.
LEMMA ResolverStep ==
    ASSUME NEW x \in Resolver, Reconciles(x)
    PROVE  /\ UNCHANGED <<used, reserved, captured, run, overran, late, calls>>
           /\ UNCHANGED <<work, accepted>>
           /\ records' \subseteq records
           /\ Operator \/ UNCHANGED vars
<1>1. CASE ReopenUnserved(x)
  <2>1. PICK n \in Node : ReopenNode(n) \/ UNCHANGED vars
    BY <1>1 DEF ReopenUnserved
  <2>2. UNCHANGED <<work, accepted>>
    BY <2>1 DEF ReopenNode, vars
  <2> QED BY <1>1, <2>1, <2>2 DEF ReopenUnserved, Operator
<1>2. CASE ReadRecord(x) \/ CloseRecord(x) \/ ResolverDies(x)
  BY <1>2 DEF ReadRecord, CloseRecord, ResolverDies, vars
<1> QED BY <1>1, <1>2 DEF Reconciles

\* Every step of the executors is one operation of jev.js, or none.
LEMMA ExecStepIsGraphStep == [ExecNext]_allVars => [Next]_vars
<1> SUFFICES ASSUME [ExecNext]_allVars PROVE [Next]_vars
  OBVIOUS
<1>1. ASSUME NEW w \in Worker, Claim(w) PROVE Next
  BY <1>1 DEF Claim, Next, WorkerStep
<1>2. ASSUME NEW w \in Worker, Report(w) PROVE Next
  <2>1. CASE CompleteNode(w) \/ ReportRefused(w)
    BY <2>1 DEF Next, WorkerStep
  <2>2. CASE FailNode(w, run[w].outcome = "retryable")
    <3>1. \E retryable \in BOOLEAN : FailNode(w, retryable)
      BY <2>2
    <3> QED BY <3>1 DEF Next, WorkerStep
  <2> QED BY <1>2, <2>1, <2>2 DEF Report
<1>3. ASSUME NEW w \in Worker, Crash(w) \/ Throw(w) PROVE Next
  BY <1>3 DEF Crash, Throw, Next, WorkerStep
<1>4. ASSUME Sweep PROVE Next
  BY <1>4 DEF Sweep, Next
<1>5. ASSUME Elsewhere PROVE Next
  BY <1>5 DEF Elsewhere, Next, WorkerStep
<1>6. CASE UNCHANGED allVars
  BY <1>6 DEF allVars
<1>7. ASSUME NEW x \in Resolver, Reconciles(x) PROVE [Next]_vars
  BY <1>7, ResolverStep DEF Next
<1> QED
  BY <1>1, <1>2, <1>3, <1>4, <1>5, <1>6, <1>7, LedgerStep DEF ExecNext, Executor

\* Whatever the money does, the graph only ever moves by the operations of jev.js:
\* every theorem about Spec holds of the executor too.
THEOREM ExecutorRefinesGraph == ExecSpec => Spec
<1>1. ExecInit => Init
  BY DEF ExecInit
<1> QED BY <1>1, ExecStepIsGraphStep, PTL DEF ExecSpec, Spec

-----------------------------------------------------------------------------
(* Types                                                                    *)

\* An executor's memory stays typed when it moves.
LEMMA GotoType ==
    ASSUME NEW w \in Worker, NEW step \in Step, NEW outcome \in Outcome, NEW over \in Nat,
           run \in [Worker -> [step : Step, outcome : Outcome, over : Nat]],
           Goto(w, step, outcome, over)
    PROVE  /\ run' \in [Worker -> [step : Step, outcome : Outcome, over : Nat]]
           /\ At(w, step)'
           /\ \A v \in Worker \ {w} : run'[v] = run[v]
BY DEF Goto, At

\* What the code's arithmetic needs of the prices.
LEMMA PriceTypes ==
    /\ Price \in [Node -> Nat]
    /\ BudgetLimit \in Nat
    /\ \A n \in Node : \A m \in Cost[n] : m \in Nat \/ m = NoUsage
    /\ Model \subseteq Node
BY ExecutionAssumption DEF ExecutionAssumption

\* What a success takes is never more than the hold, and never negative.
LEMMA ChargedBounded ==
    ASSUME NEW n \in Node, NEW m \in Cost[n]
    PROVE  Charged(n, m) \in Nat /\ Charged(n, m) <= Price[n]
BY PriceTypes DEF Charged, NoUsage

\* A claim remembered by a worker that is not idle is a key of a node.
LEMMA KeyType ==
    ASSUME ExecTypeOK, NEW w \in Worker, ~At(w, "idle")
    PROVE  work[w].node \in Node /\ work[w].lease \in Nat /\ Key(w) \in Node \X Nat
<1>1. work[w] # NoWork
  BY DEF ExecTypeOK
<1>2. work[w] \in [node : Node, lease : Nat]
  BY <1>1 DEF ExecTypeOK, TypeOK
<1> QED BY <1>2 DEF Key

\* A settlement's capture and release keep the ledger typed.
LEMMA LedgerType ==
    ASSUME ExecTypeOK, NEW k \in Node \X Nat, NEW c \in Nat, Capture(k, c) \/ Release(k)
    PROVE  used' \in Nat /\ reserved' \subseteq Node \X Nat /\ captured' \subseteq Node \X Nat
BY DEF Capture, Release, ExecTypeOK

\* The ledger's part of the type invariant.
LedgerTypeOK ==
    /\ used \in Nat
    /\ overran \in Nat
    /\ reserved \subseteq Node \X Nat
    /\ captured \subseteq Node \X Nat
    /\ late \subseteq Node \X Nat
    /\ calls \subseteq Model \X Nat
    /\ records \subseteq Node \X Nat
    /\ settling \in [Resolver ->
           {AtRest} \cup [step : {"reopening", "closing"}, record : Node \X Nat]]

\* The executors' part of it.
RunTypeOK ==
    /\ run \in [Worker -> [step : Step, outcome : Outcome, over : Nat]]
    /\ \A w \in Worker : At(w, "idle") <=> work[w] = NoWork

\* An executor that works on keeps the ledger and its memory typed.
LEMMA WorkingType ==
    ASSUME ExecTypeOK, NEW w \in Worker,
           \/ Reserve(w) \/ SettleNode(w) \/ CallProvider(w) \/ SettleAnswer(w)
           \/ SettleRefusal(w) \/ SettleUnknown(w) \/ RecordUnknown(w)
           \/ ReadHeadroom(w) \/ ChargeOverrun(w)
    PROVE  LedgerTypeOK' /\ RunTypeOK'
<1> DEFINE n == work[w].node
           Moved == \E step \in Step \ {"idle"}, outcome \in Outcome, over \in Nat :
                       Goto(w, step, outcome, over)
<1>1. ~At(w, "idle")
  BY DEF Reserve, SettleNode, CallProvider, SettleAnswer, SettleRefusal, SettleUnknown,
         RecordUnknown, ReadHeadroom, ChargeOverrun, At
<1>2. n \in Node /\ work[w].lease \in Nat /\ Key(w) \in Node \X Nat
  BY <1>1, KeyType
<1>3. run[w].over \in Nat /\ Price[n] \in Nat /\ BudgetLimit \in Nat /\ used \in Nat
  BY <1>2, PriceTypes DEF ExecTypeOK
<1>4. ASSUME Moved PROVE RunTypeOK'
  <2>1. PICK step \in Step \ {"idle"}, outcome \in Outcome, over \in Nat :
           Goto(w, step, outcome, over)
    BY <1>4
  <2>2. /\ run' \in [Worker -> [step : Step, outcome : Outcome, over : Nat]]
        /\ run'[w].step # "idle"
        /\ \A v \in Worker \ {w} : run'[v] = run[v]
    BY <2>1 DEF Goto, ExecTypeOK
  <2>3. work' = work
    BY LedgerStep DEF vars
  <2>4. work[w] # NoWork
    BY <1>1 DEF ExecTypeOK
  <2> QED BY <2>2, <2>3, <2>4 DEF RunTypeOK, ExecTypeOK, At
<1>5. CASE Reserve(w)
  <2>1. Moved
    BY <1>5 DEF Reserve, Step, Outcome
  <2>2. LedgerTypeOK'
    BY <1>2, <1>5 DEF Reserve, LedgerTypeOK, ExecTypeOK
  <2> QED BY <1>4, <2>1, <2>2
<1>6. CASE SettleNode(w)
  <2>1. Moved
    BY <1>6 DEF SettleNode, Step, Outcome
  <2>2. used' \in Nat /\ reserved' \subseteq Node \X Nat /\ captured' \subseteq Node \X Nat
    <3>1. ASSUME NEW m \in Cost[n], Capture(Key(w), Charged(n, m))
          PROVE  used' \in Nat /\ reserved' \subseteq Node \X Nat /\ captured' \subseteq Node \X Nat
      BY <1>2, <3>1, ChargedBounded, LedgerType
    <3>2. CASE Release(Key(w))
      BY <1>2, <3>2 DEF Release, ExecTypeOK
    <3> QED BY <1>6, <3>1, <3>2 DEF SettleNode
  <2>3. LedgerTypeOK'
    BY <1>6, <2>2 DEF SettleNode, LedgerTypeOK, ExecTypeOK
  <2> QED BY <1>4, <2>1, <2>3
<1>7. CASE CallProvider(w)
  <2>1. Moved
    BY <1>7 DEF CallProvider, Step, Outcome
  <2>2. calls' \subseteq Model \X Nat
    BY <1>2, <1>7 DEF CallProvider, Key, ExecTypeOK
  <2>3. LedgerTypeOK'
    BY <1>7, <2>2 DEF CallProvider, LedgerTypeOK, ExecTypeOK
  <2> QED BY <1>4, <2>1, <2>3
<1>8. CASE SettleAnswer(w)
  <2>1. PICK m \in Cost[n] :
           /\ Capture(Key(w), Charged(n, m))
           /\ IF m > Price[n] /\ (Price[n] = 0 \/ Capturable(Key(w), Price[n]))
              THEN Goto(w, "overrun", "ok", m - Price[n])
              ELSE \E outcome \in {"ok", "fatal"} : Goto(w, "settled", outcome, 0)
    BY <1>8 DEF SettleAnswer
  <2>2. Moved
    <3>1. CASE m > Price[n] /\ (Price[n] = 0 \/ Capturable(Key(w), Price[n]))
      <4>1. m - Price[n] \in Nat
        BY <1>2, <1>3, <3>1, PriceTypes DEF NoUsage
      <4>2. Goto(w, "overrun", "ok", m - Price[n])
        BY <2>1, <3>1
      <4>3. "overrun" \in Step \ {"idle"} /\ "ok" \in Outcome
        BY DEF Step, Outcome
      <4> QED BY <4>1, <4>2, <4>3
    <3>2. CASE ~(m > Price[n] /\ (Price[n] = 0 \/ Capturable(Key(w), Price[n])))
      BY <2>1, <3>2 DEF Step, Outcome
    <3> QED BY <3>1, <3>2
  <2>3. used' \in Nat /\ reserved' \subseteq Node \X Nat /\ captured' \subseteq Node \X Nat
    BY <1>2, <2>1, ChargedBounded, LedgerType
  <2>4. LedgerTypeOK'
    BY <1>8, <2>3 DEF SettleAnswer, LedgerTypeOK, ExecTypeOK
  <2> QED BY <1>4, <2>2, <2>4
<1>9. CASE SettleRefusal(w)
  <2>1. Moved
    BY <1>9 DEF SettleRefusal, Step, Outcome
  <2>2. LedgerTypeOK'
    BY <1>9 DEF SettleRefusal, Release, LedgerTypeOK, ExecTypeOK
  <2> QED BY <1>4, <2>1, <2>2
<1>10. CASE SettleUnknown(w)
  <2>1. Moved
    BY <1>10 DEF SettleUnknown, Step, Outcome
  <2>2. used' \in Nat /\ reserved' \subseteq Node \X Nat /\ captured' \subseteq Node \X Nat
    BY <1>2, <1>3, <1>10, LedgerType DEF SettleUnknown
  <2>3. LedgerTypeOK'
    BY <1>10, <2>2 DEF SettleUnknown, LedgerTypeOK, ExecTypeOK
  <2> QED BY <1>4, <2>1, <2>3
<1>11. CASE RecordUnknown(w)
  <2>1. Moved
    BY <1>11 DEF RecordUnknown, Step, Outcome
  <2>2. LedgerTypeOK'
    BY <1>2, <1>11 DEF RecordUnknown, LedgerTypeOK, ExecTypeOK
  <2> QED BY <1>4, <2>1, <2>2
<1>12. CASE ReadHeadroom(w)
  <2> DEFINE headroom == BudgetLimit - used
             affordable == IF run[w].over < headroom THEN run[w].over ELSE headroom
  <2>1. affordable > 0 => affordable \in Nat
    BY <1>3
  <2>2. \/ affordable > 0 /\ Goto(w, "charging", "ok", affordable)
        \/ \E outcome \in {"ok", "fatal"} : Goto(w, "settled", outcome, 0)
    BY <1>12 DEF ReadHeadroom
  <2> HIDE DEF affordable
  <2>3. "charging" \in Step \ {"idle"} /\ "settled" \in Step \ {"idle"} /\ {"ok", "fatal"} \subseteq Outcome
    BY DEF Step, Outcome
  <2>4. Moved
    BY <2>1, <2>2, <2>3
  <2>5. LedgerTypeOK'
    BY <1>12 DEF ReadHeadroom, LedgerTypeOK, ExecTypeOK
  <2> QED BY <1>4, <2>4, <2>5
<1>13. CASE ChargeOverrun(w)
  <2>1. Moved
    BY <1>13 DEF ChargeOverrun, Step, Outcome
  <2>2. LedgerTypeOK'
    BY <1>3, <1>13 DEF ChargeOverrun, LedgerTypeOK, ExecTypeOK
  <2> QED BY <1>4, <2>1, <2>2
<1> QED BY <1>5, <1>6, <1>7, <1>8, <1>9, <1>10, <1>11, <1>12, <1>13

\* An executor has a memory exactly while it has a claim, and all of it is typed.
LEMMA ExecTypeStep == ExecTypeOK /\ [ExecNext]_allVars => ExecTypeOK'
<1> SUFFICES ASSUME ExecTypeOK, [ExecNext]_allVars PROVE ExecTypeOK'
  OBVIOUS
<1>1. TypeOK'
  BY ExecStepIsGraphStep, TypeStep DEF ExecTypeOK
<1>2. SUFFICES LedgerTypeOK' /\ RunTypeOK'
  BY <1>1 DEF ExecTypeOK, LedgerTypeOK, RunTypeOK
\* The steps that move no money.
<1>3. ASSUME UNCHANGED <<used, captured, overran, calls, late, records, settling>>, reserved' \subseteq reserved
      PROVE  LedgerTypeOK'
  BY <1>3 DEF LedgerTypeOK, ExecTypeOK
<1>4. ASSUME UNCHANGED <<work, run>>
      PROVE  RunTypeOK'
  BY <1>4 DEF RunTypeOK, ExecTypeOK, At
\* The steps that start or end the run of one worker.
<1>5. ASSUME NEW w \in Worker, NEW r \in [step : Step, outcome : Outcome, over : Nat],
             run' = [run EXCEPT ![w] = r], r.step = "idle" <=> work'[w] = NoWork,
             \A v \in Worker \ {w} : work'[v] = work[v]
      PROVE  RunTypeOK'
  <2>1. run' \in [Worker -> [step : Step, outcome : Outcome, over : Nat]]
    BY <1>5 DEF ExecTypeOK
  <2>2. ASSUME NEW v \in Worker PROVE At(v, "idle")' <=> work'[v] = NoWork
    BY <1>5 DEF ExecTypeOK, At
  <2> QED BY <2>1, <2>2 DEF RunTypeOK
<1>6. Idle \in [step : Step, outcome : Outcome, over : Nat] /\ Idle.step = "idle"
  BY DEF Idle, Step, Outcome
<1>7. ASSUME NEW w \in Worker, Claim(w)
      PROVE  LedgerTypeOK' /\ RunTypeOK'
  <2> DEFINE r == [step |-> "claimed", outcome |-> "ok", over |-> 0]
  <2>1. PICK n \in Node : work' = [work EXCEPT ![w] = [node |-> n, lease |-> FreshLease(n)]]
    BY <1>7 DEF Claim, ClaimNextNode
  <2>2. work'[w] # NoWork /\ \A v \in Worker \ {w} : work'[v] = work[v]
    BY <2>1, ConstantTypes DEF ExecTypeOK, TypeOK, NoWork
  <2>3. run' = [run EXCEPT ![w] = r] /\ r \in [step : Step, outcome : Outcome, over : Nat]
    BY <1>7 DEF Claim, Goto, Step, Outcome
  <2>4. RunTypeOK'
    BY <1>5, <2>2, <2>3
  <2> QED BY <1>3, <1>7, <2>4 DEF Claim
<1>8. ASSUME NEW w \in Worker, work' = [work EXCEPT ![w] = NoWork], Leave(w)
      PROVE  RunTypeOK'
  <2>1. work'[w] = NoWork /\ \A v \in Worker \ {w} : work'[v] = work[v]
    BY <1>8 DEF ExecTypeOK, TypeOK
  <2> QED BY <1>5, <1>6, <1>8, <2>1 DEF Leave
<1>9. ASSUME NEW w \in Worker, Crash(w) \/ Throw(w)
      PROVE  LedgerTypeOK' /\ RunTypeOK'
  <2>1. RunTypeOK'
    BY <1>8, <1>9 DEF Crash, Throw, WorkerCrash, ExecutorThrows
  <2> QED BY <1>3, <1>9, <2>1 DEF Crash, Throw
<1>10. ASSUME NEW w \in Worker, Report(w)
       PROVE  LedgerTypeOK' /\ RunTypeOK'
  <2>1. work' \in {work, [work EXCEPT ![w] = NoWork]} /\ work'[w] = NoWork /\ Leave(w)
    BY <1>10 DEF Report, CompleteNode, FailNode, ReportRefused, MayForget
  <2>2. \A v \in Worker \ {w} : work'[v] = work[v]
    BY <2>1 DEF ExecTypeOK, TypeOK
  <2>3. RunTypeOK'
    BY <1>5, <1>6, <2>1, <2>2 DEF Leave
  <2> QED BY <1>3, <1>10, <2>3 DEF Report
<1>11. CASE Sweep
  <2>1. UNCHANGED <<work, run>>
    BY <1>11 DEF Sweep, SweepStalledNodes
  <2> QED BY <1>3, <1>4, <1>11, <2>1 DEF Sweep
<1>12. CASE Elsewhere
  <2>1. UNCHANGED work
    BY <1>12 DEF Elsewhere, Planner, CreateTaskGraph, ExpandGraph, StoreNodes, Operator,
       ReopenNode, CancelGraph, RenewNodeLease, Tick
  <2> QED BY <1>3, <1>4, <1>12, <2>1 DEF Elsewhere, execVars
<1>13. CASE UNCHANGED allVars
  BY <1>3, <1>4, <1>13 DEF allVars, execVars, vars
<1>14. ASSUME NEW x \in Resolver, Reconciles(x)
       PROVE  LedgerTypeOK' /\ RunTypeOK'
  <2> DEFINE Reading == [step : {"reopening", "closing"}, record : Node \X Nat]
  <2>1. \E r \in {AtRest} \cup Reading : settling' = [settling EXCEPT ![x] = r]
    <3>1. CASE ReadRecord(x)
      <4>1. PICK k \in records, step \in {"reopening", "closing"} :
               settling' = [settling EXCEPT ![x] = [step |-> step, record |-> k]]
        BY <3>1 DEF ReadRecord
      <4>2. [step |-> step, record |-> k] \in Reading
        BY DEF ExecTypeOK
      <4> QED BY <4>1, <4>2
    <3>2. CASE ReopenUnserved(x)
      <4>1. settling[x] \in Reading
        BY <3>2 DEF ReopenUnserved, ExecTypeOK, AtRest
      <4>2. [settling[x] EXCEPT !.step = "closing"] \in Reading
        BY <4>1
      <4>3. settling' = [settling EXCEPT ![x] = [settling[x] EXCEPT !.step = "closing"]]
        BY <3>2 DEF ReopenUnserved, ExecTypeOK
      <4> QED BY <4>2, <4>3
    <3>3. CASE CloseRecord(x) \/ ResolverDies(x)
      BY <3>3 DEF CloseRecord, ResolverDies
    <3> QED BY <1>14, <3>1, <3>2, <3>3 DEF Reconciles
  <2>2. settling' \in [Resolver -> {AtRest} \cup Reading]
    BY <2>1 DEF ExecTypeOK
  <2>3. /\ UNCHANGED <<used, reserved, captured, run, overran, late, calls, work>>
        /\ records' \subseteq records
    BY <1>14, ResolverStep
  <2>4. LedgerTypeOK'
    BY <2>2, <2>3 DEF LedgerTypeOK, ExecTypeOK
  <2> QED BY <1>4, <2>3, <2>4
<1> QED
  BY <1>7, <1>9, <1>10, <1>11, <1>12, <1>13, <1>14, WorkingType DEF ExecNext, Executor

\* The ledger and the executors stay typed, for any prices and costs.
THEOREM ExecTypeCorrect == ExecSpec => []ExecTypeOK
<1>1. ExecInit => ExecTypeOK
  <2> SUFFICES ASSUME ExecInit PROVE ExecTypeOK
    OBVIOUS
  <2>1. TypeOK
    BY ConstantTypes DEF ExecInit, Init, TypeOK, NodeStatus, Unfinished, NoDeadline
  <2>2. run \in [Worker -> [step : Step, outcome : Outcome, over : Nat]]
    BY DEF ExecInit, Idle, Step, Outcome
  <2>3. \A w \in Worker : At(w, "idle") <=> work[w] = NoWork
    BY DEF ExecInit, Init, Idle, At
  <2> QED BY <2>1, <2>2, <2>3 DEF ExecTypeOK, ExecInit
<1> QED BY <1>1, ExecTypeStep, PTL DEF ExecSpec

-----------------------------------------------------------------------------
(* The budget                                                               *)

\* The units of the holds R.
UnitsOf(R) == UNION {Units(k) : k \in R}

\* A hold has as many units as its price.
LEMMA UnitsOfOne ==
    ASSUME NEW k \in Node \X Nat
    PROVE  IsFiniteSet(Units(k)) /\ Cardinality(Units(k)) = Price[k[1]] /\ Price[k[1]] \in Nat
<1>1. Price[k[1]] \in Nat
  <2>1. k[1] \in Node
    OBVIOUS
  <2> QED BY <2>1, PriceTypes
<1>2. IsFiniteSet(1..Price[k[1]]) /\ Cardinality(1..Price[k[1]]) = Price[k[1]]
  <2> DEFINE p == Price[k[1]]
  <2>1. p \in Nat /\ p \in Int /\ 1 \in Int
    BY <1>1
  <2> HIDE DEF p
  <2>2. IsFiniteSet(1..p) /\ Cardinality(1..p) = IF 1 > p THEN 0 ELSE p - 1 + 1
    BY <2>1, FS_Interval
  <2>3. IsFiniteSet(1..p) /\ Cardinality(1..p) = p
    BY <2>1, <2>2
  <2> QED BY <2>3 DEF p
<1>3. IsFiniteSet({k}) /\ Cardinality({k}) = 1
  BY FS_Singleton
<1>4. IsFiniteSet(Units(k)) /\ Cardinality(Units(k)) = Cardinality({k}) * Cardinality(1..Price[k[1]])
  BY <1>2, <1>3, FS_Product DEF Units
<1>5. Cardinality({k}) * Cardinality(1..Price[k[1]]) = Price[k[1]]
  <2> DEFINE c == Cardinality({k})
             p == Cardinality(1..Price[k[1]])
  <2>1. c = 1 /\ p \in Nat /\ p = Price[k[1]]
    BY <1>1, <1>2, <1>3
  <2> HIDE DEF c, p
  <2>2. c * p = p
    BY <2>1
  <2> QED BY <2>1, <2>2 DEF c, p
<1> QED BY <1>1, <1>4, <1>5

\* One more hold adds at most its price.
LEMMA AddHold ==
    ASSUME NEW R, IsFiniteSet(UnitsOf(R)), NEW k \in Node \X Nat
    PROVE  /\ IsFiniteSet(UnitsOf(R \cup {k}))
           /\ Cardinality(UnitsOf(R \cup {k})) <= Cardinality(UnitsOf(R)) + Price[k[1]]
<1>1. UnitsOf(R \cup {k}) = UnitsOf(R) \cup Units(k)
  BY DEF UnitsOf
<1>2. IsFiniteSet(Units(k)) /\ Cardinality(Units(k)) = Price[k[1]] /\ Price[k[1]] \in Nat
  BY UnitsOfOne
<1>3. Cardinality(UnitsOf(R)) \in Nat /\ Cardinality(UnitsOf(R) \cap Units(k)) \in Nat
  BY FS_CardinalityType, FS_Intersection
<1>4. /\ IsFiniteSet(UnitsOf(R) \cup Units(k))
      /\ Cardinality(UnitsOf(R) \cup Units(k)) =
            Cardinality(UnitsOf(R)) + Cardinality(Units(k)) - Cardinality(UnitsOf(R) \cap Units(k))
  BY <1>2, FS_Union
<1> DEFINE more == Cardinality(UnitsOf(R \cup {k}))
           before == Cardinality(UnitsOf(R))
           common == Cardinality(UnitsOf(R) \cap Units(k))
           price == Price[k[1]]
<1>5. more = before + price - common /\ before \in Nat /\ price \in Nat /\ common \in Nat
  BY <1>1, <1>2, <1>3, <1>4
<1>6. IsFiniteSet(UnitsOf(R \cup {k}))
  BY <1>1, <1>4
<1> HIDE DEF more, before, common, price
<1>7. more <= before + price
  BY <1>5
<1> QED BY <1>6, <1>7 DEF more, before, price

\* A hold that goes takes exactly its price with it: no two holds share a unit.
LEMMA DropHold ==
    ASSUME NEW R, IsFiniteSet(UnitsOf(R)), NEW k \in R, k \in Node \X Nat
    PROVE  /\ IsFiniteSet(UnitsOf(R \ {k}))
           /\ Cardinality(UnitsOf(R \ {k})) = Cardinality(UnitsOf(R)) - Price[k[1]]
<1>1. UnitsOf(R \ {k}) = UnitsOf(R) \ Units(k)
  BY DEF UnitsOf, Units
<1>2. UnitsOf(R) \cap Units(k) = Units(k)
  BY DEF UnitsOf
<1>3. Cardinality(Units(k)) = Price[k[1]]
  BY UnitsOfOne
<1>4. /\ IsFiniteSet(UnitsOf(R) \ Units(k))
      /\ Cardinality(UnitsOf(R) \ Units(k)) =
            Cardinality(UnitsOf(R)) - Cardinality(UnitsOf(R) \cap Units(k))
  BY FS_Difference
<1> QED BY <1>1, <1>2, <1>3, <1>4

\* Fewer holds hold no more.
LEMMA FewerHolds ==
    ASSUME NEW R, IsFiniteSet(UnitsOf(R)), NEW S \in SUBSET R
    PROVE  IsFiniteSet(UnitsOf(S)) /\ Cardinality(UnitsOf(S)) <= Cardinality(UnitsOf(R))
<1>1. UnitsOf(S) \in SUBSET UnitsOf(R)
  BY DEF UnitsOf
<1> QED BY <1>1, FS_Subset

\* What makes the budget inductive: the holds are finitely many units.
BudgetInv ==
    /\ IsFiniteSet(UnitsOf(reserved))
    /\ SpentWithinLimit
    /\ HoldsFitBudget

\* Each ledger operation keeps spent and held money together within the budget,
\* up to the overruns.
LEMMA BudgetStep == ExecTypeOK /\ BudgetInv /\ [ExecNext]_allVars => BudgetInv'
<1> SUFFICES ASSUME ExecTypeOK, BudgetInv, [ExecNext]_allVars PROVE BudgetInv'
  OBVIOUS
<1> DEFINE held == Cardinality(UnitsOf(reserved))
<1>1. /\ used \in Nat /\ overran \in Nat /\ BudgetLimit \in Nat
      /\ reserved \subseteq Node \X Nat
      /\ IsFiniteSet(UnitsOf(reserved)) /\ held \in Nat
      /\ Held = held /\ Held' = held'
  BY PriceTypes, FS_CardinalityType DEF BudgetInv, Held, UnitsOf, ExecTypeOK
<1>2. used <= BudgetLimit /\ used + held <= BudgetLimit + overran
  BY <1>1 DEF BudgetInv, SpentWithinLimit, HoldsFitBudget
\* Holds given back.
<1>3. ASSUME UNCHANGED <<used, overran>>, reserved' \subseteq reserved
      PROVE  BudgetInv'
  <2>1. IsFiniteSet(UnitsOf(reserved')) /\ Cardinality(UnitsOf(reserved')) <= held
    BY <1>1, <1>3, FewerHolds
  <2>2. IsFiniteSet(UnitsOf(reserved)') /\ held' <= held /\ held' \in Nat
    BY <2>1, FS_CardinalityType DEF UnitsOf, Units
  <2>3. used' = used /\ overran' = overran
    BY <1>3
  <2>4. used' <= BudgetLimit
    BY <1>2, <2>3
  <2>5. used' + held' <= BudgetLimit + overran'
    <3> DEFINE later == held'
    <3>1. later <= held /\ later \in Nat
      BY <2>2
    <3> HIDE DEF held, later
    <3>2. used + later <= BudgetLimit + overran
      BY <1>1, <1>2, <3>1
    <3> QED BY <2>3, <3>2 DEF later
  <2> QED BY <1>1, <2>2, <2>4, <2>5 DEF BudgetInv, SpentWithinLimit, HoldsFitBudget
\* A hold captured, or left by a capture that throws.
<1>4. ASSUME NEW k \in Node \X Nat, NEW c \in Nat, c <= Price[k[1]], Capture(k, c),
             UNCHANGED overran
      PROVE  BudgetInv'
  <2>1. CASE Capturable(k, c)
    <3>1. /\ k \in reserved /\ used' = used + c /\ reserved' = reserved \ {k}
          /\ used + c + (held - Price[k[1]]) <= BudgetLimit
      BY <1>1, <2>1, <1>4 DEF Capture, Capturable
    <3>2. /\ IsFiniteSet(UnitsOf(reserved \ {k}))
          /\ Cardinality(UnitsOf(reserved \ {k})) = held - Price[k[1]]
      BY <1>1, <3>1, DropHold
    <3>3. /\ IsFiniteSet(UnitsOf(reserved)') /\ held' = held - Price[k[1]] /\ held' \in Nat
      BY <3>1, <3>2, FS_CardinalityType DEF UnitsOf, Units
    <3>4. Price[k[1]] \in Nat
      BY PriceTypes
    <3> HIDE DEF held
    <3>5. used' <= BudgetLimit /\ used' + held' <= BudgetLimit + overran'
      BY <1>1, <1>2, <1>4, <3>1, <3>3, <3>4
    <3> QED BY <1>1, <3>3, <3>5 DEF BudgetInv, SpentWithinLimit, HoldsFitBudget
  <2>2. CASE ~Capturable(k, c)
    BY <1>3, <1>4, <2>2 DEF Capture
  <2> QED BY <2>1, <2>2
\* An overrun charged.
<1>5. ASSUME NEW over \in Nat, used + over <= BudgetLimit, used' = used + over,
             overran' = overran + over, UNCHANGED reserved
      PROVE  BudgetInv'
  <2>1. IsFiniteSet(UnitsOf(reserved)') /\ held' = held
    BY <1>1, <1>5 DEF UnitsOf, Units
  <2> HIDE DEF held
  <2>2. used' <= BudgetLimit /\ used' + held' <= BudgetLimit + overran'
    BY <1>1, <1>2, <1>5, <2>1
  <2> QED BY <1>1, <2>1, <2>2 DEF BudgetInv, SpentWithinLimit, HoldsFitBudget
<1>6. ASSUME NEW w \in Worker, ~At(w, "idle")
      PROVE  work[w].node \in Node /\ Key(w) \in Node \X Nat /\ Key(w)[1] = work[w].node
             /\ Price[work[w].node] \in Nat
  BY <1>6, KeyType, PriceTypes DEF Key
<1>7. ASSUME NEW w \in Worker, Reserve(w)
      PROVE  BudgetInv'
  <2> DEFINE n == work[w].node
  <2>1. n \in Node /\ Key(w) \in Node \X Nat /\ Key(w)[1] = n /\ Price[n] \in Nat
    BY <1>6, <1>7 DEF Reserve, At
  <2>2. UNCHANGED <<used, overran>>
    BY <1>7 DEF Reserve
  <2>3. CASE reserved' = reserved
    BY <1>3, <2>2, <2>3
  <2>4. CASE Admits(n) /\ Price[n] # 0 /\ reserved' = reserved \cup {Key(w)}
    <3>1. used + held + Price[n] <= BudgetLimit
      BY <1>1, <2>4 DEF Admits
    <3>2. /\ IsFiniteSet(UnitsOf(reserved \cup {Key(w)}))
          /\ Cardinality(UnitsOf(reserved \cup {Key(w)})) <= held + Price[n]
      BY <1>1, <2>1, AddHold
    <3>3. IsFiniteSet(UnitsOf(reserved)') /\ held' <= held + Price[n] /\ held' \in Nat
      BY <2>4, <3>2, FS_CardinalityType DEF UnitsOf, Units
    <3>4. used' <= BudgetLimit /\ used' + held' <= BudgetLimit + overran'
      <4> DEFINE later == held'
                 price == Price[n]
      <4>1. /\ later <= held + price /\ later \in Nat /\ price \in Nat
            /\ used + held + price <= BudgetLimit
        BY <2>1, <3>1, <3>3
      <4> HIDE DEF held, later, price
      <4>2. used + later <= BudgetLimit + overran
        BY <1>1, <4>1
      <4> QED BY <1>2, <2>2, <4>2 DEF later
    <3> QED BY <1>1, <3>3, <3>4 DEF BudgetInv, SpentWithinLimit, HoldsFitBudget
  <2> QED BY <1>7, <2>3, <2>4 DEF Reserve
<1>8. ASSUME NEW w \in Worker, SettleNode(w)
      PROVE  BudgetInv'
  <2> DEFINE n == work[w].node
  <2>1. n \in Node /\ Key(w) \in Node \X Nat /\ Key(w)[1] = n
    BY <1>6, <1>8 DEF SettleNode, At
  <2>2. ASSUME NEW m \in Cost[n], Capture(Key(w), Charged(n, m)) PROVE BudgetInv'
    BY <1>4, <1>8, <2>1, <2>2, ChargedBounded DEF SettleNode
  <2>3. CASE Release(Key(w))
    BY <1>3, <1>8, <2>3 DEF SettleNode, Release
  <2> QED BY <1>8, <2>2, <2>3 DEF SettleNode
<1>9. ASSUME NEW w \in Worker, SettleAnswer(w)
      PROVE  BudgetInv'
  <2> DEFINE n == work[w].node
  <2>1. n \in Node /\ Key(w) \in Node \X Nat /\ Key(w)[1] = n
    BY <1>6, <1>9 DEF SettleAnswer, At
  <2>2. PICK m \in Cost[n] : Capture(Key(w), Charged(n, m))
    BY <1>9 DEF SettleAnswer
  <2> QED BY <1>4, <1>9, <2>1, <2>2, ChargedBounded DEF SettleAnswer
<1>10. ASSUME NEW w \in Worker, SettleRefusal(w)
       PROVE  BudgetInv'
  BY <1>3, <1>10 DEF SettleRefusal, Release
<1>11. ASSUME NEW w \in Worker, SettleUnknown(w)
       PROVE  BudgetInv'
  <2>1. Key(w) \in Node \X Nat /\ Key(w)[1] = work[w].node /\ Price[work[w].node] \in Nat
    BY <1>6, <1>11 DEF SettleUnknown, At
  <2>2. Price[work[w].node] <= Price[Key(w)[1]]
    BY <2>1
  <2> QED BY <1>4, <1>11, <2>1, <2>2 DEF SettleUnknown
<1>12. ASSUME NEW w \in Worker, ChargeOverrun(w)
       PROVE  BudgetInv'
  <2>1. run[w].over \in Nat
    BY DEF ExecTypeOK
  <2> QED BY <1>3, <1>5, <1>12, <2>1 DEF ChargeOverrun
<1>13. ASSUME NEW w \in Worker,
              CallProvider(w) \/ RecordUnknown(w) \/ ReadHeadroom(w)
              \/ Claim(w) \/ Report(w) \/ Crash(w) \/ Throw(w)
       PROVE  BudgetInv'
  BY <1>3, <1>13 DEF CallProvider, RecordUnknown, ReadHeadroom, Claim, Report, Crash, Throw
<1>14. CASE Sweep \/ Elsewhere \/ UNCHANGED allVars
  BY <1>3, <1>14 DEF Sweep, Elsewhere, allVars, execVars
<1>15. ASSUME NEW x \in Resolver, Reconciles(x)
       PROVE  BudgetInv'
  BY <1>3, <1>15, ResolverStep
<1> QED
  BY <1>7, <1>8, <1>9, <1>10, <1>11, <1>12, <1>13, <1>14, <1>15 DEF ExecNext, Executor

\* The budget invariant holds in every state of the executors.
LEMMA BudgetInvariant == ExecSpec => []BudgetInv
<1>1. ExecInit => BudgetInv
  <2> SUFFICES ASSUME ExecInit PROVE BudgetInv
    OBVIOUS
  <2>1. UnitsOf(reserved) = {} /\ Held = Cardinality({})
    BY DEF ExecInit, UnitsOf, Held
  <2>2. IsFiniteSet({}) /\ Cardinality({}) = 0
    BY FS_EmptySet
  <2>3. used = 0 /\ overran = 0 /\ Held = 0 /\ BudgetLimit \in Nat
    BY <2>1, <2>2, PriceTypes DEF ExecInit
  <2>4. SpentWithinLimit /\ HoldsFitBudget
    BY <2>3 DEF SpentWithinLimit, HoldsFitBudget
  <2> QED BY <2>1, <2>2, <2>4 DEF BudgetInv
<1> QED BY <1>1, BudgetStep, ExecTypeCorrect, PTL DEF ExecSpec

\* The hard limit of an agent is never exceeded (captureSpend, recordSpend).
THEOREM LimitHolds == ExecSpec => []SpentWithinLimit
<1>1. BudgetInv => SpentWithinLimit
  BY DEF BudgetInv
<1> QED BY <1>1, BudgetInvariant, PTL

\* Spent and held money fit the budget, except for the charges above a
\* reservation (reserveSpend, captureSpend, recordSpend).
THEOREM HoldsFit == ExecSpec => []HoldsFitBudget
<1>1. BudgetInv => HoldsFitBudget
  BY DEF BudgetInv
<1> QED BY <1>1, BudgetInvariant, PTL

-----------------------------------------------------------------------------
(* A result is never free                                                   *)

\* Two executors never work under the same key.
LEMMA KeysDiffer ==
    ASSUME TypeOK, OneOwner, NEW v \in Worker, NEW w \in Worker, v # w,
           work[v] # NoWork, work[w] # NoWork
    PROVE  Key(v) # Key(w)
<1>1. work[v] # work[w]
  BY DEF OneOwner
<1>2. work[v] \in [node : Node, lease : Nat] /\ work[w] \in [node : Node, lease : Nat]
  BY DEF TypeOK
<1> QED BY <1>1, <1>2 DEF Key

\* A claim that is current after a step that left it alone was current before.
LEMMA CurrentBefore ==
    ASSUME TypeOK, Stored, OneOwner, OneOwner', [Next]_vars, NEW v \in Worker,
           work'[v] = work[v], LeaseCurrent(v)'
    PROVE  LeaseCurrent(v)
<1> DEFINE n == work[v].node
<1>1. /\ work[v] # NoWork
      /\ status'[n] = "running"
      /\ lease'[n] = work[v].lease
  BY DEF LeaseCurrent, ClaimCurrent
<1>2. n \in Node /\ work[v].lease \in 1..attempt[n] /\ attempt[n] \in Nat
  BY <1>1 DEF TypeOK, OneOwner
<1>3. lease'[n] = attempt'[n]
  BY <1>1, <1>2 DEF OneOwner
<1>4. NodeStep(n) /\ AttemptStep(n)
  BY <1>2, StepHasEffect DEF StepEffect
<1>5. status[n] = "running"
  <2>1. status[n] \in {"running", "ready"}
    BY <1>1, <1>4 DEF NodeStep
  <2>2. ASSUME status[n] = "ready" PROVE FALSE
    <3>1. attempt'[n] = attempt[n] + 1
      BY <1>1, <1>4, <2>2 DEF AttemptStep
    <3> QED BY <1>1, <1>2, <1>3, <3>1
  <2> QED BY <2>1, <2>2
<1>6. attempt'[n] = attempt[n] /\ lease[n] = attempt[n]
  BY <1>2, <1>4, <1>5 DEF AttemptStep, OneOwner
<1> QED BY <1>1, <1>3, <1>5, <1>6 DEF LeaseCurrent, ClaimCurrent

\* The executor's promise while its claim is current: it has its hold open until
\* it settles, and open or captured until it reports a success.
HoldKept(w) ==
    LeaseCurrent(w) /\ Price[work[w].node] > 0 =>
        /\ run[w].step \in {"reserved", "calling"} => Key(w) \in reserved
        /\ run[w].step \in {"overrun", "charging"} => Key(w) \in captured \cup reserved
        /\ run[w].step = "settled" /\ run[w].outcome = "ok" => Key(w) \in captured \cup reserved

\* What makes ResultNeverFree inductive: an accepted claim was issued before and
\* no worker remembers it, so no executor releases its hold any more.
PaidInv ==
    /\ ResultNeverFree
    /\ \A p \in accepted : p[2] <= attempt[p[1]]
    /\ \A w \in Worker : work[w] # NoWork => Key(w) \notin accepted
    /\ \A w \in Worker : HoldKept(w)

\* An executor that settles moves its own hold only, and takes a success no
\* further than a captured or an open hold.
LEMMA WorkingPaid ==
    ASSUME ExecTypeOK, OneOwner, PaidInv, NEW w \in Worker,
           \/ Reserve(w) \/ SettleNode(w) \/ CallProvider(w) \/ SettleAnswer(w)
           \/ SettleRefusal(w) \/ SettleUnknown(w) \/ RecordUnknown(w)
           \/ ReadHeadroom(w) \/ ChargeOverrun(w)
    PROVE  PaidInv'
<1>1. UNCHANGED vars
  BY LedgerStep
<1>2. UNCHANGED <<accepted, work, attempt, status, lease>>
  BY <1>1 DEF vars, nodeVars
<1>3. ~At(w, "idle") /\ work[w] # NoWork
  BY DEF Reserve, SettleNode, CallProvider, SettleAnswer, SettleRefusal, SettleUnknown,
         RecordUnknown, ReadHeadroom, ChargeOverrun, At, ExecTypeOK
<1>4. work[w].node \in Node /\ Price[work[w].node] \in Nat /\ Key(w) \notin accepted
  BY <1>3, KeyType, PriceTypes DEF PaidInv
<1>5. ASSUME NEW v \in Worker
      PROVE  Key(v)' = Key(v) /\ (LeaseCurrent(v)' <=> LeaseCurrent(v))
  BY <1>2 DEF Key, LeaseCurrent, ClaimCurrent
<1>6. Capture(Key(w), Price[work[w].node])
         \/ (\E m \in Cost[work[w].node] : Capture(Key(w), Charged(work[w].node, m)))
         \/ Release(Key(w)) \/ (reserved \subseteq reserved' /\ captured' = captured)
  BY DEF Reserve, SettleNode, CallProvider, SettleAnswer, SettleRefusal, SettleUnknown,
         RecordUnknown, ReadHeadroom, ChargeOverrun
\* Whatever the step does, holds of other keys stay and captured holds stay.
<1>7. /\ captured \subseteq captured'
      /\ \A k \in reserved : k # Key(w) => k \in reserved'
      /\ \A k \in reserved : k \in captured' \cup reserved' \/ Release(Key(w))
  BY <1>6 DEF Capture, Release
<1>8. ResultNeverFree'
  <2> SUFFICES ASSUME NEW p \in accepted, Price[p[1]] > 0
               PROVE  p \in captured' \cup reserved'
    BY <1>2 DEF ResultNeverFree
  <2>1. p \in captured \cup reserved /\ p # Key(w)
    BY <1>4 DEF PaidInv, ResultNeverFree
  <2> QED BY <1>7, <2>1
<1>9. (\A p \in accepted : p[2] <= attempt[p[1]])'
  BY <1>2 DEF PaidInv
<1>10. (\A v \in Worker : work[v] # NoWork => Key(v) \notin accepted)'
  BY <1>2, <1>5 DEF PaidInv
<1>11. \A v \in Worker \ {w} : run'[v] = run[v]
  BY DEF Reserve, SettleNode, CallProvider, SettleAnswer, SettleRefusal, SettleUnknown,
         RecordUnknown, ReadHeadroom, ChargeOverrun, Goto, ExecTypeOK
<1>12. ASSUME NEW v \in Worker, v # w PROVE HoldKept(v)'
  <2> SUFFICES ASSUME LeaseCurrent(v), Price[work[v].node] > 0
               PROVE  /\ run[v].step \in {"reserved", "calling"} => Key(v) \in reserved'
                      /\ run[v].step \in {"overrun", "charging"} => Key(v) \in captured' \cup reserved'
                      /\ run[v].step = "settled" /\ run[v].outcome = "ok"
                            => Key(v) \in captured' \cup reserved'
    BY <1>2, <1>5, <1>11, <1>12 DEF HoldKept
  <2>1. work[v] # NoWork
    BY DEF LeaseCurrent, ClaimCurrent
  <2>2. Key(v) # Key(w)
    BY <1>3, <1>12, <2>1, KeysDiffer DEF ExecTypeOK
  <2> QED BY <1>7, <2>2 DEF PaidInv, HoldKept
<1>13. HoldKept(w)'
  <2> SUFFICES ASSUME LeaseCurrent(w), Price[work[w].node] > 0
               PROVE  /\ run'[w].step \in {"reserved", "calling"} => Key(w) \in reserved'
                      /\ run'[w].step \in {"overrun", "charging"} => Key(w) \in captured' \cup reserved'
                      /\ run'[w].step = "settled" /\ run'[w].outcome = "ok"
                            => Key(w) \in captured' \cup reserved'
    BY <1>2, <1>5 DEF HoldKept
  <2>1. ASSUME NEW step, NEW outcome, NEW over, Goto(w, step, outcome, over)
        PROVE  run'[w].step = step /\ run'[w].outcome = outcome
    BY <2>1 DEF Goto, ExecTypeOK
  <2>2. /\ At(w, "reserved") \/ At(w, "calling") => Key(w) \in reserved
        /\ At(w, "overrun") \/ At(w, "charging") => Key(w) \in captured \cup reserved
    BY DEF PaidInv, HoldKept, At
  <2>3. CASE Reserve(w)
    BY <2>1, <2>3 DEF Reserve
  <2>4. CASE CallProvider(w)
    BY <2>1, <2>2, <2>4 DEF CallProvider
  <2>5. CASE SettleNode(w)
    BY <1>7, <2>1, <2>2, <2>5 DEF SettleNode, Release, Capture
  <2>6. CASE SettleAnswer(w)
    BY <2>1, <2>2, <2>6 DEF SettleAnswer, Capture
  <2>7. CASE SettleRefusal(w) \/ SettleUnknown(w) \/ RecordUnknown(w)
    BY <2>1, <2>7 DEF SettleRefusal, SettleUnknown, RecordUnknown
  <2>8. CASE ReadHeadroom(w) \/ ChargeOverrun(w)
    BY <2>1, <2>2, <2>8 DEF ReadHeadroom, ChargeOverrun
  <2> QED BY <2>3, <2>4, <2>5, <2>6, <2>7, <2>8
<1> QED BY <1>8, <1>9, <1>10, <1>12, <1>13 DEF PaidInv

\* Every step keeps what is paid for paid for.
LEMMA PaidStep ==
    ASSUME ExecTypeOK, Stored, OneOwner, OneOwner', AtMostOneSuccess, PaidInv,
           [ExecNext]_allVars
    PROVE  PaidInv'
<1>1. [Next]_vars
  BY ExecStepIsGraphStep
<1>2. \A n \in Node : attempt'[n] >= attempt[n] /\ attempt[n] \in Nat /\ attempt'[n] \in Nat
  BY <1>1, StepHasEffect DEF ExecTypeOK, TypeOK, StepEffect, AttemptStep
<1>3. \A p \in accepted : p[1] \in Node /\ p[2] \in Nat /\ status[p[1]] = "succeeded"
  BY DEF ExecTypeOK, TypeOK, AtMostOneSuccess
<1>4. \A p \in accepted : p[2] <= attempt'[p[1]]
  BY <1>2, <1>3 DEF PaidInv
\* A worker that the step leaves alone keeps its part of the invariant.
<1>5. ASSUME NEW v \in Worker, work'[v] = work[v], run'[v] = run[v],
             Key(v) \in reserved /\ LeaseCurrent(v)' => Key(v) \in reserved',
             captured' = captured
      PROVE  HoldKept(v)'
  <2>1. LeaseCurrent(v)' => LeaseCurrent(v)
    BY <1>1, <1>5, CurrentBefore DEF ExecTypeOK
  <2>2. Key(v)' = Key(v)
    BY <1>5 DEF Key
  <2>3. HoldKept(v)
    BY DEF PaidInv
  <2> QED BY <1>5, <2>1, <2>2, <2>3 DEF HoldKept
\* A worker that ends the step without a claim, or with a fresh one.
<1>6. ASSUME NEW v \in Worker, work'[v] = NoWork \/ run'[v].step \in {"idle", "claimed"}
      PROVE  HoldKept(v)'
  BY <1>6 DEF HoldKept, LeaseCurrent, ClaimCurrent
<1>7. ASSUME NEW w \in Worker, Claim(w)
      PROVE  PaidInv'
  <2>1. PICK n \in Node : work' = [work EXCEPT ![w] = [node |-> n, lease |-> FreshLease(n)]]
    BY <1>7 DEF Claim, ClaimNextNode
  <2>2. UNCHANGED <<accepted, reserved, captured>>
    BY <1>7 DEF Claim, ClaimNextNode
  <2>3. /\ run'[w].step = "claimed"
        /\ \A v \in Worker \ {w} : run'[v] = run[v] /\ work'[v] = work[v]
        /\ work'[w] = [node |-> n, lease |-> attempt[n] + 1]
    BY <1>7, <2>1 DEF Claim, Goto, ExecTypeOK, TypeOK, FreshLease
  <2>4. \A v \in Worker : HoldKept(v)'
    BY <1>5, <1>6, <2>2, <2>3
  <2>5. Key(w)' = <<n, attempt[n] + 1>>
    BY <2>3 DEF Key
  <2>6. Key(w)' \notin accepted
    BY <1>2, <2>5 DEF PaidInv
  <2>7. \A v \in Worker \ {w} : work'[v] # NoWork => Key(v)' \notin accepted
    BY <2>3 DEF PaidInv, Key
  <2>8. ResultNeverFree'
    BY <2>2 DEF PaidInv, ResultNeverFree
  <2> QED BY <1>4, <2>2, <2>4, <2>6, <2>7, <2>8 DEF PaidInv
\* A worker forgets its claim, nobody's money moves and no result is accepted.
<1>8. ASSUME NEW w \in Worker, work'[w] = NoWork,
             \A v \in Worker \ {w} : run'[v] = run[v] /\ work'[v] = work[v],
             UNCHANGED <<accepted, reserved, captured>>
      PROVE  PaidInv'
  <2>1. \A v \in Worker : HoldKept(v)'
    BY <1>5, <1>6, <1>8
  <2>2. \A v \in Worker : work'[v] # NoWork => Key(v)' \notin accepted
    BY <1>8 DEF PaidInv, Key
  <2>3. ResultNeverFree'
    BY <1>8 DEF PaidInv, ResultNeverFree
  <2> QED BY <1>4, <1>8, <2>1, <2>2, <2>3 DEF PaidInv
<1>9. ASSUME NEW w \in Worker, Crash(w) \/ Throw(w)
      PROVE  PaidInv'
  <2>1. /\ work' = [work EXCEPT ![w] = NoWork]
        /\ run' = [run EXCEPT ![w] = Idle]
        /\ UNCHANGED <<accepted, reserved, captured>>
    BY <1>9 DEF Crash, Throw, WorkerCrash, ExecutorThrows, Leave
  <2>2. /\ work'[w] = NoWork
        /\ \A v \in Worker \ {w} : run'[v] = run[v] /\ work'[v] = work[v]
    BY <2>1 DEF ExecTypeOK, TypeOK
  <2> QED BY <1>8, <2>1, <2>2
<1>10. ASSUME NEW w \in Worker, Report(w)
       PROVE  PaidInv'
  <2>1. /\ work' \in {work, [work EXCEPT ![w] = NoWork]}
        /\ work'[w] = NoWork
        /\ run' = [run EXCEPT ![w] = Idle]
        /\ UNCHANGED <<reserved, captured>>
    BY <1>10 DEF Report, Leave, CompleteNode, FailNode, ReportRefused, MayForget
  <2>2. \A v \in Worker \ {w} : run'[v] = run[v] /\ work'[v] = work[v]
    BY <2>1 DEF ExecTypeOK, TypeOK
  <2>3. CASE UNCHANGED accepted
    BY <1>8, <2>1, <2>2, <2>3
  <2>4. CASE run[w].outcome = "ok" /\ CompleteNode(w)
    <3>1. /\ LeaseCurrent(w)
          /\ accepted' = accepted \cup {Key(w)}
          /\ run[w].step = "settled"
      BY <1>10, <2>4 DEF Report, CompleteNode, Key, At
    <3>2. work[w] # NoWork
      BY <3>1 DEF LeaseCurrent, ClaimCurrent
    <3>3. Price[Key(w)[1]] > 0 => Key(w) \in captured \cup reserved
      BY <2>4, <3>1 DEF PaidInv, HoldKept, Key
    <3>4. ResultNeverFree'
      BY <2>1, <3>1, <3>3 DEF PaidInv, ResultNeverFree
    <3>5. Key(w)[1] \in Node /\ Key(w)[2] \in Nat /\ Key(w)[2] <= attempt[Key(w)[1]]
      BY <3>2 DEF Key, OneOwner, ExecTypeOK, TypeOK
    <3>6. \A p \in accepted' : p[2] <= attempt'[p[1]]
      BY <1>2, <1>4, <3>1, <3>5
    <3>7. \A v \in Worker : work'[v] # NoWork => Key(v)' \notin accepted'
      <4> SUFFICES ASSUME NEW v \in Worker, work'[v] # NoWork PROVE Key(v)' \notin accepted'
        OBVIOUS
      <4>1. v # w /\ work'[v] = work[v] /\ Key(v)' = Key(v)
        BY <2>1, <2>2 DEF Key
      <4>2. Key(v) # Key(w)
        BY <3>2, <4>1, KeysDiffer DEF ExecTypeOK
      <4> QED BY <3>1, <4>1, <4>2 DEF PaidInv
    <3>8. \A v \in Worker : HoldKept(v)'
      BY <1>5, <1>6, <2>1, <2>2
    <3> QED BY <3>4, <3>6, <3>7, <3>8 DEF PaidInv
  <2> QED BY <1>10, <2>3, <2>4 DEF Report, FailNode, ReportRefused
\* The workers are left alone, and so are the holds and the results.
<1>11. ASSUME UNCHANGED <<accepted, work, run, captured>>,
              \A k \in reserved : k \in accepted => k \in reserved',
              \A v \in Worker : Key(v) \in reserved /\ LeaseCurrent(v)' => Key(v) \in reserved'
       PROVE  PaidInv'
  <2>1. \A v \in Worker : HoldKept(v)'
    BY <1>5, <1>11
  <2>2. \A v \in Worker : work'[v] # NoWork => Key(v)' \notin accepted
    BY <1>11 DEF PaidInv, Key
  <2>3. ResultNeverFree'
    BY <1>11 DEF PaidInv, ResultNeverFree
  <2> QED BY <1>4, <1>11, <2>1, <2>2, <2>3 DEF PaidInv
<1>12. CASE Sweep
  <2>1. /\ UNCHANGED <<accepted, work, run, captured>>
        /\ reserved' = {k \in reserved : k[1] \notin Stalled}
        /\ lease' = [n \in Node |-> IF n \in Stalled THEN 0 ELSE lease[n]]
    BY <1>12 DEF Sweep, SweepStalledNodes
  <2>2. \A k \in accepted : k[1] \notin Stalled
    BY <1>3 DEF Stalled
  <2>3. ASSUME NEW v \in Worker, LeaseCurrent(v)' PROVE Key(v)[1] \notin Stalled
    <3>1. work[v] # NoWork /\ lease'[work[v].node] = work[v].lease
      BY <2>1, <2>3 DEF LeaseCurrent, ClaimCurrent
    <3>2. work[v].node \in Node /\ work[v].lease # 0
      BY <3>1 DEF OneOwner, ExecTypeOK, TypeOK
    <3> QED BY <2>1, <3>1, <3>2 DEF Key
  <2> QED BY <1>11, <2>1, <2>2, <2>3
<1>13. CASE Elsewhere
  <2>1. UNCHANGED <<accepted, work>>
    BY <1>13 DEF Elsewhere, Planner, CreateTaskGraph, ExpandGraph, StoreNodes, Operator,
       ReopenNode, CancelGraph, RenewNodeLease, Tick
  <2> QED BY <1>11, <1>13, <2>1 DEF Elsewhere, execVars
<1>14. CASE UNCHANGED allVars
  BY <1>11, <1>14 DEF allVars, execVars, vars
<1>15. ASSUME NEW x \in Resolver, Reconciles(x)
       PROVE  PaidInv'
  BY <1>11, <1>15, ResolverStep
<1> QED
  BY <1>7, <1>9, <1>10, <1>12, <1>13, <1>14, <1>15, WorkingPaid DEF ExecNext, Executor

\* The result of a node with a price is never had for nothing, whatever the sweep
\* and the other executors release in between.
THEOREM ResultPaid == ExecSpec => []ResultNeverFree
<1>1. ExecInit => PaidInv
  BY DEF ExecInit, Init, PaidInv, ResultNeverFree, HoldKept, Idle
<1>2. ExecTypeOK /\ Stored /\ OneOwner /\ OneOwner' /\ AtMostOneSuccess /\ PaidInv
         /\ [ExecNext]_allVars => PaidInv'
  BY PaidStep
<1>3. PaidInv => ResultNeverFree
  BY DEF PaidInv
<1>4. ExecSpec => []Stored /\ []OneOwner /\ []AtMostOneSuccess
  BY ExecutorRefinesGraph, StoredInvariant, OneOwnerHolds, OneResultPerNode, PTL
<1> QED BY <1>1, <1>2, <1>3, <1>4, ExecTypeCorrect, PTL DEF ExecSpec
=============================================================================
