------------------------------- MODULE JevGraph -------------------------------
(***************************************************************************)
(* The execution graphs of one task: src/src/jev.js, the node loop of      *)
(* src/src/jev-worker.js that drives it, and the operator and model-loop   *)
(* calls that change it.  Every exported operation of jev.js is a single   *)
(* transact(), so it is a single action here; what interleaves is the      *)
(* workers, which remember a claim while the node moves on without them.   *)
(*                                                                         *)
(* Time is kept as what is left of each lease and deadline, so the clock   *)
(* is never bounded.  A lease id is fresh on every claim and a claim       *)
(* always raises the node's attempt, which is never reset: the attempt     *)
(* number stands for the lease id, 0 for null.                             *)
(***************************************************************************)
EXTENDS JevDomain, Integers, FiniteSets

CONSTANTS
    Graph,        \* 1..k: the graphs of the task, in createdAt order
    GraphOf,      \* GraphOf[n]: the graph whose plan holds node n
    Worker,       \* worker loops, each holding at most one claim
    CanRun,       \* CanRun[w]: the nodes of the resource class w asks for
    FirstMax,     \* FirstMax[n]: the planner's maxAttempts
    Timeout,      \* Timeout[n]: timeoutMs in clock steps, 0 for none
    LeaseLength,  \* leaseMs in clock steps
    MaxReopens,   \* bound: MaxReopens[n] is how often node n is reopened
    MaxLeaks      \* bound: how many renewal timers are leaked

NoDeadline == -1
NoWork == [node |-> -1, lease |-> 0]

ASSUME GraphAssumption ==
    /\ Node \subseteq Nat
    /\ Graph \subseteq Nat
    /\ DependsOn \in [Node -> SUBSET Node]
    /\ Settles \subseteq Node
    /\ Expands \subseteq Node
    /\ GraphOf \in [Node -> Graph]
    /\ CanRun \in [Worker -> SUBSET Node]
    /\ FirstMax \in [Node -> Nat \ {0}]
    /\ Timeout \in [Node -> Nat]
    /\ LeaseLength \in Nat \ {0}
    /\ MaxReopens \in [Node -> Nat]
    /\ MaxLeaks \in Nat

VARIABLES
    nodes,        \* the nodes stored so far
    status,       \* node.status
    attempt,      \* node.attempt
    maxAttempts,  \* node.maxAttempts
    lease,        \* node.leaseId
    leaseLeft,    \* time until leaseExpiresAt
    deadlineLeft, \* time until deadlineAt, NoDeadline while it is null
    because,      \* node.skippedBecause; the node itself while it is null
    graphStatus,  \* graph.status of the graphs stored so far, else "absent"
    work,         \* work[w]: the claim worker w remembers
    leaked,       \* the claims whose renewal timer outlived the executor, by worker
    accepted      \* history: the claims whose completeNode was accepted

nodeVars == <<nodes, status, attempt, maxAttempts, lease, leaseLeft,
              deadlineLeft, because>>
vars == <<nodeVars, graphStatus, work, leaked, accepted>>

-----------------------------------------------------------------------------
(* Helpers *)

NodesOf(g, N) == {n \in N : GraphOf[n] = g}

Active(g) == graphStatus[g] \in ActiveGraphStatus

\* A faulty variant: any worker that remembers the node may report on it.
LeaseUnfenced(w) == work[w] # NoWork

\* The node still runs under the claim c.
ClaimCurrent(c) ==
    /\ c # NoWork
    /\ status[c.node] = "running"
    /\ lease[c.node] = c.lease

LeaseCurrent(w) == ClaimCurrent(work[w])

\* applyReadiness over the stored nodes of the graphs G, from the statuses st;
\* each newly skipped node records one of its dead dependencies.
SettleReadiness(st, N, G) ==
    LET casualties == {n \in Node : st[n] # "skipped" /\ status'[n] = "skipped"}
    IN  /\ status' = Readiness(st, {n \in N : GraphOf[n] \in G})
        /\ \E cause \in [casualties -> Node] :
              /\ \A n \in casualties : cause[n] \in Causes(status', n)
              /\ because' = [n \in Node |->
                     IF n \in casualties THEN cause[n]
                     ELSE IF status'[n] = "skipped" THEN because[n] ELSE n]

\* refreshGraph of the graphs G, from the statuses and attempts just written.
RefreshGraph(G) ==
    graphStatus' = [g \in Graph |->
        IF g \in G THEN DeriveGraphStatus(status', attempt', NodesOf(g, nodes'))
        ELSE graphStatus[g]]

\* The worker's loop forgets the claim, or it lost the answer and reports again.
MayForget(w) == \/ work' = [work EXCEPT ![w] = NoWork]
                \/ UNCHANGED work

-----------------------------------------------------------------------------
(* Creation and expansion *)

\* Store the nodes S of graph g as PENDING, then settle readiness.
StoreNodes(g, S) ==
    /\ nodes' = nodes \cup S
    /\ SettleReadiness([n \in Node |-> IF n \in S THEN "pending" ELSE status[n]],
                       nodes', {g})
    /\ UNCHANGED <<attempt, maxAttempts, lease, leaseLeft, deadlineLeft>>
    /\ RefreshGraph({g})
    /\ UNCHANGED <<work, leaked, accepted>>

CreateTaskGraph(g, S) ==
    /\ graphStatus[g] = "absent"
    /\ \A h \in Graph : h < g => graphStatus[h] # "absent"
    /\ S \subseteq NodesOf(g, Node)
    /\ WellShaped(S)
    /\ \A h \in Graph : ~Active(h)
    /\ StoreNodes(g, S)

\* A graph that merely succeeded may grow; a failed or cancelled one may not.
\* The new nodes are numbered after every node the graph has.
ExpandGraph(g, S) ==
    /\ graphStatus[g] \notin {"absent", "failed", "cancelled"}
    /\ S # {}
    /\ S \subseteq NodesOf(g, Node) \ nodes
    /\ \A n \in NodesOf(g, nodes), m \in S : n < m
    /\ WellShaped(NodesOf(g, nodes) \cup S)
    /\ StoreNodes(g, S)

-----------------------------------------------------------------------------
(* Workers *)

\* The first claimable node of the oldest active graph that has one.
NextClaim(w, n) ==
    LET claimable(g) == Claimable(status, NodesOf(g, nodes)) \cap CanRun[w]
    IN  /\ n \in nodes
        /\ Active(GraphOf[n])
        /\ n \in claimable(GraphOf[n])
        /\ \A m \in claimable(GraphOf[n]) : n <= m
        /\ \A g \in Graph : Active(g) /\ g < GraphOf[n] => claimable(g) = {}

\* id("lease")
FreshLease(n) == attempt[n] + 1

\* The deadline is set by the first claim and kept by the later ones.
DeadlineAtClaim(n) ==
    IF Timeout[n] > 0 /\ deadlineLeft[n] = NoDeadline THEN Timeout[n]
    ELSE deadlineLeft[n]

ClaimNextNode(w) ==
    \E n \in Node :
        /\ work[w] = NoWork
        /\ NextClaim(w, n)
        /\ status' = [status EXCEPT ![n] = "running"]
        /\ attempt' = [attempt EXCEPT ![n] = @ + 1]
        /\ lease' = [lease EXCEPT ![n] = FreshLease(n)]
        /\ leaseLeft' = [leaseLeft EXCEPT ![n] = LeaseLength]
        /\ deadlineLeft' = [deadlineLeft EXCEPT ![n] = DeadlineAtClaim(n)]
        /\ work' = [work EXCEPT ![w] = [node |-> n, lease |-> FreshLease(n)]]
        /\ UNCHANGED <<nodes, maxAttempts, because, leaked, accepted>>
        /\ RefreshGraph({GraphOf[n]})

\* The claims whose renewal timer runs in the process of w.
Timers(w) == {work[w]} \cup {p[2] : p \in {q \in leaked : q[1] = w}}

\* The heartbeat of a claim whose lease is current, expired or not.
RenewNodeLease(w) ==
    \E c \in Timers(w) :
        /\ ClaimCurrent(c)
        /\ leaseLeft' = [leaseLeft EXCEPT ![c.node] = LeaseLength]
        /\ UNCHANGED <<nodes, status, attempt, maxAttempts, lease, deadlineLeft,
                       because, graphStatus, work, leaked, accepted>>

CompleteNode(w) ==
    /\ LeaseCurrent(w)
    /\ LET n == work[w].node
       IN  /\ accepted' = accepted \cup {<<n, work[w].lease>>}
           /\ leaseLeft' = [leaseLeft EXCEPT ![n] = 0]
           /\ UNCHANGED <<nodes, attempt, maxAttempts, lease, deadlineLeft, leaked>>
           /\ SettleReadiness([status EXCEPT ![n] = "succeeded"], nodes, {GraphOf[n]})
           /\ RefreshGraph({GraphOf[n]})
           /\ MayForget(w)

\* retryable is the caller's classification.
FailNode(w, retryable) ==
    /\ LeaseCurrent(w)
    /\ LET n == work[w].node
           willRetry == retryable /\ attempt[n] < maxAttempts[n]
       IN  /\ lease' = [lease EXCEPT ![n] = 0]
           /\ leaseLeft' = [leaseLeft EXCEPT ![n] = 0]
           /\ UNCHANGED <<nodes, attempt, maxAttempts, deadlineLeft, leaked, accepted>>
           /\ IF willRetry
              THEN status' = [status EXCEPT ![n] = "ready"] /\ UNCHANGED because
              ELSE SettleReadiness([status EXCEPT ![n] = "failed"], nodes, {GraphOf[n]})
           /\ RefreshGraph({GraphOf[n]})
           /\ MayForget(w)

\* A report under a lease that is not current: told accepted: false, or, for
\* the completion the node already has, the stored result again.
ReportRefused(w) ==
    /\ work[w] # NoWork
    /\ ~LeaseCurrent(w)
    /\ work' = [work EXCEPT ![w] = NoWork]
    /\ UNCHANGED <<nodeVars, graphStatus, leaked, accepted>>

\* The worker's process dies, its timers with it; its successor has no claim.
WorkerCrash(w) ==
    /\ Timers(w) # {NoWork}
    /\ work' = [work EXCEPT ![w] = NoWork]
    /\ leaked' = {p \in leaked : p[1] # w}
    /\ UNCHANGED <<nodeVars, graphStatus, accepted>>

\* A call between the claim and finish() throws (a failed query, a failed
\* blackboard write): runWorker goes on to other work, and nobody stops the
\* renewal timer of the claim.
ExecutorThrows(w) ==
    /\ work[w] # NoWork
    /\ Cardinality(leaked) < MaxLeaks
    /\ work' = [work EXCEPT ![w] = NoWork]
    /\ leaked' = leaked \cup {<<w, work[w]>>}
    /\ UNCHANGED <<nodeVars, graphStatus, accepted>>

-----------------------------------------------------------------------------
(* Recovery *)

PastDeadline(n) == deadlineLeft[n] = 0
LostWorker(n)   == leaseLeft[n] = 0

\* A faulty variant: only slow nodes are swept, a dead worker keeps its node.
StalledByDeadline == {n \in nodes : status[n] = "running" /\ PastDeadline(n)}

Stalled == {n \in nodes : status[n] = "running" /\ (PastDeadline(n) \/ LostWorker(n))}

SweepStatus(n) ==
    IF n \notin Stalled THEN status[n]
    ELSE IF PastDeadline(n) THEN "timed_out"
    ELSE IF attempt[n] < maxAttempts[n] THEN "ready" ELSE "failed"

\* A faulty variant: the casualties of a timed out node are not propagated.
SweepWithoutReadiness ==
    /\ Stalled # {}
    /\ lease' = [n \in Node |-> IF n \in Stalled THEN 0 ELSE lease[n]]
    /\ leaseLeft' = [n \in Node |-> IF n \in Stalled THEN 0 ELSE leaseLeft[n]]
    /\ status' = [n \in Node |-> SweepStatus(n)]
    /\ UNCHANGED <<nodes, attempt, maxAttempts, deadlineLeft, because, work,
                   leaked, accepted>>
    /\ RefreshGraph({GraphOf[n] : n \in Stalled})

SweepStalledNodes ==
    /\ Stalled # {}
    /\ lease' = [n \in Node |-> IF n \in Stalled THEN 0 ELSE lease[n]]
    /\ leaseLeft' = [n \in Node |-> IF n \in Stalled THEN 0 ELSE leaseLeft[n]]
    /\ UNCHANGED <<nodes, attempt, maxAttempts, deadlineLeft, work, leaked, accepted>>
    /\ LET touched == {GraphOf[n] : n \in Stalled}
       IN  /\ SettleReadiness([n \in Node |-> SweepStatus(n)], nodes, touched)
           /\ RefreshGraph(touched)

\* A faulty variant: any settled node may be put back.
ReopenableSettled(n) ==
    status[n] \in Terminal /\ graphStatus[GraphOf[n]] # "cancelled"

Reopenable(n) ==
    status[n] \in {"failed", "timed_out"} /\ graphStatus[GraphOf[n]] # "cancelled"

\* An operator's retry or a resolved reconciliation.  One more attempt, the
\* direct casualties back to PENDING; the deadline stays where it was.
ReopenNode(n) ==
    /\ n \in nodes
    /\ Reopenable(n)
    /\ maxAttempts[n] < FirstMax[n] + MaxReopens[n]
    /\ maxAttempts' = [maxAttempts EXCEPT ![n] = @ + 1]
    /\ lease' = [lease EXCEPT ![n] = 0]
    /\ leaseLeft' = [leaseLeft EXCEPT ![n] = 0]
    /\ UNCHANGED <<nodes, attempt, deadlineLeft, work, leaked, accepted>>
    /\ LET g == GraphOf[n]
           revived == {m \in NodesOf(g, nodes) : status[m] = "skipped" /\ because[m] = n}
       IN  /\ SettleReadiness([m \in Node |-> IF m = n \/ m \in revived
                                              THEN "pending" ELSE status[m]],
                              nodes, {g})
           /\ RefreshGraph({g})

CancelGraph(g) ==
    LET open == {n \in NodesOf(g, nodes) : status[n] \in Unfinished}
    IN  /\ graphStatus[g] # "absent"
        /\ open # {}
        /\ status' = [n \in Node |-> IF n \in open THEN "cancelled" ELSE status[n]]
        /\ lease' = [n \in Node |-> IF n \in open THEN 0 ELSE lease[n]]
        /\ leaseLeft' = [n \in Node |-> IF n \in open THEN 0 ELSE leaseLeft[n]]
        /\ UNCHANGED <<nodes, attempt, maxAttempts, deadlineLeft, because, work,
                       leaked, accepted>>
        /\ RefreshGraph({g})

-----------------------------------------------------------------------------
(* Time *)

Countdown(t) == IF t > 0 THEN t - 1 ELSE t

Tick ==
    /\ leaseLeft' = [n \in Node |-> Countdown(leaseLeft[n])]
    /\ deadlineLeft' = [n \in Node |-> Countdown(deadlineLeft[n])]
    /\ UNCHANGED <<nodes, status, attempt, maxAttempts, lease, because,
                   graphStatus, work, leaked, accepted>>

-----------------------------------------------------------------------------

Init ==
    /\ nodes = {}
    /\ status = [n \in Node |-> "pending"]
    /\ attempt = [n \in Node |-> 0]
    /\ maxAttempts = FirstMax
    /\ lease = [n \in Node |-> 0]
    /\ leaseLeft = [n \in Node |-> 0]
    /\ deadlineLeft = [n \in Node |-> NoDeadline]
    /\ because = [n \in Node |-> n]
    /\ graphStatus = [g \in Graph |-> "absent"]
    /\ work = [w \in Worker |-> NoWork]
    /\ leaked = {}
    /\ accepted = {}

Planner == \E g \in Graph, S \in SUBSET Node : CreateTaskGraph(g, S) \/ ExpandGraph(g, S)

WorkerStep(w) ==
    \/ ClaimNextNode(w)
    \/ RenewNodeLease(w)
    \/ CompleteNode(w)
    \/ \E retryable \in BOOLEAN : FailNode(w, retryable)
    \/ ReportRefused(w)
    \/ WorkerCrash(w)
    \/ ExecutorThrows(w)

Operator == (\E n \in Node : ReopenNode(n)) \/ (\E g \in Graph : CancelGraph(g))

Next ==
    \/ Planner
    \/ \E w \in Worker : WorkerStep(w)
    \/ SweepStalledNodes
    \/ Operator
    \/ Tick

Spec == Init /\ [][Next]_vars
-----------------------------------------------------------------------------
(* Safety *)

\* The types of the stored rows and of what the workers remember.
TypeOK ==
    /\ nodes \subseteq Node
    /\ status \in [Node -> NodeStatus]
    /\ attempt \in [Node -> Nat]
    /\ maxAttempts \in [Node -> Nat]
    /\ lease \in [Node -> Nat]
    /\ leaseLeft \in [Node -> 0..LeaseLength]
    /\ deadlineLeft \in [Node -> Nat \cup {NoDeadline}]
    /\ because \in [Node -> Node]
    /\ graphStatus \in [Graph -> GraphStatus \cup {"absent"}]
    /\ work \in [Worker -> [node : Node, lease : Nat] \cup {NoWork}]
    /\ leaked \subseteq Worker \X [node : Node, lease : Nat]
    /\ accepted \subseteq Node \X Nat

\* Work never runs, nor has run to success, ahead of the work it depends on:
\* no interleaving of claims, late reports, sweeps, reopens and expansions puts
\* a node of the normal mode at READY or beyond while a dependency of it is
\* anything but SUCCEEDED (applyReadiness, claimableNodes).
RunsAfterDependencies ==
    \A n \in nodes \ Settles :
        status[n] \in {"ready", "running", "succeeded"} =>
            \A d \in DependsOn[n] : d \in nodes /\ status[d] = "succeeded"

\* Something of the graph of n was cancelled.
CancelledIn(n) == \E m \in nodes : GraphOf[m] = GraphOf[n] /\ status[m] = "cancelled"

\* No node hangs: between two transactions no stored node is left PENDING behind
\* a dead dependency or with nothing left to wait for, nor READY behind a dead
\* dependency.  A node of the settled mode may be left READY so where part of
\* its graph was cancelled, and nowhere else.  Every operation that moves a
\* status must have propagated it (applyReadiness is called by some operations,
\* skipped by claim, retry and cancel).
NothingStranded ==
    \A n \in nodes :
        /\ status[n] = "pending" => ~Satisfied(status, n) /\ Causes(status, n) = {}
        /\ status[n] = "ready" /\ Causes(status, n) # {} => n \in Settles /\ CancelledIn(n)

\* claimNextNode raises the attempt without looking at maxAttempts: whatever
\* made a node claimable must have left it an attempt, or the ceiling breaks.
AttemptsWithinCeiling ==
    \A n \in Node :
        /\ attempt[n] <= maxAttempts[n]
        /\ status[n] \in {"pending", "ready"} => attempt[n] < maxAttempts[n]

\* Exactly one worker may report on a running node: a claim a worker remembers
\* was issued before, two workers never remember the same one, and a running
\* node runs under the last claim issued.
OneOwner ==
    /\ \A w \in Worker : work[w] # NoWork =>
          /\ work[w].lease \in 1..attempt[work[w].node]
          /\ \A v \in Worker : v # w => work[v] # work[w]
    /\ \A n \in Node : status[n] = "running" => lease[n] = attempt[n]

\* A node's result is accepted at most once, whatever stale workers report, and
\* exactly the nodes with an accepted result are SUCCEEDED (completeNode).
AtMostOneSuccess ==
    /\ \A p, q \in accepted : p[1] = q[1] => p = q
    /\ \A n \in Node : status[n] = "succeeded" <=> \E p \in accepted : p[1] = n

-----------------------------------------------------------------------------
(* Action properties *)

\* What a settled node may still become: a success or a cancellation never
\* changes, and the rest come back to life only in a graph not cancelled
\* (late reports, sweeps and expansions against reopenNode).
SettledIsFinal ==
    [][\A n \in Node :
          status[n] \in Terminal /\ status'[n] # status[n] =>
              /\ status[n] \in {"failed", "timed_out", "skipped"}
              /\ status'[n] \in {"pending", "ready", "skipped"}
              /\ graphStatus[GraphOf[n]] # "cancelled"]_vars

-----------------------------------------------------------------------------
(* Liveness *)

\* The worker loop claims whenever it can, and an executor's promise settles;
\* the sweep and the clock run for ever.  Nobody has to renew, retry, reopen,
\* plan or cancel.
Fairness ==
    /\ \A w \in Worker :
          /\ WF_vars(ClaimNextNode(w))
          /\ WF_vars(CompleteNode(w) \/ \E r \in BOOLEAN : FailNode(w, r))
          /\ WF_vars(ReportRefused(w))
    /\ WF_vars(SweepStalledNodes)
    /\ WF_vars(Tick)

FairSpec == Spec /\ Fairness

\* Every stored node settles: crashes, lost leases and retries included, no node
\* is pending, ready or running for ever.  It needs every executor to reach its
\* finish(): with MaxLeaks = 0 it holds, with a leaked timer it does not.
EveryNodeSettles ==
    \A n \in Node : n \in nodes ~> status[n] \in Terminal
=============================================================================
