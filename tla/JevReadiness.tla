----------------------------- MODULE JevReadiness -----------------------------
(***************************************************************************)
(* The two loops of src/src/jev-domain.js as they run, one iteration a     *)
(* step, over every small graph: Kahn's peeling in assertAcyclic and the   *)
(* `while (moved)` passes of applyReadiness.  Their results are compared   *)
(* with the closed forms of JevDomain that the other modules use.          *)
(***************************************************************************)
EXTENDS Naturals, FiniteSets

CONSTANTS Key,          \* 1..n: the keys of the graph, in list order
          StartStatus   \* the statuses a stored node may have when a pass starts

\* assertGraphShape refuses an empty list.
ASSUME LoopAssumption == IsFiniteSet(Key) /\ Key = 1..Cardinality(Key) /\ Key # {}

VARIABLES
    deps,     \* the graph: dependsOn of each key
    settles,  \* the keys whose dependsOnMode is "settled"
    start,    \* the statuses the pass was handed
    status,   \* node.status while the pass runs
    because,  \* node.skippedBecause, 0 while null
    indegree, \* Kahn: the dependencies of a key not peeled yet
    peeled,   \* Kahn: the keys shifted off the queue
    at,       \* the key the for loop looks at next
    moved,    \* the flag of the outer loop
    pc

loopVars == <<deps, settles, start, status, because, indegree, peeled, at, moved, pc>>

D == INSTANCE JevDomain WITH
        Node <- Key, DependsOn <- deps, Settles <- settles, Expands <- {}

LastKey == Cardinality(Key)

LoopInit ==
    /\ deps \in [Key -> SUBSET Key]
    /\ \A k \in Key : k \notin deps[k]
    /\ settles \in SUBSET Key
    /\ start \in [Key -> StartStatus]
    /\ status = start
    /\ because = [k \in Key |-> 0]
    /\ indegree = [k \in Key |-> Cardinality(deps[k])]
    /\ peeled = {}
    /\ at = 1
    /\ moved = TRUE
    /\ pc = "kahn"

-----------------------------------------------------------------------------
(* assertAcyclic *)

Queue == {k \in Key \ peeled : indegree[k] = 0}

\* The indegrees once k is peeled: its dependents wait for one key less.
Decremented(k) ==
    [n \in Key |-> IF k \in deps[n] THEN indegree[n] - 1 ELSE indegree[n]]

\* queue.shift(); the queue is sorted, so the least key goes first.
PeelKey ==
    /\ pc = "kahn"
    /\ \E k \in Queue :
        /\ \A other \in Queue : k <= other
        /\ peeled' = peeled \cup {k}
        /\ indegree' = Decremented(k)
    /\ UNCHANGED <<deps, settles, start, status, because, at, moved, pc>>

\* The queue ran dry: a graph not wholly peeled is refused.
KahnEnds ==
    /\ pc = "kahn"
    /\ Queue = {}
    /\ pc' = IF peeled = Key THEN "pass" ELSE "refused"
    /\ UNCHANGED <<deps, settles, start, status, because, indegree, peeled, at, moved>>

-----------------------------------------------------------------------------
(* applyReadiness *)

\* while (moved): start another pass, or return.
NextPass ==
    /\ pc = "pass"
    /\ IF moved THEN moved' = FALSE /\ at' = 1 /\ pc' = "node"
                ELSE pc' = "done" /\ UNCHANGED <<moved, at>>
    /\ UNCHANGED <<deps, settles, start, status, because, indegree, peeled>>

Undecided(k) == status[k] \in {"pending", "ready"}

\* A faulty variant: a pass that does not note what it skipped.
SkipKeyOnce(k) ==
    /\ Undecided(k)
    /\ status' = [status EXCEPT ![k] = "skipped"]
    /\ \E d \in D!Causes(status, k) : because' = [because EXCEPT ![k] = d]
    /\ UNCHANGED moved

\* `if (doomed)`: the key dies of one of its dependencies.
SkipKey(k) ==
    /\ Undecided(k)
    /\ status' = [status EXCEPT ![k] = "skipped"]
    /\ \E d \in D!Causes(status, k) : because' = [because EXCEPT ![k] = d]
    /\ moved' = TRUE

\* `if (satisfied && ...)`: nothing left to wait for.
OpenKey(k) ==
    /\ status[k] = "pending"
    /\ D!Causes(status, k) = {}
    /\ D!Satisfied(status, k)
    /\ status' = [status EXCEPT ![k] = "ready"]
    /\ moved' = TRUE
    /\ UNCHANGED because

LeaveKey(k) ==
    /\ \/ ~Undecided(k)
       \/ D!Causes(status, k) = {} /\ ~(status[k] = "pending" /\ D!Satisfied(status, k))
    /\ UNCHANGED <<status, because, moved>>

ToNextKey ==
    IF at = LastKey THEN pc' = "pass" /\ UNCHANGED at
                    ELSE at' = at + 1 /\ UNCHANGED pc

\* One iteration of `for (const node of nodes)`.
VisitNode ==
    /\ pc = "node"
    /\ SkipKey(at) \/ OpenKey(at) \/ LeaveKey(at)
    /\ ToNextKey
    /\ UNCHANGED <<deps, settles, start, indegree, peeled>>

LoopNext == PeelKey \/ KahnEnds \/ NextPass \/ VisitNode

LoopSpec == LoopInit /\ [][LoopNext]_loopVars

-----------------------------------------------------------------------------
(* Properties *)

\* applyReadiness ends in the closed form the rest of the project uses: the
\* least set of casualties, and READY for every satisfied survivor, however
\* the planner ordered the list.
PassesReachClosedForm == pc = "done" => status = D!Readiness(start, Key)
=============================================================================
