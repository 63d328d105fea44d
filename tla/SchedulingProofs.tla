--------------------------- MODULE SchedulingProofs ---------------------------
(***************************************************************************)
(* Theorems about what runs when: the graph a list of steps becomes        *)
(* (JevPlanner), the loops that decide which of its nodes may run          *)
(* (JevReadiness), and the jobs, leases and workers of JobQueue; for any   *)
(* list, graph and statuses, and any number of jobs, owners and workers.   *)
(***************************************************************************)
EXTENDS JobQueue, JevPlanner, JevReadiness, FiniteSetTheorems, TLAPS

-----------------------------------------------------------------------------
(* JevPlanner: the list a graph was made of                                 *)

\* Writes whose paths interfere, as the planner compares them.
Collide(s, r) == s.kind \in Written /\ r.kind \in Written /\ Interferes(pathOfStep(s), pathOfStep(r))

\* A step that needs all waits for every step before it, a write for the barriers and the
\* colliding writes before it, itself or through a barrier between them.
WaitsForEarlier(n) ==
    /\ steps[n].kind \in WaitsForAll => 1..(n - 1) \subseteq nodeDeps[n]
    /\ \A m \in 1..(n - 1) :
          steps[m].kind = "barrier" \/ Collide(steps[m], steps[n]) =>
             \/ m \in nodeDeps[n]
             \/ \E c \in (m + 1)..(n - 1) : c \in nodeDeps[n] /\ steps[c].kind = "barrier"

\* What the loop knows of the steps it has read.
PlannerInv ==
    /\ steps \in Seq(PlanStep) /\ nodeDeps \in Seq(SUBSET Nat) /\ Len(nodeDeps) = Len(steps)
    /\ lastBarrier \in {0} \cup DOMAIN steps
    /\ lastBarrier # 0 => steps[lastBarrier].kind = "barrier"
    /\ writes \subseteq DOMAIN steps
    /\ \A m \in DOMAIN steps :
          /\ steps[m].kind = "barrier" => m <= lastBarrier
          /\ steps[m].kind \in Written => m \in writes \/ m < lastBarrier
    /\ \A n \in DOMAIN steps : steps[n].declared = Derived => WaitsForEarlier(n)

LEMMA StepKinds ==
    \A s \in PlanStep :
        /\ s.kind \in WaitsForAll \/ (s.kind \in Written /\ s.path \in Spelling)
        /\ s.kind \in Written => s.kind \notin WaitsForAll
BY DEF PlanStep, WaitsForAll, Written

LEMMA DependenciesAreKeys ==
    ASSUME PlannerInv, NEW step \in PlanStep
    PROVE  DependenciesOf(step) \in SUBSET Nat
<1>1. step.declared # Derived => step.declared \in SUBSET Nat
  BY DEF PlanStep, Declaration, StepKey
<1>2. DOMAIN steps \subseteq Nat /\ lastBarrier \in Nat /\ writes \subseteq Nat
  BY DEF PlannerInv
<1> QED BY <1>1, <1>2 DEF DependenciesOf

\* The next step waits as it should.
LEMMA NextStepWaits ==
    ASSUME PlannerInv, NEW step \in PlanStep, step.declared = Derived
    PROVE  LET D1 == DependenciesOf(step)
           IN  /\ step.kind \in WaitsForAll => 1..Len(steps) \subseteq D1
               /\ \A m \in 1..Len(steps) :
                     steps[m].kind = "barrier" \/ Collide(steps[m], step) =>
                        \/ m \in D1
                        \/ \E c \in (m + 1)..Len(steps) : c \in D1 /\ steps[c].kind = "barrier"
<1>1. DOMAIN steps = 1..Len(steps) /\ Len(steps) \in Nat
  BY DEF PlannerInv
<1>2. CASE step.kind \in WaitsForAll
  BY <1>1, <1>2 DEF DependenciesOf
<1>3. CASE step.kind \notin WaitsForAll
  <2> DEFINE D1 == DependenciesOf(step)
  <2>1. D1 = ({lastBarrier} \ {0}) \cup {w \in writes : Interferes(pathOfStep(steps[w]), pathOfStep(step))}
    BY <1>3 DEF DependenciesOf
  <2>2. ASSUME NEW m \in 1..Len(steps), steps[m].kind = "barrier" \/ Collide(steps[m], step)
        PROVE  \/ m \in D1
               \/ \E c \in (m + 1)..Len(steps) : c \in D1 /\ steps[c].kind = "barrier"
    <3>1. m <= lastBarrier \/ (m \in writes /\ Collide(steps[m], step))
      BY <1>1, <2>2 DEF PlannerInv, Collide
    <3>2. CASE m \in writes /\ Collide(steps[m], step)
      BY <2>1, <3>2 DEF Collide
    <3>3. CASE m <= lastBarrier
      <4>1. lastBarrier \in 1..Len(steps) /\ steps[lastBarrier].kind = "barrier"
        BY <1>1, <3>3 DEF PlannerInv
      <4>2. lastBarrier \in D1
        BY <2>1, <4>1
      <4> HIDE DEF D1
      <4> QED BY <1>1, <3>3, <4>1, <4>2
    <3> QED BY <1>1, <3>1, <3>2, <3>3 DEF PlannerInv
  <2> QED BY <1>3, <2>2
<1> QED BY <1>2, <1>3

LEMMA PlannerStep == ASSUME PlannerInv, [PlannerNext]_plannerVars PROVE PlannerInv'
<1>1. ASSUME UNCHANGED <<steps, nodeDeps, lastBarrier, writes>> PROVE PlannerInv'
  BY <1>1 DEF PlannerInv, WaitsForEarlier
<1>2. CASE ConvertStep
  <2> DEFINE n == Len(steps) + 1
  <2>1. PICK step \in PlanStep :
           /\ steps' = Append(steps, step)
           /\ nodeDeps' = Append(nodeDeps, DependenciesOf(step))
           /\ lastBarrier' = IF step.kind = "barrier" THEN n ELSE lastBarrier
           /\ writes' = CASE step.kind = "barrier" -> {}
                          [] step.kind \in Written -> writes \cup {n}
                          [] OTHER                 -> writes
    BY <1>2 DEF ConvertStep
  <2>0. /\ step.kind = "barrier" => lastBarrier' = n /\ writes' = {}
        /\ step.kind # "barrier" => lastBarrier' = lastBarrier
        /\ step.kind \in Written => writes' = writes \cup {n} /\ step.kind # "barrier"
        /\ step.kind \notin Written /\ step.kind # "barrier" => writes' = writes
    BY <2>1 DEF Written
  <2> DEFINE D1 == DependenciesOf(step)
  <2>2. D1 \in SUBSET Nat
    BY DependenciesAreKeys
  <2>3. step.declared = Derived =>
           /\ step.kind \in WaitsForAll => 1..(n - 1) \subseteq D1
           /\ \A m \in 1..(n - 1) :
                 steps[m].kind = "barrier" \/ Collide(steps[m], step) =>
                    \/ m \in D1
                    \/ \E c \in (m + 1)..(n - 1) : c \in D1 /\ steps[c].kind = "barrier"
    <3>1. n - 1 = Len(steps)
      BY DEF PlannerInv
    <3> QED BY <3>1, NextStepWaits
  <2> HIDE DEF D1
  <2>4. /\ n \in Nat /\ n # 0 /\ DOMAIN steps = 1..(n - 1) /\ DOMAIN steps' = 1..n
        /\ steps' \in Seq(PlanStep) /\ nodeDeps' \in Seq(SUBSET Nat) /\ Len(nodeDeps') = Len(steps')
        /\ steps'[n] = step /\ nodeDeps'[n] = D1
        /\ \A m \in 1..(n - 1) : steps'[m] = steps[m] /\ nodeDeps'[m] = nodeDeps[m]
    BY <2>1, <2>2 DEF PlannerInv, D1
  <2> HIDE DEF n
  <2>5. /\ lastBarrier' \in {0} \cup DOMAIN steps' /\ writes' \subseteq DOMAIN steps'
        /\ lastBarrier' # 0 => steps'[lastBarrier'].kind = "barrier"
    BY <2>0, <2>4 DEF PlannerInv
  <2>6. \A m \in DOMAIN steps' :
          /\ steps'[m].kind = "barrier" => m <= lastBarrier'
          /\ steps'[m].kind \in Written => m \in writes' \/ m < lastBarrier'
    BY <2>0, <2>4 DEF PlannerInv
  <2>7. ASSUME NEW k \in DOMAIN steps', steps'[k].declared = Derived
        PROVE  WaitsForEarlier(k)'
    <3>1. CASE k = n
      BY <2>3, <2>4, <2>7, <3>1 DEF WaitsForEarlier
    <3>2. CASE k # n
      <4>1. k \in DOMAIN steps /\ k \in 1..(n - 1) /\ WaitsForEarlier(k)
        BY <2>4, <2>7, <3>2 DEF PlannerInv
      <4>2. \A m \in 1..k : steps'[m] = steps[m] /\ nodeDeps'[m] = nodeDeps[m]
        BY <2>4, <4>1
      <4>3. k \in Nat /\ k \in 1..k /\ \A m \in 1..(k - 1) : m \in 1..k /\ (m + 1)..(k - 1) \subseteq 1..k
        BY <2>4, <4>1
      <4> QED BY <4>1, <4>2, <4>3 DEF WaitsForEarlier
    <3> QED BY <3>1, <3>2
  <2> QED BY <2>4, <2>5, <2>6, <2>7 DEF PlannerInv
<1> QED BY <1>1, <1>2 DEF PlannerNext, CheckShape, plannerVars

\* Paths that touch interfere: directories above one path are above each other.
LEMMA TouchingPathsInterfere ==
    ASSUME NEW p \in Name, NEW q \in Name, Below(p) \cap Below(q) # {}
    PROVE  Interferes(p, q)
<1>1. PICK r : r \in Below(p) /\ r \in Below(q)
  OBVIOUS
<1>2. r \in Name /\ (r = p \/ <<p, r>> \in Under) /\ (r = q \/ <<q, r>> \in Under)
  BY <1>1 DEF Below
<1> QED BY <1>2, PlannerAssumption DEF PlannerAssumption, Interferes

LEMMA KeptInOrder == PlannerInv => ListOrderIsKept
<1> SUFFICES ASSUME PlannerInv, NEW n \in DOMAIN steps, NEW m \in 1..(n - 1),
                    \A k \in (m + 1)..n : steps[k].declared = Derived,
                    MaySee(m, n), ~Overlooked(m, n)
             PROVE  RunsBefore(m, n)
  BY DEF ListOrderIsKept
<1>1. n \in Nat /\ m \in Nat /\ n \in (m + 1)..n /\ m \in DOMAIN steps /\ \A k \in (m + 1)..n : k \in DOMAIN steps
  BY DEF PlannerInv
<1>2. \A k \in (m + 1)..n : WaitsForEarlier(k)
  BY <1>1 DEF PlannerInv
<1>3. steps[m] \in PlanStep /\ steps[n] \in PlanStep
  BY <1>1 DEF PlannerInv
<1>4. ASSUME NEW c \in (m + 1)..(n - 1), steps[c].kind = "barrier"
      PROVE  m \in nodeDeps[c]
  <2>1. c \in (m + 1)..n /\ m \in 1..(c - 1) /\ steps[c].kind \in WaitsForAll
    BY <1>1, <1>4 DEF WaitsForAll
  <2> QED BY <1>2, <2>1 DEF WaitsForEarlier
<1>5. m \in nodeDeps[n] \/ \E c \in (m + 1)..(n - 1) : c \in nodeDeps[n] /\ steps[c].kind = "barrier"
  <2>1. CASE steps[n].kind \in WaitsForAll
    BY <1>1, <1>2, <2>1 DEF WaitsForEarlier
  <2>2. CASE steps[m].kind = "barrier"
    BY <1>1, <1>2, <2>2 DEF WaitsForEarlier
  <2>3. CASE BarrierBetween(m, n)
    <3>1. PICK b \in (m + 1)..(n - 1) : steps[b].kind = "barrier"
      BY <2>3 DEF BarrierBetween
    <3>2. b \in 1..(n - 1) /\ \A c \in (b + 1)..(n - 1) : c \in (m + 1)..(n - 1)
      BY <1>1
    <3>3. b \in nodeDeps[n] \/ \E c \in (b + 1)..(n - 1) : c \in nodeDeps[n] /\ steps[c].kind = "barrier"
      BY <1>1, <1>2, <3>1, <3>2 DEF WaitsForEarlier
    <3> QED BY <3>1, <3>2, <3>3
  <2>4. CASE steps[n].kind \notin WaitsForAll /\ steps[m].kind # "barrier" /\ ~BarrierBetween(m, n)
    <3>1. steps[n].kind \in Written /\ steps[n].kind # "barrier"
      BY <1>3, <2>4, StepKinds DEF WaitsForAll
    <3>2. /\ steps[m].kind # "unknown" /\ Plain(steps[m]) /\ Plain(steps[n])
          /\ Writes(steps[m]) \cap Writes(steps[n]) # {}
      BY <2>4, <3>1 DEF Overlooked
    <3>3. steps[m].kind \in Written
      BY <1>3, <2>4, <3>2, StepKinds DEF WaitsForAll
    <3>4. Resolved[steps[m].path] \in Name /\ Resolved[steps[n].path] \in Name
      <4>1. steps[m].path \in Spelling /\ steps[n].path \in Spelling
        BY <1>3, <3>1, <3>3, StepKinds
      <4> QED BY <4>1, PlannerAssumption DEF PlannerAssumption
    <3>5. Interferes(pathOfStep(steps[m]), pathOfStep(steps[n]))
      BY <3>2, <3>4, TouchingPathsInterfere DEF Plain, Writes
    <3> QED BY <1>1, <1>2, <3>1, <3>3, <3>5 DEF WaitsForEarlier, Collide
  <2> QED BY <2>1, <2>2, <2>3, <2>4
<1> QED BY <1>4, <1>5 DEF RunsBefore

\* Whatever the list and however many barriers stand between them, of two steps
\* one of which may observe the other the earlier one runs first, unless a step
\* that declares its own dependencies stands between them or, with no barrier in
\* between, it is one of the three things the planner overlooks, what a copy
\* reads above all (graphFromExecutionPlan).
THEOREM ListsKeepTheirOrder == PlannerSpec => []ListOrderIsKept
<1>1. PlannerInit => PlannerInv
  BY DEF PlannerInit, PlannerInv
<1>2. PlannerInv /\ [PlannerNext]_plannerVars => PlannerInv'
  BY PlannerStep
<1>3. PlannerInv => ListOrderIsKept
  BY KeptInOrder
<1> QED BY <1>1, <1>2, <1>3, PTL DEF PlannerSpec

-----------------------------------------------------------------------------
(* JevReadiness: Kahn's peeling                                             *)

\* A key is peeled after everything it depends on.
PeelingInv ==
    /\ deps \in [Key -> SUBSET Key] /\ peeled \subseteq Key
    /\ indegree = [k \in Key |-> Cardinality(deps[k] \ peeled)]
    /\ \A S \in SUBSET Key : S \cap peeled # {} => \E n \in S \cap peeled : deps[n] \cap S = {}
    /\ pc \in {"pass", "node", "done"} => peeled = Key
    /\ pc = "refused" => peeled # Key /\ Queue = {}

\* assertAcyclic lets exactly the graphs without a cycle pass.
KahnDecides ==
    /\ pc \in {"pass", "node", "done"} => D!Acyclic(Key)
    /\ pc = "refused" => ~D!Acyclic(Key)

LEMMA WaitingCounts ==
    ASSUME NEW S \in SUBSET Key
    PROVE  /\ IsFiniteSet(S) /\ Cardinality(S) \in Nat /\ (Cardinality(S) = 0 <=> S = {})
           /\ \A k \in S : Cardinality(S \ {k}) = Cardinality(S) - 1
<1>1. IsFiniteSet(S)
  BY LoopAssumption, FS_Subset DEF LoopAssumption
<1> QED BY <1>1, FS_CardinalityType, FS_EmptySet, FS_RemoveElement

LEMMA PeelingStep == ASSUME PeelingInv, [LoopNext]_loopVars PROVE PeelingInv'
<1>1. CASE UNCHANGED <<deps, peeled, indegree>> /\ (pc' = pc \/ (pc \in {"pass", "node", "done"} /\ pc' \in {"pass", "node", "done"}))
  <2>1. Queue' = Queue
    BY <1>1 DEF Queue
  <2> QED BY <1>1, <2>1 DEF PeelingInv
<1>2. CASE KahnEnds
  <2>1. UNCHANGED <<deps, peeled, indegree>> /\ pc' = (IF peeled = Key THEN "pass" ELSE "refused") /\ Queue = {}
    BY <1>2 DEF KahnEnds
  <2>2. Queue' = {}
    BY <2>1 DEF Queue
  <2> QED BY <2>1, <2>2 DEF PeelingInv
<1>3. CASE PeelKey
  <2>1. PICK k \in Queue : peeled' = peeled \cup {k} /\ indegree' = Decremented(k)
    BY <1>3 DEF PeelKey
  <2>2. deps' = deps /\ pc' = pc /\ pc = "kahn" /\ k \in Key /\ k \notin peeled
    BY <1>3, <2>1 DEF PeelKey, Queue
  <2>3. deps[k] \subseteq peeled
    <3>1. deps[k] \ peeled \in SUBSET Key /\ Cardinality(deps[k] \ peeled) = 0
      BY <2>1, <2>2 DEF PeelingInv, Queue
    <3> QED BY <3>1, WaitingCounts
  <2>4. \A n \in Key : indegree'[n] = Cardinality(deps'[n] \ peeled')
    <3> SUFFICES ASSUME NEW n \in Key PROVE indegree'[n] = Cardinality(deps'[n] \ peeled')
      OBVIOUS
    <3>1. indegree[n] = Cardinality(deps[n] \ peeled) /\ deps[n] \ peeled \in SUBSET Key
      BY DEF PeelingInv
    <3>2. indegree'[n] = IF k \in deps[n] THEN indegree[n] - 1 ELSE indegree[n]
      BY <2>1 DEF Decremented
    <3>3. deps'[n] \ peeled' = (deps[n] \ peeled) \ {k}
      BY <2>1, <2>2
    <3>4. CASE k \in deps[n]
      BY <2>2, <3>1, <3>2, <3>3, <3>4, WaitingCounts
    <3>5. CASE k \notin deps[n]
      <4>1. (deps[n] \ peeled) \ {k} = deps[n] \ peeled
        BY <3>5
      <4> QED BY <3>1, <3>2, <3>3, <3>5, <4>1
    <3> QED BY <3>4, <3>5
  <2>5. indegree' = [n \in Key |-> Cardinality(deps'[n] \ peeled')]
    BY <2>1, <2>4 DEF Decremented
  <2>6. ASSUME NEW S \in SUBSET Key, S \cap peeled' # {}
        PROVE  \E n \in S \cap peeled' : deps[n] \cap S = {}
    <3>1. CASE S \cap peeled # {}
      BY <2>1, <3>1 DEF PeelingInv
    <3>2. CASE S \cap peeled = {}
      BY <2>1, <2>3, <2>6, <3>2
    <3> QED BY <3>1, <3>2
  <2> QED BY <2>1, <2>2, <2>5, <2>6 DEF PeelingInv
<1> QED BY <1>1, <1>2, <1>3 DEF LoopNext, loopVars, NextPass, VisitNode, ToNextKey

\* Kahn's peeling of the sorted queue lets a graph pass if and only if it has no
\* cycle, in the form the other modules use (assertAcyclic).
THEOREM PeelingDecides == LoopSpec => []KahnDecides
<1>1. LoopInit => PeelingInv
  <2> SUFFICES ASSUME LoopInit PROVE PeelingInv
    OBVIOUS
  <2>1. \A k \in Key : deps[k] \ {} = deps[k]
    OBVIOUS
  <2> QED BY <2>1 DEF LoopInit, PeelingInv
<1>2. PeelingInv /\ [LoopNext]_loopVars => PeelingInv'
  BY PeelingStep
<1>3. PeelingInv => KahnDecides
  <2> SUFFICES ASSUME PeelingInv PROVE KahnDecides
    OBVIOUS
  <2>1. ASSUME peeled = Key PROVE D!Acyclic(Key)
    BY <2>1 DEF PeelingInv, D!Acyclic
  <2>2. ASSUME peeled # Key, Queue = {} PROVE ~D!Acyclic(Key)
    <3> DEFINE S == Key \ peeled
    <3>1. S \in SUBSET Key /\ S # {}
      BY <2>2 DEF PeelingInv
    <3>2. ASSUME NEW n \in S PROVE deps[n] \cap S # {}
      <4>1. Cardinality(deps[n] \ peeled) # 0 /\ deps[n] \ peeled \in SUBSET Key
        BY <2>2 DEF PeelingInv, Queue
      <4> QED BY <4>1, WaitingCounts
    <3> QED BY <3>1, <3>2 DEF D!Acyclic
  <2> QED BY <2>1, <2>2 DEF PeelingInv, KahnDecides
<1> QED BY <1>1, <1>2, <1>3, PTL DEF LoopSpec

-----------------------------------------------------------------------------
(* JevReadiness: the passes of applyReadiness                               *)

OpenAtFirst(k) == start[k] \in {"pending", "ready"}

\* What became of a key: nothing, it was skipped, or it was opened.
Became(k) ==
    \/ status[k] = start[k]
    \/ OpenAtFirst(k) /\ status[k] = "skipped" /\ k \in D!SkipSet(start, Key)
    \/ start[k] = "pending" /\ status[k] = "ready" /\ D!Satisfied(status, k)

\* A visit would leave the key.
AtRest(k) ==
    \/ ~Undecided(k)
    \/ D!Causes(status, k) = {} /\ ~(status[k] = "pending" /\ D!Satisfied(status, k))

PassInv ==
    /\ deps \in [Key -> SUBSET Key] /\ start \in [Key -> StartStatus]
    /\ status = [k \in Key |-> status[k]]
    /\ \A k \in Key : Became(k)
    /\ pc = "kahn" => moved
    /\ pc = "node" => at \in Key /\ (moved \/ \A k \in Key : k < at => AtRest(k))
    /\ pc = "pass" => moved \/ \A k \in Key : AtRest(k)
    /\ pc = "done" => \A k \in Key : AtRest(k)
    /\ moved \in BOOLEAN

\* Writing an undecided key takes nothing from another that is satisfied.
LEMMA SatisfiedStays ==
    ASSUME PassInv, NEW j \in Key, Undecided(j), NEW s, status' = [status EXCEPT ![j] = s],
           UNCHANGED <<deps, settles>>, NEW k \in Key, D!Satisfied(status, k)
    PROVE  D!Satisfied(status', k)
<1>1. deps[k] \subseteq Key /\ \A d \in Key : status'[d] = IF d = j THEN s ELSE status[d]
  BY DEF PassInv
<1> QED BY <1>1 DEF D!Satisfied, D!Terminal, Undecided

\* A key is skipped only if it is in the least set of casualties.
LEMMA SkippedIsCasualty ==
    ASSUME PassInv, NEW j \in Key, Undecided(j), NEW d \in D!Causes(status, j)
    PROVE  OpenAtFirst(j) /\ j \in D!SkipSet(start, Key)
<1>1. OpenAtFirst(j)
  BY DEF PassInv, Became, Undecided, OpenAtFirst
<1>2. d \in deps[j] /\ d \in Key /\ status[d] \in D!DoomsIt(j)
  BY DEF PassInv, D!Causes
<1>3. j \in D!Open(start, Key)
  BY <1>1 DEF OpenAtFirst, D!Open
<1>4. ASSUME NEW S \in SUBSET D!Open(start, Key), D!DoomClosed(start, Key, S)
      PROVE  j \in S
  <2>1. start[d] \in D!DoomsIt(j) \/ d \in S
    <3>1. CASE status[d] = start[d]
      BY <1>2, <3>1
    <3>2. CASE d \in D!SkipSet(start, Key)
      BY <1>4, <3>2 DEF D!SkipSet
    <3>3. CASE status[d] = "ready"
      BY <1>2, <3>3 DEF D!DoomsIt, D!DOOMED, D!Terminal
    <3> QED BY <1>2, <3>1, <3>2, <3>3 DEF PassInv, Became
  <2> QED BY <1>2, <1>3, <1>4, <2>1 DEF D!DoomClosed
<1> QED BY <1>1, <1>3, <1>4 DEF D!SkipSet

LEMMA VisitKeeps ==
    ASSUME PassInv, pc = "node", NEW s, s \in {"skipped", "ready"},
           Undecided(at), status' = [status EXCEPT ![at] = s], UNCHANGED <<deps, settles, start>>,
           \/ s = "skipped" /\ OpenAtFirst(at) /\ at \in D!SkipSet(start, Key)
           \/ s = "ready" /\ status[at] = "pending" /\ D!Satisfied(status, at)
    PROVE  status' = [k \in Key |-> status'[k]] /\ \A k \in Key : Became(k)'
<1>1. at \in Key /\ status' = [k \in Key |-> status'[k]]
      /\ \A k \in Key : status'[k] = IF k = at THEN s ELSE status[k]
  BY DEF PassInv
<1>2. (D!SkipSet(start, Key))' = D!SkipSet(start, Key)
  BY DEF D!SkipSet, D!Open, D!DoomClosed, D!DoomsIt
<1>3. \A k \in Key : D!Satisfied(status, k) => D!Satisfied(status, k)'
  <2>1. \A k \in Key : D!Satisfied(status, k) => D!Satisfied(status', k)
    BY <1>1, SatisfiedStays
  <2> QED BY <2>1 DEF D!Satisfied
<1>4. \A k \in Key : Became(k)
  BY DEF PassInv
<1>5. ASSUME NEW k \in Key, k # at PROVE Became(k)'
  BY <1>1, <1>2, <1>3, <1>4, <1>5 DEF Became, OpenAtFirst
<1>6. ASSUME NEW k \in Key, k = at PROVE Became(k)'
  <2>1. status[k] = "pending" => start[k] = "pending"
    BY <1>4 DEF Became
  <2>2. s = "ready" => D!Satisfied(status, k)'
    BY <1>3, <1>6
  <2> QED BY <1>1, <1>2, <1>6, <2>1, <2>2 DEF Became, OpenAtFirst
<1> QED BY <1>1, <1>5, <1>6

LEMMA PassStep == ASSUME PassInv, [LoopNext]_loopVars PROVE PassInv'
<1>0. Key = 1..LastKey /\ LastKey \in Nat /\ LastKey # 0
  <2>1. IsFiniteSet(Key) /\ Key = 1..LastKey /\ Key # {}
    BY LoopAssumption DEF LoopAssumption, LastKey
  <2>2. LastKey \in Nat
    BY <2>1, FS_CardinalityType DEF LastKey
  <2> QED BY <2>1, <2>2
\* What a key became and where it rests depend on these alone.
<1>1. ASSUME UNCHANGED <<deps, settles, start, status>>
      PROVE  \A k \in Key : Became(k)' /\ (AtRest(k)' <=> AtRest(k))
  <2>1. \A k \in Key : Became(k) => Became(k)'
    BY <1>1 DEF Became, OpenAtFirst, D!SkipSet, D!Open, D!DoomClosed, D!DoomsIt, D!Satisfied
  <2>2. \A k \in Key : AtRest(k)' <=> AtRest(k)
    BY <1>1 DEF AtRest, Undecided, D!Causes, D!DoomsIt, D!Satisfied
  <2> QED BY <2>1, <2>2 DEF PassInv
<1>2. CASE PeelKey \/ KahnEnds
  <2>1. UNCHANGED <<deps, settles, start, status, at, moved>> /\ pc = "kahn" /\ pc' \in {"kahn", "pass", "refused"}
    BY <1>2 DEF PeelKey, KahnEnds
  <2> QED BY <1>1, <2>1 DEF PassInv
<1>3. CASE NextPass
  <2>1. UNCHANGED <<deps, settles, start, status>> /\ pc = "pass"
    BY <1>3 DEF NextPass
  <2>2. CASE moved
    <3>1. moved' = FALSE /\ at' = 1 /\ pc' = "node"
      BY <1>3, <2>2 DEF NextPass
    <3>2. 1 \in Key /\ \A k \in Key : ~(k < 1)
      BY <1>0
    <3> QED BY <1>1, <2>1, <3>1, <3>2 DEF PassInv
  <2>3. CASE ~moved
    <3>1. pc' = "done" /\ UNCHANGED moved
      BY <1>3, <2>3 DEF NextPass
    <3> QED BY <1>1, <2>1, <2>3, <3>1 DEF PassInv
  <2> QED BY <2>2, <2>3
<1>4. CASE VisitNode
  <2>1. /\ UNCHANGED <<deps, settles, start>> /\ pc = "node" /\ at \in Key
        /\ IF at = LastKey THEN pc' = "pass" /\ at' = at ELSE at' = at + 1 /\ pc' = pc
    BY <1>4 DEF VisitNode, ToNextKey, PassInv
  <2>2. pc' \in {"pass", "node"} /\ (pc' = "node" => at' \in Key /\ at' = at + 1)
    BY <1>0, <2>1
  <2>3. CASE SkipKey(at) \/ OpenKey(at)
    <3>1. moved'
      BY <2>3 DEF SkipKey, OpenKey
    <3>2. status' = [k \in Key |-> status'[k]] /\ \A k \in Key : Became(k)'
      <4>1. CASE SkipKey(at)
        <5>1. PICK d \in D!Causes(status, at) : Undecided(at) /\ status' = [status EXCEPT ![at] = "skipped"]
          BY <4>1 DEF SkipKey
        <5>2. OpenAtFirst(at) /\ at \in D!SkipSet(start, Key)
          BY <2>1, <5>1, SkippedIsCasualty
        <5> QED BY <2>1, <5>1, <5>2, VisitKeeps
      <4>2. CASE OpenKey(at)
        <5>1. /\ Undecided(at) /\ status' = [status EXCEPT ![at] = "ready"]
              /\ status[at] = "pending" /\ D!Satisfied(status, at)
          BY <4>2 DEF OpenKey, Undecided
        <5> QED BY <2>1, <5>1, VisitKeeps
      <4> QED BY <2>3, <4>1, <4>2
    <3>3. moved' = TRUE
      BY <2>3 DEF SkipKey, OpenKey
    <3> QED BY <2>1, <2>2, <3>2, <3>3 DEF PassInv
  <2>4. CASE LeaveKey(at)
    <3>1. UNCHANGED <<deps, settles, start, status, moved>> /\ AtRest(at)
      BY <2>1, <2>4 DEF LeaveKey, AtRest
    <3>2. ASSUME ~moved
          PROVE  /\ pc' = "node" => \A k \in Key : k < at' => AtRest(k)
                 /\ pc' = "pass" => \A k \in Key : AtRest(k)
      <4>1. \A k \in Key : k <= at => AtRest(k)
        BY <1>0, <2>1, <3>1, <3>2 DEF PassInv
      <4>2. /\ at' = at + 1 => \A k \in Key : k < at' => k <= at
            /\ at = LastKey => \A k \in Key : k <= at
        BY <1>0, <2>1
      <4> QED BY <2>1, <2>2, <4>1, <4>2
    <3>3. \A k \in Key : Became(k)' /\ (AtRest(k)' <=> AtRest(k))
      BY <1>1, <3>1
    <3>4. /\ pc' = "node" => moved' \/ \A k \in Key : k < at' => AtRest(k)'
          /\ pc' = "pass" => moved' \/ \A k \in Key : AtRest(k)'
      BY <3>1, <3>2, <3>3
    <3> QED BY <2>1, <2>2, <3>1, <3>3, <3>4 DEF PassInv
  <2> QED BY <1>4, <2>3, <2>4 DEF VisitNode
<1>5. CASE UNCHANGED loopVars
  <2>1. UNCHANGED <<deps, settles, start, status, at, moved, pc>>
    BY <1>5 DEF loopVars
  <2> QED BY <1>1, <2>1 DEF PassInv
<1> QED BY <1>2, <1>3, <1>4, <1>5 DEF LoopNext

\* Where every key rests, exactly the least set of casualties was skipped ...
LEMMA CasualtiesWereSkipped ==
    ASSUME PassInv, \A k \in Key : AtRest(k)
    PROVE  \A k \in Key : k \in D!SkipSet(start, Key) <=> OpenAtFirst(k) /\ status[k] = "skipped"
<1> DEFINE S == {k \in Key : OpenAtFirst(k) /\ status[k] = "skipped"}
<1>1. S \in SUBSET D!Open(start, Key)
  BY DEF D!Open, OpenAtFirst
<1>2. D!DoomClosed(start, Key, S)
  <2> SUFFICES ASSUME NEW n \in D!Open(start, Key), NEW d \in deps[n],
                      start[d] \in D!DoomsIt(n) \/ d \in S, n \notin S
               PROVE  FALSE
    BY DEF D!DoomClosed
  <2>1. n \in Key /\ OpenAtFirst(n) /\ d \in Key
    BY DEF D!Open, OpenAtFirst, PassInv
  <2>2. Undecided(n)
    <3>1. Became(n) /\ status[n] # "skipped"
      BY <2>1 DEF PassInv
    <3> QED BY <2>1, <3>1 DEF Became, OpenAtFirst, Undecided
  <2>3. status[d] \in D!DoomsIt(n)
    <3>1. CASE d \in S
      BY <3>1 DEF D!DoomsIt, D!DOOMED, D!Terminal
    <3>2. CASE start[d] \in D!DoomsIt(n)
      <4>1. ~OpenAtFirst(d) /\ start[d] # "pending"
        BY <3>2 DEF D!DoomsIt, D!DOOMED, D!Terminal, OpenAtFirst
      <4> QED BY <2>1, <3>2, <4>1 DEF PassInv, Became
    <3> QED BY <3>1, <3>2
  <2>4. d \in D!Causes(status, n)
    BY <2>3 DEF D!Causes
  <2> QED BY <2>1, <2>2, <2>4 DEF AtRest
<1>3. ASSUME NEW k \in D!SkipSet(start, Key) PROVE k \in S
  BY <1>1, <1>2, <1>3 DEF D!SkipSet
<1>4. ASSUME NEW k \in S PROVE k \in D!SkipSet(start, Key)
  BY <1>4 DEF PassInv, Became, OpenAtFirst
<1>5. D!SkipSet(start, Key) \subseteq Key
  BY DEF D!SkipSet, D!Open
<1> QED BY <1>3, <1>4, <1>5

\* ... and of the others exactly the satisfied ones were opened.
LEMMA RestIsClosedForm ==
    ASSUME PassInv, \A k \in Key : AtRest(k)
    PROVE  status = D!Readiness(start, Key)
<1>1. ASSUME NEW n \in Key
      PROVE  status[n] = IF n \in D!SkipSet(start, Key) THEN "skipped"
                         ELSE IF start[n] = "pending" /\ D!Satisfied(start, n) THEN "ready"
                         ELSE start[n]
  <2>0. Became(n) /\ deps[n] \subseteq Key /\ \A d \in Key : Became(d)
    BY DEF PassInv
  <2>1. CASE n \in D!SkipSet(start, Key)
    BY <2>1, CasualtiesWereSkipped
  <2>2. CASE n \notin D!SkipSet(start, Key) /\ start[n] = "pending"
    <3>1. status[n] \in {"pending", "ready"}
      BY <2>0, <2>2 DEF Became
    <3>2. D!Causes(status, n) = {} /\ (status[n] = "pending" => ~D!Satisfied(status, n))
      BY <3>1 DEF AtRest, Undecided
    <3>3. \A d \in deps[n] : status[d] # "skipped" => (status[d] \in D!Terminal <=> start[d] \in D!Terminal)
                                                   /\ (status[d] = "succeeded" <=> start[d] = "succeeded")
      BY <2>0 DEF Became, OpenAtFirst, D!Terminal
    <3>4. \A d \in deps[n] : status[d] # "skipped"
      BY <3>2 DEF D!Causes, D!DoomsIt, D!DOOMED, D!Terminal
    <3>5. D!Satisfied(start, n) <=> D!Satisfied(status, n)
      BY <3>3, <3>4 DEF D!Satisfied
    <3>6. status[n] = "ready" => D!Satisfied(status, n)
      BY <2>0, <2>2 DEF Became
    <3> QED BY <2>2, <3>1, <3>2, <3>5, <3>6
  <2>3. CASE n \notin D!SkipSet(start, Key) /\ start[n] # "pending"
    BY <2>0, <2>3 DEF Became
  <2> QED BY <2>1, <2>2, <2>3
<1>2. status = [k \in Key |-> status[k]]
  BY DEF PassInv
<1> QED BY <1>1, <1>2 DEF D!Readiness

\* However the planner ordered the list, and however many passes it takes, the
\* passes end in the least set of casualties and with every satisfied survivor
\* READY (applyReadiness).
THEOREM PassesSettle == LoopSpec => []PassesReachClosedForm
<1>1. LoopInit => PassInv
  BY DEF LoopInit, PassInv, Became
<1>2. PassInv /\ [LoopNext]_loopVars => PassInv'
  BY PassStep
<1>3. PassInv => PassesReachClosedForm
  BY RestIsClosedForm DEF PassInv, PassesReachClosedForm
<1> QED BY <1>1, <1>2, <1>3, PTL DEF LoopSpec

-----------------------------------------------------------------------------
(* JobQueue: what the rows hold                                             *)

JobStatus    == {"absent", "queued", "retrying", "running"} \cup Settled
PoolStatuses == {"active", "draining", "offline"}
WorkerStatus == PoolStatuses \cup {"absent", "ready", "busy"}
LeaseType    == [attempt : Nat, by : {"nobody", "owner", "pool"}]
Row          == [status : JobStatus, attempts : Nat, lease : LeaseType, takers : Nat,
                 expired : BOOLEAN, due : BOOLEAN]

TypeOK ==
    /\ job \in [Job -> Row]
    /\ reading \subseteq [Job -> Row]
    /\ claim \in [Owner -> {NoClaim} \cup [job : Job, lease : LeaseType]]
    /\ pool \in [status : PoolStatuses, capacity : Capacities, active : Nat, healthy : Nat]
    /\ worker \in [Worker -> [status : WorkerStatus, job : Job \cup {NoJob}, stale : BOOLEAN]]
    /\ report \in [Worker -> {Quiet} \cup [pc : {"report", "release"}, job : Job,
                                           lease : LeaseType]]

-----------------------------------------------------------------------------
(* One job                                                                  *)

\* A job is under a lease exactly while it runs, only a running one can run
\* out of time, and one that may still be taken has an attempt left.
RowOK(r) ==
    /\ r.lease # NoLease <=> r.status = "running"
    /\ r.expired => r.status = "running"
    /\ r.attempts <= MaxAttempts
    /\ r.status \in {"absent", "queued", "retrying"} => r.attempts < MaxAttempts

JobsOK == \A j \in Job : RowOK(job[j])

\* What a pool claim under way read of a free job: it is so still, but for a
\* direct claim that took the attempt since, of which there is one at most.
ReadOK(old, now) ==
    /\ RowOK(old)
    /\ old.status \in {"queued", "retrying"} =>
         \/ /\ now.status \in {"queued", "retrying"}
            /\ now.attempts = old.attempts
         \/ /\ RowClaims
            /\ now.status = "running" /\ now.takers = 1
            /\ now.attempts = old.attempts + 1

ReadingOK == \A read \in reading : \A j \in Job : ReadOK(read[j], job[j])

\* A claim runs a free job under a lease of its own.
LEMMA ClaimedRow ==
    ASSUME NEW r \in Row, RowOK(r), r.status \in {"queued", "retrying"},
           NEW way \in {"owner", "pool"}
    PROVE  /\ Claimed(r, way) \in Row
           /\ RowOK(Claimed(r, way))
           /\ Claimed(r, way).status = "running"
           /\ Claimed(r, way).attempts = r.attempts + 1
           /\ Claimed(r, way).takers = 1
           /\ Claimed(r, way).lease \in LeaseType
           /\ r.attempts < MaxAttempts
<1> DEFINE n == r.attempts + 1
           l == [attempt |-> n, by |-> way]
<1>1. Claimed(r, way) = [r EXCEPT !.status = "running", !.attempts = n, !.takers = 1,
                                  !.expired = FALSE, !.lease = l]
  BY DEF Claimed
<1>2. l \in LeaseType /\ l # NoLease /\ n \in Nat
  BY DEF LeaseType, NoLease, Row
<1> HIDE DEF l
<1>3. Claimed(r, way) = [status |-> "running", attempts |-> n, lease |-> l, takers |-> 1,
                         expired |-> FALSE, due |-> r.due]
  BY <1>1 DEF Row
<1> QED BY <1>2, <1>3, JobAssumption DEF Row, RowOK, JobStatus

\* An attempt that failed leaves the job free while attempts are left, and dead
\* after the last.
LEMMA TryAgainRow ==
    ASSUME NEW r \in Row, RowOK(r), r.status = "running"
    PROVE  /\ TryAgain(r) \in Row
           /\ RowOK(TryAgain(r))
           /\ TryAgain(r).attempts = r.attempts
           /\ TryAgain(r).takers = r.takers
           /\ \/ TryAgain(r).status = "dead_letter"
              \/ TryAgain(r).status = "retrying" /\ r.attempts < MaxAttempts
<1>1. TryAgain(r) = [status |-> IF r.attempts >= MaxAttempts THEN "dead_letter" ELSE "retrying",
                     attempts |-> r.attempts, lease |-> NoLease, takers |-> r.takers,
                     expired |-> FALSE, due |-> r.due /\ r.attempts >= MaxAttempts]
  BY DEF Row, TryAgain
<1>2. NoLease \in LeaseType
  BY DEF NoLease, LeaseType
<1> QED BY <1>1, <1>2, JobAssumption DEF Row, RowOK, JobStatus, Settled

\* A report settles the job or leaves it to another attempt, and ends its lease.
LEMMA ReportedRow ==
    ASSUME NEW r \in Row, RowOK(r), r.status = "running", ~r.expired, NEW kind \in Kinds
    PROVE  /\ Reported(r, kind) \in Row
           /\ RowOK(Reported(r, kind))
           /\ Reported(r, kind).attempts = r.attempts
           /\ Reported(r, kind).takers = r.takers
           /\ \/ Reported(r, kind).status \in Settled
              \/ Reported(r, kind).status = "retrying" /\ r.attempts < MaxAttempts
<1>0. NoLease \in LeaseType
  BY DEF NoLease, LeaseType
<1>1. CASE kind = "complete"
  BY <1>0, <1>1, JobAssumption DEF Row, RowOK, Reported, JobStatus, Settled
<1>2. CASE kind = "block"
  BY <1>0, <1>2, JobAssumption DEF Row, RowOK, Reported, JobStatus, Settled
<1>3. CASE kind = "retry"
  BY <1>3, TryAgainRow DEF Reported, Settled
<1> QED BY <1>1, <1>2, <1>3 DEF Kinds

-----------------------------------------------------------------------------
(* What a step does to the jobs                                             *)

\* A job is created, claimed, taken over in the same attempt, reported on or put
\* back; or only the clock moves.
Moves(r, s) ==
    \/ s = r
    \/ /\ s.attempts = r.attempts /\ s.takers = r.takers
       /\ \/ s.status = r.status
          \/ r.status = "absent" /\ s.status = "queued"
          \/ r.status = "running" /\ s.status = "retrying" /\ r.attempts < MaxAttempts
          \/ r.status = "running" /\ s.status \in Settled
    \/ /\ s.attempts = r.attempts + 1 /\ s.takers = 1
       /\ r.attempts < MaxAttempts
       /\ r.status \in {"queued", "retrying"} /\ s.status = "running"
    \/ /\ RowClaims
       /\ s.attempts = r.attempts /\ r.takers = 1 /\ s.takers = 2
       /\ r.status = "running" /\ s.status = "running"

\* Whatever anybody does, every job stays well formed and makes one of these
\* moves.
LEMMA JobStep ==
    ASSUME TypeOK, JobsOK, ReadingOK, [Next]_vars
    PROVE  /\ job' \in [Job -> Row]
           /\ JobsOK'
           /\ \A j \in Job : Moves(job[j], job'[j])
<1> DEFINE Good == /\ job' \in [Job -> Row]
                   /\ JobsOK'
                   /\ \A j \in Job : Moves(job[j], job'[j])
<1> USE DEF JobsOK
<1>0. job \in [Job -> Row] /\ \A j \in Job : RowOK(job[j])
  BY DEF TypeOK
<1>1. ASSUME UNCHANGED job
      PROVE  Good
  BY <1>0, <1>1 DEF Moves
<1>2. ASSUME NEW j \in Job, NEW r \in Row, RowOK(r), Moves(job[j], r),
             job' = [job EXCEPT ![j] = r]
      PROVE  Good
  BY <1>0, <1>2 DEF Moves
<1>3. CASE \E o \in Owner : ClaimNextJob(o)
  <2>1. PICK j \in Job : Available(job[j]) /\ job' = [job EXCEPT ![j] = Claimed(@, "owner")]
    BY <1>3 DEF ClaimNextJob
  <2>2. job' = [job EXCEPT ![j] = Claimed(job[j], "owner")]
    BY <1>0, <2>1
  <2>3. Claimed(job[j], "owner") \in Row /\ RowOK(Claimed(job[j], "owner"))
        /\ Moves(job[j], Claimed(job[j], "owner"))
    BY <1>0, <2>1, ClaimedRow DEF Available, Moves
  <2> QED BY <1>2, <2>2, <2>3
<1>4. ASSUME NEW j \in Job, NEW l \in LeaseType, HoldsLease(j, l), NEW kind \in Kinds,
             job' = [job EXCEPT ![j] = Reported(@, kind)]
      PROVE  Good
  <2>1. job' = [job EXCEPT ![j] = Reported(job[j], kind)]
    BY <1>0, <1>4
  <2>2. job[j].status = "running" /\ ~job[j].expired
    BY <1>0, <1>4 DEF HoldsLease, RowOK
  <2> QED BY <1>0, <1>2, <2>1, <2>2, ReportedRow DEF Moves
<1>5. CASE RecoverExpiredJobs
  <2>1. \A j \in Job : job'[j] = IF job[j].expired THEN TryAgain(job[j]) ELSE job[j]
    BY <1>5 DEF RecoverExpiredJobs
  <2>2. \A j \in Job : job[j].expired => job[j].status = "running"
    BY <1>0 DEF RowOK
  <2>3. \A j \in Job : /\ job'[j] \in Row /\ RowOK(job'[j])
                       /\ Moves(job[j], job'[j])
    BY <1>0, <2>1, <2>2, TryAgainRow DEF Moves, Settled
  <2> QED BY <1>5, <2>3 DEF RecoverExpiredJobs
<1>6. CASE \E j \in Job : CreateJob(j)
  <2>1. PICK j \in Job : CreateJob(j)
    BY <1>6
  <2> DEFINE r == [job[j] EXCEPT !.status = "queued"]
  <2>2. job' = [job EXCEPT ![j] = r]
    BY <1>0, <2>1 DEF CreateJob
  <2>3. r \in Row /\ RowOK(r) /\ Moves(job[j], r)
    BY <1>0, <2>1 DEF CreateJob, Row, RowOK, Moves, JobStatus, Settled
  <2> HIDE DEF r
  <2> QED BY <1>2, <2>2, <2>3
<1>7. CASE \E j \in Job : LeaseRunsOut(j)
  <2>1. PICK j \in Job : LeaseRunsOut(j)
    BY <1>7
  <2> DEFINE r == [job[j] EXCEPT !.expired = TRUE]
  <2>2. job' = [job EXCEPT ![j] = r]
    BY <1>0, <2>1 DEF LeaseRunsOut
  <2>3. r \in Row /\ RowOK(r) /\ Moves(job[j], r)
    BY <1>0, <2>1 DEF LeaseRunsOut, Row, RowOK, Moves
  <2> HIDE DEF r
  <2> QED BY <1>2, <2>2, <2>3
<1>8. CASE \E j \in Job : RetryFallsDue(j)
  <2>1. PICK j \in Job : RetryFallsDue(j)
    BY <1>8
  <2> DEFINE r == [job[j] EXCEPT !.due = TRUE]
  <2>2. job' = [job EXCEPT ![j] = r]
    BY <1>0, <2>1 DEF RetryFallsDue
  <2>3. r \in Row /\ RowOK(r) /\ Moves(job[j], r)
    BY <1>0, <2>1 DEF RetryFallsDue, Row, RowOK, Moves
  <2> HIDE DEF r
  <2> QED BY <1>2, <2>2, <2>3
<1>10. CASE ClaimProductionJob
  <2>1. CASE UNCHANGED job
    BY <1>1, <2>1
  <2>2. CASE \E read \in reading, j \in Job :
               /\ Available(read[j])
               /\ job' = [job EXCEPT ![j] = [Claimed(read[j], "pool")
                                              EXCEPT !.takers = TakersBefore(job[j]) + 1]]
    <3>1. PICK read \in reading, j \in Job :
               /\ Available(read[j])
               /\ job' = [job EXCEPT ![j] = [Claimed(read[j], "pool")
                                              EXCEPT !.takers = TakersBefore(job[j]) + 1]]
      BY <2>2
    <3> DEFINE c == Claimed(read[j], "pool")
               n == TakersBefore(job[j]) + 1
               r == [c EXCEPT !.takers = n]
    <3>2. read[j] \in Row /\ ReadOK(read[j], job[j]) /\ job[j] \in Row
      BY <1>0 DEF TypeOK, ReadingOK
    <3>3. /\ c \in Row /\ RowOK(c) /\ c.status = "running"
          /\ c.attempts = read[j].attempts + 1 /\ read[j].attempts < MaxAttempts
      BY <3>1, <3>2, ClaimedRow DEF Available, ReadOK
    <3>4. n \in Nat
      BY <3>2 DEF TakersBefore, Row
    <3> HIDE DEF c
    <3>5. /\ r \in Row /\ r.status = c.status /\ r.attempts = c.attempts /\ r.takers = n
          /\ r.lease = c.lease /\ r.expired = c.expired
      <4> HIDE DEF n
      <4> QED BY <3>3, <3>4 DEF Row
    <3>6. RowOK(r)
      BY <3>3, <3>5 DEF RowOK
    <3>7. Moves(job[j], r)
      <4>1. \/ job[j].status \in {"queued", "retrying"} /\ job[j].attempts = read[j].attempts
            \/ /\ RowClaims /\ job[j].status = "running" /\ job[j].takers = 1
               /\ job[j].attempts = read[j].attempts + 1
        BY <3>1, <3>2 DEF Available, ReadOK
      <4> HIDE DEF r
      <4> QED BY <3>3, <3>5, <4>1 DEF TakersBefore, Moves
    <3>8. job' = [job EXCEPT ![j] = r]
      BY <3>1 DEF c
    <3> HIDE DEF r
    <3> QED BY <1>2, <3>5, <3>6, <3>7, <3>8
  <2> QED BY <1>10, <2>1, <2>2 DEF ClaimProductionJob
<1>11. CASE \E o \in Owner : ReportJob(o)
  <2>1. PICK o \in Owner : ReportJob(o)
    BY <1>11
  <2>2. claim[o].job \in Job /\ claim[o].lease \in LeaseType
    BY <2>1 DEF TypeOK, ReportJob
  <2> QED BY <1>1, <1>4, <2>1, <2>2 DEF ReportJob
<1>12. CASE \E w \in Worker : FinishReport(w)
  <2>1. PICK w \in Worker : FinishReport(w)
    BY <1>12
  <2>2. report[w].job \in Job /\ report[w].lease \in LeaseType
    BY <2>1 DEF TypeOK, FinishReport, Quiet
  <2> QED BY <1>1, <1>4, <2>1, <2>2 DEF FinishReport
<1>13. CASE UNCHANGED vars
  BY <1>1, <1>13 DEF vars
<1>14. CASE RecoverAssignments
  BY <1>1, <1>14 DEF RecoverAssignments
<1>15. CASE \/ \E c \in Capacities : ResizePool(c)
            \/ \E s \in PoolStatus : SetPoolStatus(s)
            \/ ReadForPool \/ DropPoolClaim
            \/ \E w \in Worker :
                  \/ RegisterWorker(w) \/ Heartbeat(w) \/ WorkerFallsSilent(w)
                  \/ StartReport(w) \/ ReleaseCapacity(w) \/ CrashReport(w)
                  \/ \E s \in {"ready", "draining", "offline"} : SetWorkerStatus(w, s)
  BY <1>1, <1>15 DEF ResizePool, SetPoolStatus, ReadForPool, DropPoolClaim, RegisterWorker, Heartbeat,
       WorkerFallsSilent, StartReport, ReleaseCapacity, CrashReport, SetWorkerStatus
<1> QED
  BY <1>3, <1>5, <1>6, <1>7, <1>8, <1>10, <1>11, <1>12, <1>13, <1>14, <1>15
     DEF Next, Coordinator

\* While a pool claim is under way only direct claims, where they lock their row
\* alone, and the clock touch the jobs it read.
LEMMA ReadingStep ==
    ASSUME TypeOK, JobsOK, ReadingOK, [Next]_vars
    PROVE  ReadingOK'
<1>0. /\ job \in [Job -> Row] /\ reading \subseteq [Job -> Row]
      /\ \A j \in Job : RowOK(job[j])
  BY DEF TypeOK, JobsOK
<1>1. CASE reading' = {}
  BY <1>1 DEF ReadingOK
<1>2. CASE reading' = reading /\ \A j \in Job :
              /\ job'[j].status = job[j].status
              /\ job'[j].attempts = job[j].attempts /\ job'[j].takers = job[j].takers
  BY <1>2 DEF ReadingOK, ReadOK
<1>3. CASE ReadForPool
  BY <1>0, <1>3 DEF ReadForPool, ReadingOK, ReadOK
<1>4. CASE \E o \in Owner : ClaimNextJob(o)
  <2>1. PICK j \in Job :
           /\ RowClaims \/ Free
           /\ Available(job[j])
           /\ job' = [job EXCEPT ![j] = Claimed(@, "owner")]
           /\ reading' = reading
    BY <1>4 DEF ClaimNextJob
  <2>2. CASE Free
    BY <1>1, <2>1, <2>2 DEF Free
  <2>3. CASE RowClaims
    <3>1. /\ \A i \in Job \ {j} : job'[i] = job[i]
          /\ job'[j] = Claimed(job[j], "owner")
      BY <1>0, <2>1
    <3>2. /\ job'[j].status = "running" /\ job'[j].takers = 1
          /\ job'[j].attempts = job[j].attempts + 1
      BY <1>0, <2>1, <3>1, ClaimedRow DEF Available
    <3>3. ASSUME NEW read \in reading, NEW i \in Job PROVE ReadOK(read[i], job'[i])
      <4>1. ReadOK(read[i], job[i])
        BY DEF ReadingOK
      <4>2. CASE i = j
        BY <2>1, <2>3, <3>2, <4>1, <4>2 DEF ReadOK, Available
      <4> QED BY <3>1, <4>1, <4>2
    <3> QED BY <2>1, <3>3 DEF ReadingOK
  <2> QED BY <2>1, <2>2, <2>3
<1>5. CASE \E j \in Job : LeaseRunsOut(j) \/ RetryFallsDue(j)
  <2>1. reading' = reading
    BY <1>5 DEF LeaseRunsOut, RetryFallsDue
  <2>2. PICK j \in Job, b \in BOOLEAN :
           \/ job' = [job EXCEPT ![j].expired = b]
           \/ job' = [job EXCEPT ![j].due = b]
    BY <1>5 DEF LeaseRunsOut, RetryFallsDue
  <2>3. \A i \in Job : /\ job'[i].status = job[i].status
                       /\ job'[i].attempts = job[i].attempts
                       /\ job'[i].takers = job[i].takers
    BY <1>0, <2>2 DEF Row
  <2> QED BY <1>2, <2>1, <2>3
<1>6. CASE \E o \in Owner : ReportJob(o)
  <2>1. reading' = reading /\ (UNCHANGED job \/ Free)
    BY <1>6 DEF ReportJob
  <2> QED BY <1>1, <1>2, <2>1 DEF Free
<1>7. CASE ReadForPool \/ ClaimProductionJob \/ DropPoolClaim
  BY <1>1, <1>3, <1>7 DEF ClaimProductionJob, DropPoolClaim
<1>8. CASE \/ Coordinator
           \/ \E j \in Job : CreateJob(j)
           \/ \E w \in Worker : FinishReport(w)
  <2>1. Free /\ reading' = reading
    BY <1>8 DEF Coordinator, RecoverExpiredJobs, RecoverAssignments, CreateJob, FinishReport
  <2> QED BY <1>1, <2>1 DEF Free
<1>9. CASE UNCHANGED <<job, reading>>
  BY <1>2, <1>9
<1> QED
  BY <1>4, <1>5, <1>6, <1>7, <1>8, <1>9 DEF Next, vars, ResizePool, SetPoolStatus,
     RegisterWorker, Heartbeat, WorkerFallsSilent, StartReport, ReleaseCapacity,
     CrashReport, SetWorkerStatus

-----------------------------------------------------------------------------
(* Types                                                                    *)

\* Every action leaves the claims, the pool, its workers and their reports
\* typed.
LEMMA RestStep ==
    ASSUME TypeOK, JobsOK, ReadingOK, [Next]_vars
    PROVE  TypeOK'
<1>1. job' \in [Job -> Row]
  BY JobStep
<1> DEFINE WorkerType == [status : WorkerStatus, job : Job \cup {NoJob}, stale : BOOLEAN]
           PoolType   == [status : PoolStatuses, capacity : Capacities, active : Nat, healthy : Nat]
           ReportType == {Quiet} \cup [pc : {"report", "release"}, job : Job,
                                       lease : LeaseType]
           ClaimType  == {NoClaim} \cup [job : Job, lease : LeaseType]
<1>0. /\ claim \in [Owner -> ClaimType] /\ pool \in PoolType
      /\ worker \in [Worker -> WorkerType] /\ report \in [Worker -> ReportType]
  BY DEF TypeOK
<1>a. \A n \in Nat, k \in Nat : Less(n, k) \in Nat
  BY DEF Less
<1>2. claim' \in [Owner -> ClaimType]
  <2>1. CASE UNCHANGED claim
    BY <1>0, <2>1
  <2>2. CASE \E o \in Owner : ClaimNextJob(o)
    <3>1. PICK o \in Owner, j \in Job : claim' = [claim EXCEPT ![o] = [job |-> j, lease |-> job'[j].lease]]
      BY <2>2 DEF ClaimNextJob
    <3>2. job'[j].lease \in LeaseType
      BY <1>1 DEF Row
    <3> QED BY <1>0, <3>1, <3>2
  <2>3. CASE \E o \in Owner : ReportJob(o)
    BY <1>0, <2>3 DEF ReportJob
  <2> QED
    BY <2>1, <2>2, <2>3 DEF Next, vars, Coordinator, RecoverExpiredJobs, RecoverAssignments,
         ClaimProductionJob, ReadForPool, DropPoolClaim, CreateJob, LeaseRunsOut, RetryFallsDue, ResizePool, SetPoolStatus,
         RegisterWorker, Heartbeat, WorkerFallsSilent, StartReport, FinishReport,
         ReleaseCapacity, CrashReport, SetWorkerStatus
<1>3. report' \in [Worker -> ReportType]
  <2>1. CASE UNCHANGED report
    BY <1>0, <2>1
  <2>2. CASE \E w \in Worker : StartReport(w)
    <3>1. PICK w \in Worker :
             /\ worker[w].job # NoJob
             /\ report' = [report EXCEPT ![w] = [pc |-> "report", job |-> worker[w].job,
                                                 lease |-> job[worker[w].job].lease]]
      BY <2>2 DEF StartReport
    <3>2. worker[w].job \in Job /\ job[worker[w].job].lease \in LeaseType
      BY <1>0, <3>1 DEF TypeOK, Row
    <3> QED BY <1>0, <3>1, <3>2
  <2>3. CASE \E w \in Worker : FinishReport(w)
    <3>1. PICK w \in Worker :
             /\ report[w].pc = "report"
             /\ \/ report' = [report EXCEPT ![w].pc = "release"]
                \/ report' = [report EXCEPT ![w] = Quiet]
      BY <2>3 DEF FinishReport
    <3>2. report[w] \in [pc : {"report", "release"}, job : Job, lease : LeaseType]
      BY <1>0, <3>1 DEF Quiet
    <3>3. [report[w] EXCEPT !.pc = "release"] \in ReportType
      BY <3>2
    <3> QED BY <1>0, <3>1, <3>3
  <2>4. CASE \E w \in Worker : ReleaseCapacity(w) \/ CrashReport(w)
    BY <1>0, <2>4 DEF ReleaseCapacity, CrashReport
  <2> QED
    BY <2>1, <2>2, <2>3, <2>4 DEF Next, vars, Coordinator, RecoverExpiredJobs,
         RecoverAssignments, ClaimProductionJob, ReadForPool, DropPoolClaim, CreateJob, LeaseRunsOut, RetryFallsDue,
         ResizePool, SetPoolStatus, ClaimNextJob, ReportJob,
         RegisterWorker, Heartbeat, WorkerFallsSilent, SetWorkerStatus
<1>4. worker' \in [Worker -> WorkerType]
  <2>1. CASE UNCHANGED worker
    BY <1>0, <2>1
  <2>2. CASE \E w \in Worker : RegisterWorker(w) \/ Heartbeat(w) \/ WorkerFallsSilent(w)
    <3>1. PICK w \in Worker, b \in BOOLEAN :
             \/ worker' = [worker EXCEPT ![w].status = "ready"]
             \/ worker' = [worker EXCEPT ![w].stale = b]
      BY <2>2 DEF RegisterWorker, Heartbeat, WorkerFallsSilent
    <3> QED BY SMTT(30), <1>0, <3>1 DEF WorkerStatus
  <2>3. CASE \E w \in Worker, s \in {"ready", "draining", "offline"} : SetWorkerStatus(w, s)
    BY <1>0, <2>3 DEF SetWorkerStatus, WorkerStatus, PoolStatuses
  <2>4. CASE \E w \in Worker : ReleaseCapacity(w)
    BY <1>0, <2>4 DEF ReleaseCapacity, WorkerStatus
  <2>5. CASE RecoverAssignments
    BY ZenonT(60), <1>0, <2>5 DEF RecoverAssignments, WorkerStatus
  <2>6. CASE ClaimProductionJob
    <3> DEFINE seen == [w \in Worker |->
                          IF w \in Lost THEN [worker[w] EXCEPT !.status = "offline"]
                          ELSE worker[w]]
    <3>1. seen \in [Worker -> WorkerType]
      BY <1>0 DEF WorkerStatus, PoolStatuses
    <3>2. \/ worker' = seen
          \/ \E w \in Worker, j \in Job :
                worker' = [seen EXCEPT ![w].status = "busy", ![w].job = j]
      BY <2>6 DEF ClaimProductionJob, Idle
    <3> HIDE DEF seen
    <3> QED BY ZenonT(60), <3>1, <3>2 DEF WorkerStatus
  <2> QED
    BY <2>1, <2>2, <2>3, <2>4, <2>5, <2>6 DEF Next, vars, Coordinator, RecoverExpiredJobs,
         CreateJob, LeaseRunsOut, RetryFallsDue, ResizePool, SetPoolStatus, ClaimNextJob,
         ReadForPool, DropPoolClaim, ReportJob, StartReport, FinishReport, CrashReport
<1>5. pool' \in PoolType
  <2>1. CASE UNCHANGED pool
    BY <1>0, <2>1
  <2>2. CASE \E c \in Capacities : ResizePool(c)
    BY <1>0, <2>2 DEF ResizePool
  <2>3. CASE \E s \in PoolStatus : SetPoolStatus(s)
    BY <1>0, <2>3, JobAssumption DEF SetPoolStatus, PoolStatuses
  <2>4. CASE \E w \in Worker : RegisterWorker(w)
    BY <1>0, <2>4 DEF RegisterWorker
  <2>5. CASE \E w \in Worker, s \in {"ready", "draining", "offline"} : SetWorkerStatus(w, s)
    <3>1. PICK w \in Worker, s \in {"ready", "draining", "offline"} : SetWorkerStatus(w, s)
      BY <2>5
    <3> DEFINE n == Less(pool.healthy + Healthy(s), Healthy(worker[w].status))
    <3>2. n \in Nat
      <4>1. Healthy(s) \in Nat /\ Healthy(worker[w].status) \in Nat
        BY DEF Healthy
      <4>2. pool.healthy + Healthy(s) \in Nat
        BY <1>0, <4>1
      <4> QED BY <1>a, <4>1, <4>2
    <3>3. pool' = [pool EXCEPT !.healthy = n]
      BY <3>1 DEF SetWorkerStatus
    <3> HIDE DEF n
    <3> QED BY <1>0, <3>2, <3>3
  <2>6. CASE \E w \in Worker : ReleaseCapacity(w)
    BY <1>0, <1>a, <2>6 DEF ReleaseCapacity
  <2>7. CASE RecoverAssignments
    <3>1. Cardinality({w \in Worker : Orphaned(w)}) \in Nat
      BY JobAssumption, FS_Subset, FS_CardinalityType
    <3> QED BY <1>0, <1>a, <2>7, <3>1 DEF RecoverAssignments
  <2>8. CASE ClaimProductionJob
    <3>1. Cardinality(Lost) \in Nat
      BY JobAssumption, FS_Subset, FS_CardinalityType DEF Lost
    <3> DEFINE left == [pool EXCEPT !.healthy = Less(pool.healthy, Cardinality(Lost))]
    <3>2. left \in PoolType
      BY <1>0, <1>a, <3>1
    <3>3. \/ pool' = left
          \/ pool' = [left EXCEPT !.active = left.active + 1]
      BY <2>8 DEF ClaimProductionJob
    <3> HIDE DEF left
    <3> QED BY <3>2, <3>3
  <2> QED
    BY <2>1, <2>2, <2>3, <2>4, <2>5, <2>6, <2>7, <2>8 DEF Next, vars, Coordinator,
         RecoverExpiredJobs, CreateJob, LeaseRunsOut, RetryFallsDue, ClaimNextJob,
         ReadForPool, DropPoolClaim, ReportJob, Heartbeat, WorkerFallsSilent, StartReport,
         FinishReport, CrashReport
<1>6. reading' \subseteq [Job -> Row]
  <2>1. reading' = {} \/ reading' = reading \/ reading' = {job}
    BY DEF Next, vars, Coordinator, RecoverExpiredJobs, RecoverAssignments, CreateJob,
       LeaseRunsOut, RetryFallsDue, ResizePool, SetPoolStatus, ClaimNextJob, ReportJob,
       ReadForPool, ClaimProductionJob, DropPoolClaim, RegisterWorker, Heartbeat,
       WorkerFallsSilent, StartReport, FinishReport, ReleaseCapacity, CrashReport,
       SetWorkerStatus
  <2> QED BY <2>1 DEF TypeOK
<1> QED BY <1>1, <1>2, <1>3, <1>4, <1>5, <1>6 DEF TypeOK

\* Init is typed, its jobs are well formed, and nothing is being read.
LEMMA InitTypes == Init => TypeOK /\ JobsOK /\ ReadingOK
<1> SUFFICES ASSUME Init PROVE TypeOK /\ JobsOK /\ ReadingOK
  OBVIOUS
<1>1. \A j \in Job : job[j] = [status |-> "absent", attempts |-> 0, lease |-> NoLease,
                               takers |-> 0, expired |-> FALSE, due |-> TRUE]
  BY DEF Init
<1>2. job \in [Job -> Row]
  <2>1. NoLease \in LeaseType
    BY DEF NoLease, LeaseType
  <2> QED BY <2>1 DEF Init, Row, JobStatus
<1>3. JobsOK /\ ReadingOK
  BY <1>1, JobAssumption DEF Init, JobsOK, RowOK, ReadingOK
<1>4. /\ reading = {} /\ claim \in [Owner -> {NoClaim}] /\ report \in [Worker -> {Quiet}]
      /\ pool \in [status : PoolStatuses, capacity : Capacities, active : Nat, healthy : Nat]
      /\ worker \in [Worker -> [status : WorkerStatus, job : Job \cup {NoJob}, stale : BOOLEAN]]
  BY DEF Init, PoolStatuses, WorkerStatus
<1> QED BY <1>2, <1>3, <1>4 DEF TypeOK

\* The jobs, the claims, the pool, the workers and the reports keep their
\* types; no job is under a lease without running or out of attempts without
\* being settled; and what a pool claim read of a free job is so until it
\* writes, but for one direct claim where those lock their row alone.
THEOREM TypeCorrect == Spec => [](TypeOK /\ JobsOK /\ ReadingOK)
<1>1. TypeOK /\ JobsOK /\ ReadingOK /\ [Next]_vars => (TypeOK /\ JobsOK /\ ReadingOK)'
  BY JobStep, RestStep, ReadingStep
<1> QED BY InitTypes, <1>1, PTL DEF Spec

-----------------------------------------------------------------------------
(* The queue keeps what leased work promises                                *)

\* A move of a job is one of the steps of LeasedWork.
LEMMA MoveMaps ==
    ASSUME TypeOK, job' \in [Job -> Row], NEW j \in Job, Moves(job[j], job'[j])
    PROVE  \/ Work!Add(j) \/ Work!Take(j) \/ Work!PutBack(j) \/ Work!Settle(j)
           \/ Work!Stay(j) \/ Work!Supersede(j)
<1>1. job[j] \in Row /\ job'[j] \in Row
  BY DEF TypeOK
<1>2. /\ job[j].status \in {"absent", "queued", "retrying", "running",
                            "completed", "dead_letter", "blocked"}
      /\ job'[j].status \in {"absent", "queued", "retrying", "running",
                            "completed", "dead_letter", "blocked"}
  BY <1>1 DEF Row, JobStatus, Settled
<1> QED
  BY <1>1, <1>2 DEF Moves, Work!Add, Work!Take, Work!PutBack, Work!Settle, Work!Stay,
       Work!Supersede, Work!Kept, Work!Goes, Place, Settled, Row

\* The queue implements LeasedWork: whatever a late owner, the pool, its
\* workers, the recovery and the clock do to each other, a job is taken at most
\* MaxAttempts times, each time by one taker where every claim is under the
\* store's one lock, by two at most where a direct claim locks its row alone,
\* and never again once settled.
THEOREM QueueIsLeasedWork == Spec => WorkSpec
<1>1. Init => Work!Init
  <2> SUFFICES ASSUME Init PROVE Work!Init
    OBVIOUS
  <2>1. \A j \in Job : job[j].status = "absent" /\ job[j].attempts = 0 /\ job[j].takers = 0
    BY DEF Init
  <2>2. \A j \in Job : Place(j) = "absent"
    BY <2>1 DEF Place, Settled
  <2> QED BY <2>1, <2>2 DEF Work!Init
<1>2. TypeOK /\ JobsOK /\ ReadingOK /\ [Next]_vars => [Work!Next]_(Work!vars)
  <2> SUFFICES ASSUME TypeOK, JobsOK, ReadingOK, [Next]_vars PROVE Work!Next
    BY DEF Work!vars
  <2> QED BY JobStep, MoveMaps DEF Work!Next
<1> QED BY TypeCorrect, <1>1, <1>2, PTL DEF Spec, WorkSpec, Work!Spec

-----------------------------------------------------------------------------
(* The pool's count                                                         *)

Holders == {w \in Worker : worker[w].job # NoJob}

\* The workers that hold a job are finitely many.
LEMMA AssignedFinite == IsFiniteSet(Holders) /\ Cardinality(Holders) \in Nat
BY JobAssumption, FS_Subset, FS_CardinalityType DEF Holders

\* A step that leaves the assignments and the count alone, and does not lower
\* the capacity below it, keeps the account.
LEMMA CountUntouched ==
    ASSUME TypeOK, TypeOK', CapacityAccounted,
           \A w \in Worker : worker'[w].job = worker[w].job,
           pool'.active = pool.active, pool'.active <= pool'.capacity
    PROVE  CapacityAccounted'
<1>1. Holders' = Holders
  BY DEF Holders
<1> QED BY <1>1 DEF CapacityAccounted, Holders

\* Every action keeps the pool's count equal to the number of workers that
\* hold a job, and within the capacity.
LEMMA CapacityStep ==
    ASSUME TypeOK, TypeOK', CapacityAccounted, [Next]_vars
    PROVE  CapacityAccounted'
<1>0. /\ pool.active = Cardinality(Holders) /\ pool.active <= pool.capacity
      /\ pool.active \in Nat /\ pool.capacity \in Nat
  BY JobAssumption DEF CapacityAccounted, TypeOK, Holders
<1>a. /\ worker \in [Worker -> [status : WorkerStatus, job : Job \cup {NoJob}, stale : BOOLEAN]]
      /\ pool \in [status : PoolStatuses, capacity : Capacities, active : Nat, healthy : Nat]
  BY DEF TypeOK
<1>1. CASE ClaimProductionJob
  <2> DEFINE seen == [w \in Worker |->
                        IF w \in Lost THEN [worker[w] EXCEPT !.status = "offline"]
                        ELSE worker[w]]
             left == [pool EXCEPT !.healthy = Less(pool.healthy, Cardinality(Lost))]
  <2>1. /\ \A w \in Worker : seen[w].job = worker[w].job
        /\ seen \in [Worker -> [status : WorkerStatus, job : Job \cup {NoJob}, stale : BOOLEAN]]
    BY <1>a DEF WorkerStatus, PoolStatuses
  <2>2. left.active = pool.active /\ left.capacity = pool.capacity
        /\ DOMAIN left = {"status", "capacity", "active", "healthy"}
    BY DEF TypeOK
  <2>3. CASE worker' = seen /\ pool' = left
    BY <1>0, <2>1, <2>2, <2>3, CountUntouched
  <2>4. CASE \E w \in Worker, j \in Job :
               /\ Unassigned(w)
               /\ worker' = [seen EXCEPT ![w].status = "busy", ![w].job = j]
               /\ pool' = [left EXCEPT !.active = left.active + 1]
               /\ pool.active < pool.capacity
    <3>1. PICK w \in Worker, j \in Job :
               /\ Unassigned(w)
               /\ worker' = [seen EXCEPT ![w].status = "busy", ![w].job = j]
               /\ pool' = [left EXCEPT !.active = left.active + 1]
               /\ pool.active < pool.capacity
      BY <2>4
    <3> HIDE DEF seen, left
    <3>2. \A v \in Worker : worker'[v].job = IF v = w THEN j ELSE worker[v].job
      BY <2>1, <3>1
    <3>3. Holders' = Holders \cup {w}
      BY <3>2, JobAssumption DEF Holders
    <3>4. w \notin Holders
      BY <3>1 DEF Holders, Unassigned
    <3>5. Cardinality(Holders') = Cardinality(Holders) + 1
      BY <3>3, <3>4, AssignedFinite, FS_AddElement
    <3>6. pool'.active = pool.active + 1 /\ pool'.capacity = pool.capacity
      BY <2>2, <3>1
    <3> QED BY <1>0, <3>1, <3>5, <3>6 DEF CapacityAccounted, Holders
  <2> QED BY <1>1, <2>3, <2>4 DEF ClaimProductionJob, MayClaim, Idle
<1>2. CASE \E w \in Worker : ReleaseCapacity(w)
  <2>1. PICK w \in Worker : ReleaseCapacity(w)
    BY <1>2
  <2>2. CASE ~StillAssigned(w)
    BY <1>0, <2>1, <2>2, CountUntouched DEF ReleaseCapacity
  <2>3. CASE StillAssigned(w)
    <3>1. worker[w].job \in Job
      BY <2>1, <2>3 DEF TypeOK, ReleaseCapacity, StillAssigned, Quiet
    <3>2. /\ \A v \in Worker : worker'[v].job = IF v = w THEN NoJob ELSE worker[v].job
          /\ pool'.active = Less(pool.active, 1)
          /\ pool'.capacity = pool.capacity
      BY <2>1, <2>3 DEF TypeOK, ReleaseCapacity
    <3>3. Holders' = Holders \ {w} /\ w \in Holders
      BY <3>1, <3>2, JobAssumption DEF Holders
    <3>4. Cardinality(Holders') = Cardinality(Holders) - 1 /\ Cardinality(Holders') \in Nat
      BY <3>3, AssignedFinite, FS_RemoveElement, FS_CardinalityType
    <3> QED BY <1>0, <3>2, <3>4 DEF CapacityAccounted, Holders, Less
  <2> QED BY <2>2, <2>3
<1>3. CASE RecoverAssignments
  <2> DEFINE freed == {w \in Worker : Orphaned(w)}
  <2>1. /\ \A v \in Worker : worker'[v].job = IF v \in freed THEN NoJob ELSE worker[v].job
        /\ pool'.active = Less(pool.active, Cardinality(freed))
        /\ pool'.capacity = pool.capacity
    BY <1>a, <1>3 DEF RecoverAssignments
  <2>2. freed \subseteq Holders
    BY DEF Holders, Orphaned
  <2> HIDE DEF freed
  <2>3. Holders' = Holders \ freed
    BY <2>1 DEF Holders
  <2>4. Holders \cap freed = freed
    BY <2>2
  <2>5. Cardinality(Holders') = Cardinality(Holders) - Cardinality(freed)
    <3>1. Cardinality(Holders \ freed)
            = Cardinality(Holders) - Cardinality(Holders \cap freed)
      BY AssignedFinite, FS_Difference
    <3> QED BY <2>3, <2>4, <3>1
  <2>6. freed \in SUBSET Holders
    BY <2>2
  <2>7. Cardinality(freed) \in Nat /\ Cardinality(freed) <= Cardinality(Holders)
    BY <2>6, AssignedFinite, FS_Subset, FS_CardinalityType
  <2> QED BY <1>0, <2>1, <2>5, <2>7, AssignedFinite DEF CapacityAccounted, Holders, Less
<1>4. CASE \E c \in Capacities : ResizePool(c)
  BY <1>0, <1>4, CountUntouched DEF ResizePool, TypeOK
<1>5. CASE \E s \in PoolStatus : SetPoolStatus(s)
  BY <1>0, <1>5, CountUntouched DEF SetPoolStatus, TypeOK
<1>6. CASE \E w \in Worker :
              \/ RegisterWorker(w) \/ Heartbeat(w) \/ WorkerFallsSilent(w)
              \/ \E s \in {"ready", "draining", "offline"} : SetWorkerStatus(w, s)
  <2>1. PICK w \in Worker :
              \/ worker' = [worker EXCEPT ![w].stale = worker'[w].stale] /\ pool' = pool
              \/ /\ worker' = [worker EXCEPT ![w].status = worker'[w].status]
                 /\ pool' = [pool EXCEPT !.healthy = pool'.healthy]
    BY <1>6 DEF TypeOK, RegisterWorker, Heartbeat, WorkerFallsSilent, SetWorkerStatus
  <2>2. \A v \in Worker : worker'[v].job = worker[v].job
    BY <2>1 DEF TypeOK
  <2>3. pool'.active = pool.active /\ pool'.capacity = pool.capacity
    BY <2>1 DEF TypeOK
  <2> QED BY <1>0, <2>2, <2>3, CountUntouched
<1>7. CASE UNCHANGED <<worker, pool>>
  BY <1>0, <1>7, CountUntouched
<1> QED
  BY <1>1, <1>2, <1>3, <1>4, <1>5, <1>6, <1>7 DEF Next, vars, Coordinator,
       RecoverExpiredJobs, CreateJob, LeaseRunsOut, RetryFallsDue, ClaimNextJob, ReportJob,
       ReadForPool, DropPoolClaim, StartReport, FinishReport, CrashReport

\* The pool never counts a worker that holds nothing nor misses one that holds
\* a job, and never hands out more than its capacity, whether the report, the
\* recovery or both give the capacity back.
THEOREM PoolKeepsAccount == Spec => []CapacityAccounted
<1>1. Init => CapacityAccounted
  <2> SUFFICES ASSUME Init PROVE CapacityAccounted
    OBVIOUS
  <2>1. {w \in Worker : worker[w].job # NoJob} = {}
    BY DEF Init
  <2>2. pool.active = 0 /\ pool.capacity \in Nat
    BY JobAssumption DEF Init
  <2> QED BY <2>1, <2>2, FS_EmptySet DEF CapacityAccounted
<1>2. TypeOK /\ TypeOK' /\ CapacityAccounted /\ [Next]_vars => CapacityAccounted'
  BY CapacityStep
<1> QED BY TypeCorrect, <1>1, <1>2, PTL DEF Spec
=============================================================================
