------------------------------ MODULE JevPlanner ------------------------------
(***************************************************************************)
(* graphFromExecutionPlan of src/src/jev-planner.js: an ordered list of    *)
(* steps becomes a graph that may run steps side by side.  One step of the *)
(* loop is an action.                                                      *)
(*                                                                         *)
(* A step is a barrier, which observes the whole workspace, of a kind the  *)
(* planner does not know, or writes at a path: a file, a directory or the  *)
(* destination of a copy, which reads another one.  Its key is its place   *)
(* in the list.  A step may declare what it depends on instead.            *)
(*                                                                         *)
(* The planner compares paths as strings, after taking "./" and trailing   *)
(* slashes off; the executors resolve them.  All are below the root.       *)
(***************************************************************************)
EXTENDS Integers, Sequences

CONSTANTS
    Spelling,      \* how a plan may write a path down
    Name,          \* paths as strings
    Under,         \* the pairs <<p, q>> of names of which q starts with p and a slash
    normalizePath, \* what the planner makes of a spelling
    Resolved,      \* the path the executor resolves it to (resolveWorkspacePath)
    NoPath,
    MaxSteps,
    Derived    \* the declaration of a step that declares nothing

ASSUME PlannerAssumption ==
    /\ Under \subseteq Name \X Name
    /\ normalizePath \in [Spelling -> Name] /\ Resolved \in [Spelling -> Name]
    \* Of two directories above one path, one is above the other.
    /\ \A p, q \in Name : \A r \in Name :
          <<p, r>> \in Under /\ <<q, r>> \in Under => p = q \/ <<p, q>> \in Under \/ <<q, p>> \in Under
    /\ MaxSteps \in Nat \ {0}

VARIABLES
    steps,       \* the steps read so far
    nodeDeps,    \* dependsOn of their nodes
    lastBarrier, \* lastBarrierKey, 0 for null
    writes,      \* writesSinceBarrier
    verdict      \* "reading", then what assertGraphShape says

plannerVars == <<steps, nodeDeps, lastBarrier, writes, verdict>>

PlannerInit ==
    /\ steps = <<>> /\ nodeDeps = <<>>
    /\ lastBarrier = 0 /\ writes = {}
    /\ verdict = "reading"

StepKey == 1..MaxSteps
Declaration == {Derived} \cup {{k} : k \in StepKey} \cup {{}}
WaitsForAll == {"barrier", "unknown"}  \* kinds that wait for all there is
Written == {"write", "copy"}       \* WRITE_KINDS
PlanStep == [kind : WaitsForAll, path : {NoPath}, source : {NoPath}, declared : Declaration]
       \cup [kind : {"write"}, path : Spelling, source : {NoPath}, declared : Declaration]
       \cup [kind : {"copy"}, path : Spelling, source : Spelling, declared : Declaration]

\* A faulty variant: only a directory written before its files is noticed.
InterferesBelow(p, q) == p = q \/ <<p, q>> \in Under

\* pathsInterfere
Interferes(p, q) == p = q \/ <<p, q>> \in Under \/ <<q, p>> \in Under

\* A copy counts with its destination alone.
pathOfStep(step) == normalizePath[step.path]

\* A barrier and a step of an unknown kind wait for every step before them, a write for
\* the last barrier and for the writes since then that touch its path.
DependenciesOf(step) ==
    IF step.declared # Derived THEN step.declared
    ELSE IF step.kind \in WaitsForAll THEN DOMAIN steps
    ELSE ({lastBarrier} \ {0}) \cup {w \in writes : Interferes(pathOfStep(steps[w]), pathOfStep(step))}

\* A step of an unknown kind is no barrier for those behind it.
ConvertStep ==
    /\ verdict = "reading" /\ Len(steps) < MaxSteps
    /\ \E step \in PlanStep :
           LET key == Len(steps) + 1 IN
           /\ steps' = Append(steps, step)
           /\ nodeDeps' = Append(nodeDeps, DependenciesOf(step))
           /\ lastBarrier' = IF step.kind = "barrier" THEN key ELSE lastBarrier
           /\ writes' = CASE step.kind = "barrier" -> {}
                          [] step.kind \in Written -> writes \cup {key}
                          [] OTHER                 -> writes
    /\ UNCHANGED verdict

\* assertGraphShape looks at what was declared before anything is stored.
CheckShape ==
    /\ verdict = "reading" /\ steps # <<>>
    /\ verdict' = IF /\ \A n \in DOMAIN steps : nodeDeps[n] \subseteq (DOMAIN steps) \ {n}
                     /\ \A S \in SUBSET (DOMAIN steps) : S # {} => \E n \in S : nodeDeps[n] \cap S = {}
                  THEN "stored" ELSE "refused"
    /\ UNCHANGED <<steps, nodeDeps, lastBarrier, writes>>

PlannerNext == ConvertStep \/ CheckShape

PlannerSpec == PlannerInit /\ [][PlannerNext]_plannerVars

-----------------------------------------------------------------------------
(* Properties *)

\* m runs before n in every execution of the graph: wherever n is done, so is m.
RunsBefore(m, n) ==
    \A done \in SUBSET (DOMAIN steps) :
        n \in done /\ (\A k \in done : nodeDeps[k] \subseteq done) => m \in done

Below(p) == {p} \cup {q \in Name : <<p, q>> \in Under}

\* What a step writes, and what it writes or reads.
Writes(step) == Below(Resolved[step.path])
Touches(step) == Writes(step) \cup (IF step.kind = "copy" THEN Below(Resolved[step.source]) ELSE {})

\* One of two steps may observe what the other does.
MaySee(m, n) ==
    \/ {steps[m].kind, steps[n].kind} \cap WaitsForAll # {}
    \/ Writes(steps[m]) \cap Touches(steps[n]) # {}
    \/ Touches(steps[m]) \cap Writes(steps[n]) # {}

BarrierBetween(m, n) == \E b \in (m + 1)..(n - 1) : steps[b].kind = "barrier"

\* The planner compares the path of the step by the name of its place.
Plain(step) == pathOfStep(step) = Resolved[step.path]

\* What the planner does not see between one barrier and the next: a step of an unknown
\* kind before a write, a path spelt in another way, and what a copy reads.
Overlooked(m, n) ==
    /\ ~BarrierBetween(m, n)
    /\ "barrier" \notin {steps[m].kind, steps[n].kind} /\ steps[n].kind \in Written
    /\ \/ steps[m].kind = "unknown"
       \/ ~Plain(steps[m]) \/ ~Plain(steps[n])
       \/ Writes(steps[m]) \cap Writes(steps[n]) = {}

\* Of two steps one of which may observe the other the earlier one runs first, across any
\* number of barriers between them, unless a step that declares its own dependencies
\* stands between them. The exceptions are what the planner overlooks between barriers:
\* "a graph must not be weaker than that list" holds of barriers and of writes at plainly
\* spelt paths, not of what a copy reads.
ListOrderIsKept ==
    verdict = "stored" =>
        \A n \in DOMAIN steps : \A m \in 1..(n - 1) :
            /\ \A k \in (m + 1)..n : steps[k].declared = Derived
            /\ MaySee(m, n)
            => RunsBefore(m, n) \/ Overlooked(m, n)
=============================================================================
