------------------------- MODULE TaskExecutionProofs -------------------------
(***************************************************************************)
(* Theorems about the work of a task: the engine that carries a flat plan  *)
(* out and the verification of it, for any number of requests and          *)
(* verifiers, any plans and any number of tries; and the agents a task is  *)
(* given over its life, for any number of requests, sweeps and workers.    *)
(***************************************************************************)
EXTENDS TaskExecution, TaskLifecycle, FiniteSetTheorems, SequenceTheorems, WellFoundedInduction, TLAPS

\* Before a request has recorded its result, and from then on.
Early      == {"idle", "planned", "step", "runs", "tried", "failed"}
EnginePc   == Early \cup {"recorded", "throws", "ended"}
VerifierPc == {"idle", "look", "store", "accept", "complete"}
RowStatus  == {"none", "running", "failed", "completed"}
StepState  == {"pending", "running", "passed", "failed"}
Plan       == StepPlans \cup {<<>>}
Engine     == [pc : EnginePc, kinds : Plan, st : Seq(StepState), at : Nat, try : Nat,
               killed : BOOLEAN, live : SUBSET (Nat \X Nat)]
RunRow     == [status : RowStatus, steps : Seq(StepState), kinds : Plan]

EngineOK   == eng \in [Request -> Engine]
RowsOK     == runRow \in [Request -> RunRow] /\ begun \in Seq(Request)
VerifierOK ==
    verif \in [Verifier -> [pc : VerifierPc, run : Request \cup {NoRequest},
                            row : RunRow, sound : BOOLEAN]]
CriteriaOK ==
    criterion \in [Criterion -> [status : {"pending", "passed", "failed"},
                                 run : Request \cup {NoRequest}]]

TypeOK == EngineOK /\ RowsOK /\ VerifierOK /\ CriteriaOK

-----------------------------------------------------------------------------
(* The processes of a request                                               *)

\* At most one process of the runtime is live.  A process, an engine's too,
\* outlives its attempt only if the runtime was cancelled; and a cancelled
\* runtime starts no other.
OneLive(e) ==
    /\ \A p, q \in OwnProcesses(e) : p = q
    /\ e.pc # "ended" /\ ~e.killed => \A p \in e.live : e.pc = "runs" /\ p = <<e.at, e.try>>
    /\ e.pc = "runs" /\ e.killed => e.kinds[e.at] \notin ByRuntime

\* What is done to a request without a new process keeps it at one.
LEMMA FewerProcesses ==
    ASSUME NEW e, NEW f, OneLive(e), f.live \subseteq e.live,
           f.kinds = e.kinds \/ f.live = {},
           f.pc # "ended" /\ ~f.killed => \A p \in f.live : f.pc = "runs" /\ p = <<f.at, f.try>>,
           f.pc = "runs" /\ f.killed => f.kinds[f.at] \notin ByRuntime
    PROVE  OneLive(f)
BY DEF OneLive, OwnProcesses

EngineGood == EngineOK /\ \A r \in Request : OneLive(eng[r])

\* A set of numbers has a least one.
LEMMA LeastNat ==
    ASSUME NEW T, T \subseteq Nat, T # {}
    PROVE  \E x \in T : \A y \in T : x <= y
<1>1. PICK x \in T : \A y \in T : ~(<<y, x>> \in OpToRel(<, Nat))
  BY WFMin, NatLessThanWellFounded
<1>2. ASSUME NEW y \in T
      PROVE  x <= y
  <2>1. x \in Nat /\ y \in Nat
    OBVIOUS
  <2>2. ~(y < x)
    BY <1>1, <2>1 DEF OpToRel
  <2> QED BY <2>1, <2>2
<1> QED BY <1>2

\* A step of a plan may be marked with a state; there is nothing to mark
\* outside of it.
LEMMA MarkType ==
    ASSUME NEW s \in Seq(StepState), NEW n \in Nat, NEW x \in StepState
    PROVE  [s EXCEPT ![n] = x] \in Seq(StepState)
<1>1. CASE n \in 1..Len(s)
  BY <1>1, ExceptSeq
<1>2. CASE n \notin 1..Len(s)
  <2>1. n \notin DOMAIN s
    BY <1>2, LenProperties
  <2>2. [s EXCEPT ![n] = x] = s
    BY <2>1, LenProperties
  <2> QED BY <2>2
<1> QED BY <1>1, <1>2

\* An attempt starts a process of the runtime where none is live, an engine's
\* beside whatever is live, or none at all.
LEMMA AttemptGood ==
    ASSUME NEW e \in Engine, OneLive(e), e.pc \in {"step", "tried"}
    PROVE  Attempt(e) \in Engine /\ OneLive(Attempt(e))
<1>0. e.pc # "ended" /\ e.pc # "runs"
  OBVIOUS
<1> DEFINE L == e.live \cup {<<e.at, e.try>>}
<1>4. ~e.killed => e.live = {}
  BY <1>0 DEF OneLive
<1>5. L \subseteq Nat \X Nat /\ (e.live = {} => L = {<<e.at, e.try>>})
  BY DEF Engine
<1>1. CASE Refuses(e)
  <2>1. Attempt(e) = [e EXCEPT !.pc = "tried"]
    BY <1>1 DEF Attempt
  <2> DEFINE f == Attempt(e)
  <2>2. /\ f \in Engine /\ f.live = e.live /\ f.kinds = e.kinds /\ f.killed /\ f.pc = "tried"
    BY <1>1, <2>1 DEF Refuses, Engine, EnginePc, Early
  <2> HIDE DEF f
  <2>3. OneLive(f)
    BY <2>2, FewerProcesses
  <2> QED BY <2>2, <2>3 DEF f
<1>2. CASE ~Refuses(e) /\ e.kinds[e.at] \in Spawning
  <2> HIDE DEF L
  <2> DEFINE f == Attempt(e)
  <2>1. Attempt(e) = [e EXCEPT !.pc = "runs", !.live = L]
    BY <1>2 DEF Attempt, L
  <2>2. /\ f \in Engine
        /\ f.pc = "runs" /\ f.live = L /\ f.killed = e.killed
        /\ f.at = e.at /\ f.try = e.try /\ f.kinds = e.kinds
    BY <2>1, <1>5 DEF Engine, EnginePc, Early
  <2> HIDE DEF f
  <2>3. ~f.killed => \A p \in f.live : f.pc = "runs" /\ p = <<f.at, f.try>>
    BY <1>4, <1>5, <2>2
  <2>4. CASE e.kinds[e.at] \in ByRuntime
    <3>1. ~e.killed /\ e.live = {}
      BY <1>2, <1>4, <2>4 DEF Refuses
    <3>2. \A p, q \in OwnProcesses(f) : p = q
      BY <1>5, <2>2, <3>1 DEF OwnProcesses
    <3> QED BY <2>2, <2>3, <3>1, <3>2 DEF OneLive, f
  <2>5. CASE e.kinds[e.at] \notin ByRuntime
    <3>1. \A p \in OwnProcesses(f) : p \in OwnProcesses(e)
      <4> SUFFICES ASSUME NEW p \in OwnProcesses(f), p = <<e.at, e.try>>
                   PROVE  FALSE
        BY <2>2 DEF OwnProcesses, L
      <4>1. p[1] = e.at
        OBVIOUS
      <4> QED BY <2>2, <2>5, <4>1 DEF OwnProcesses
    <3>2. \A p, q \in OwnProcesses(f) : p = q
      BY <3>1 DEF OneLive
    <3> QED BY <2>2, <2>3, <2>5, <3>2 DEF OneLive, f
  <2> QED BY <2>4, <2>5
<1>3. CASE ~Refuses(e) /\ e.kinds[e.at] \notin Spawning
  <2> DEFINE f == Attempt(e)
  <2>1. Attempt(e) = [e EXCEPT !.pc = "runs", !.live = e.live]
    BY <1>3 DEF Attempt
  <2>2. /\ f \in Engine
        /\ f.pc = "runs" /\ f.live = e.live /\ f.killed = e.killed
        /\ f.at = e.at /\ f.try = e.try /\ f.kinds = e.kinds
    BY <2>1 DEF Engine, EnginePc, Early
  <2> HIDE DEF f
  <2>3. f.kinds[f.at] \notin ByRuntime
    BY <1>3, <2>2 DEF Spawning
  <2>4. OneLive(f)
    BY <1>4, <2>2, <2>3, FewerProcesses
  <2> QED BY <2>2, <2>4 DEF f
<1> QED BY <1>1, <1>2, <1>3

\* What is left of a request is its processes.
LEMMA EndedGood ==
    ASSUME EngineGood, NEW r \in Request
    PROVE  /\ Ended(r) \in Engine /\ OneLive(Ended(r))
           /\ Ended(r).pc = "ended"
<1>1. eng[r] \in Engine /\ OneLive(eng[r])
  BY DEF EngineGood, EngineOK
<1> DEFINE K == IF eng[r].live = {} THEN <<>> ELSE eng[r].kinds
           none == <<>>
           L == eng[r].live
<1>a. Ended(r) = [Resting EXCEPT !.pc = "ended", !.live = L, !.kinds = K]
  BY DEF Ended
<1>b. Resting = [pc |-> "idle", kinds |-> none, st |-> none, at |-> 0, try |-> 0,
                 killed |-> FALSE, live |-> {}]
  BY DEF Resting
<1>3. none \in Seq(StepState)
  OBVIOUS
<1>4. K \in Plan /\ L = eng[r].live /\ (K = eng[r].kinds \/ L = {})
  BY <1>1 DEF Engine, Plan
<1> HIDE DEF K, L, none
<1>2. Ended(r) = [pc |-> "ended", kinds |-> K, st |-> none, at |-> 0, try |-> 0,
                  killed |-> FALSE, live |-> L]
  BY <1>a, <1>b
<1>5. Ended(r) \in Engine
  BY <1>1, <1>2, <1>3, <1>4 DEF Engine, EnginePc
<1>6. OneLive(Ended(r))
  BY <1>1, <1>2, <1>4, FewerProcesses
<1> QED BY <1>2, <1>5, <1>6

\* Whatever happens, a request has at most one process of the runtime.
LEMMA EngineStep ==
    ASSUME EngineGood, [TaskNext]_taskVars
    PROVE  EngineGood'
<1>0. \A r \in Request : eng[r] \in Engine /\ OneLive(eng[r])
  BY DEF EngineGood, EngineOK
<1>1. ASSUME NEW r \in Request, NEW e, Goes(r, e), e \in Engine, OneLive(e)
      PROVE  EngineGood'
  <2>1. \A q \in Request : eng'[q] = IF q = r THEN e ELSE eng[q]
    BY <1>1 DEF Goes, EngineGood, EngineOK
  <2>2. eng' \in [Request -> Engine]
    BY <1>1 DEF Goes, EngineGood, EngineOK
  <2> QED BY <1>0, <1>1, <2>1, <2>2 DEF EngineGood, EngineOK
<1>2. CASE UNCHANGED eng
  BY <1>2 DEF EngineGood, EngineOK
<1>3. ASSUME NEW r \in Request, BuildPlan(r)
      PROVE  EngineGood'
  <2>0. PICK kinds \in StepPlans : \E done \in 0..(Len(kinds) - 1) : Goes(r, Planned(kinds, done))
    BY <1>3 DEF BuildPlan
  <2>1. PICK done \in 0..(Len(kinds) - 1) : Goes(r, Planned(kinds, done))
    BY <2>0
  <2> DEFINE S == [n \in DOMAIN kinds |-> IF n <= done THEN "passed" ELSE "pending"]
  <2>2. kinds \in Seq(StepKind)
    BY ExecutionAssumption
  <2>3. DOMAIN kinds = 1..Len(kinds) /\ Len(kinds) \in Nat
    BY <2>2, LenProperties
  <2>4. S \in [1..Len(kinds) -> StepState]
    BY <2>3 DEF StepState
  <2>5. S \in Seq(StepState)
    BY <2>3, <2>4
  <2>a. Planned(kinds, done) = [Resting EXCEPT !.pc = "planned", !.kinds = kinds, !.st = S]
    BY DEF Planned
  <2> HIDE DEF S
  <2>6. Planned(kinds, done) = [pc |-> "planned", kinds |-> kinds, st |-> S, at |-> 0, try |-> 0,
                                killed |-> FALSE, live |-> {}]
    BY <2>a DEF Resting
  <2>7. Planned(kinds, done) \in Engine /\ OneLive(Planned(kinds, done))
    BY <2>5, <2>6 DEF Engine, EnginePc, Early, Plan, OneLive, OwnProcesses
  <2> QED BY <1>1, <2>1, <2>7
<1>4. ASSUME NEW r \in Request, PushRun(r)
      PROVE  EngineGood'
  <2> DEFINE e == [eng[r] EXCEPT !.pc = "step"]
  <2>1. /\ e \in Engine /\ e.pc = "step" /\ e.live = eng[r].live /\ e.killed = eng[r].killed
        /\ e.kinds = eng[r].kinds
    BY <1>0 DEF Engine, EnginePc, Early
  <2>2. Goes(r, e) /\ eng[r].pc = "planned"
    BY <1>4 DEF PushRun
  <2> HIDE DEF e
  <2>3. \A p \in e.live : e.killed
    BY <1>0, <2>1, <2>2 DEF OneLive
  <2>4. OneLive(e)
    BY <1>0, <2>1, <2>3, FewerProcesses
  <2> QED BY <1>1, <2>1, <2>2, <2>4
<1>5. ASSUME NEW r \in Request, StartStep(r)
      PROVE  EngineGood'
  <2> DEFINE n == CHOOSE n \in Ahead(r) : \A m \in Ahead(r) : n <= m
  <2>1. eng[r].pc = "step" /\ Goes(r, Attempt([eng[r] EXCEPT !.at = n, !.st[n] = "running",
                                                             !.try = 1]))
    BY <1>5 DEF StartStep
  <2>2. n \in Nat
    <3>1. Ahead(r) \subseteq Nat /\ Ahead(r) # {}
      <4>1. eng[r].kinds \in Seq(StepKind)
        <5>1. eng[r].kinds \in StepPlans \cup {<<>>}
          BY <1>0 DEF Engine, Plan
        <5>2. <<>> \in Seq(StepKind)
          OBVIOUS
        <5> QED BY <5>1, <5>2, ExecutionAssumption
      <4>2. DOMAIN eng[r].kinds \subseteq Nat
        BY <4>1, LenProperties
      <4> QED BY <1>5, <4>2 DEF Ahead, StartStep
    <3>2. \E k \in Ahead(r) : \A m \in Ahead(r) : k <= m
      BY <3>1, LeastNat
    <3> QED BY <3>1, <3>2
  <2> HIDE DEF n
  <2> DEFINE S == [eng[r].st EXCEPT ![n] = "running"]
             e == [eng[r] EXCEPT !.at = n, !.st = S, !.try = 1]
  <2>3. [eng[r] EXCEPT !.at = n, !.st[n] = "running", !.try = 1] = e
    BY <1>0 DEF Engine
  <2>4. S \in Seq(StepState)
    BY <1>0, <2>2, MarkType DEF Engine, StepState
  <2> HIDE DEF S
  <2>5. /\ e \in Engine /\ e.pc = "step" /\ e.live = eng[r].live /\ e.killed = eng[r].killed
        /\ e.kinds = eng[r].kinds
    BY <1>0, <2>1, <2>2, <2>4 DEF Engine
  <2>7. \A p \in eng[r].live : eng[r].killed
    BY <1>0, <2>1 DEF OneLive
  <2> HIDE DEF e
  <2>6. OneLive(e)
    BY <1>0, <2>5, <2>7, FewerProcesses
  <2> QED BY <1>1, <2>1, <2>3, <2>5, <2>6, AttemptGood
<1>6. ASSUME NEW r \in Request, Succeeds(r)
      PROVE  EngineGood'
  <2>1. PICK pc \in {"step", "tried"} :
          Goes(r, [eng[r] EXCEPT !.pc = pc, !.st = Marked(r, "passed"),
                                 !.live = eng[r].live \ {Operation(r)}])
    BY <1>6 DEF Succeeds
  <2> DEFINE S == Marked(r, "passed")
             e == [eng[r] EXCEPT !.pc = pc, !.st = S, !.live = eng[r].live \ {Operation(r)}]
  <2>2. S \in Seq(StepState)
    BY <1>0, MarkType DEF Marked, Engine, StepState
  <2> HIDE DEF S
  <2>3. /\ e \in Engine /\ e.pc = pc /\ e.live = eng[r].live \ {Operation(r)}
        /\ e.killed = eng[r].killed /\ e.kinds = eng[r].kinds
    BY <1>0, <2>2 DEF Engine, EnginePc, Early
  <2>5. ~eng[r].killed => eng[r].live \ {Operation(r)} = {}
    BY <1>0, <1>6 DEF OneLive, Succeeds, Operation
  <2> HIDE DEF e
  <2>4. OneLive(e)
    BY <1>0, <2>3, <2>5, FewerProcesses
  <2> QED BY <1>1, <2>1, <2>3, <2>4 DEF e, S
<1>7. ASSUME NEW r \in Request, Fails(r)
      PROVE  EngineGood'
  <2> DEFINE e == [eng[r] EXCEPT !.pc = "tried", !.live = eng[r].live \ {Operation(r)}]
  <2>1. Goes(r, e)
    BY <1>7 DEF Fails
  <2>2. /\ e \in Engine /\ e.pc = "tried" /\ e.live = eng[r].live \ {Operation(r)}
        /\ e.killed = eng[r].killed /\ e.kinds = eng[r].kinds
    BY <1>0 DEF Engine, EnginePc, Early
  <2>4. ~eng[r].killed => eng[r].live \ {Operation(r)} = {}
    BY <1>0, <1>7 DEF OneLive, Fails, Operation
  <2> HIDE DEF e
  <2>3. OneLive(e)
    BY <1>0, <2>2, <2>4, FewerProcesses
  <2> QED BY <1>1, <2>1, <2>2, <2>3
<1>8. ASSUME NEW r \in Request, TimesOut(r)
      PROVE  EngineGood'
  <2> DEFINE e == [eng[r] EXCEPT !.pc = "tried", !.killed = TRUE]
  <2>1. Goes(r, e)
    BY <1>8 DEF TimesOut
  <2>2. /\ e \in Engine /\ e.pc = "tried" /\ e.live = eng[r].live /\ e.killed
        /\ e.kinds = eng[r].kinds
    BY <1>0 DEF Engine, EnginePc, Early
  <2> HIDE DEF e
  <2>3. OneLive(e)
    BY <1>0, <2>2, FewerProcesses
  <2> QED BY <1>1, <2>1, <2>2, <2>3
<1>9. ASSUME NEW r \in Request, EndsLate(r)
      PROVE  EngineGood'
  <2>1. PICK op \in eng[r].live : Goes(r, [eng[r] EXCEPT !.live = eng[r].live \ {op}])
    BY <1>9 DEF EndsLate
  <2> DEFINE e == [eng[r] EXCEPT !.live = eng[r].live \ {op}]
  <2>2. /\ e \in Engine /\ e.pc = eng[r].pc /\ e.live = eng[r].live \ {op}
        /\ e.killed = eng[r].killed /\ e.at = eng[r].at /\ e.try = eng[r].try
        /\ e.kinds = eng[r].kinds
    BY <1>0 DEF Engine
  <2>4. /\ ~e.killed /\ e.pc # "ended" => \A p \in e.live : e.pc = "runs" /\ p = <<e.at, e.try>>
        /\ e.pc = "runs" /\ e.killed => e.kinds[e.at] \notin ByRuntime
    BY <1>0, <2>2 DEF OneLive
  <2> HIDE DEF e
  <2>3. OneLive(e)
    BY <1>0, <2>2, <2>4, FewerProcesses
  <2> QED BY <1>1, <2>1, <2>2, <2>3 DEF e
<1>10. ASSUME NEW r \in Request, AfterAttempt(r)
       PROVE  EngineGood'
  <2> DEFINE again == [eng[r] EXCEPT !.try = eng[r].try + 1]
             on    == [eng[r] EXCEPT !.pc = "step"]
             S     == Marked(r, "failed")
             gone  == [eng[r] EXCEPT !.pc = "failed", !.st = S]
  <2>0. eng[r].pc = "tried"
    BY <1>10 DEF AfterAttempt
  <2>a. \A p \in eng[r].live : eng[r].killed
    BY <1>0, <2>0 DEF OneLive
  <2>1. Goes(r, Attempt(again)) \/ Goes(r, on) \/ Goes(r, gone)
    BY <1>10 DEF AfterAttempt
  <2>2. /\ again \in Engine /\ again.pc = "tried"
        /\ again.live = eng[r].live /\ again.killed = eng[r].killed /\ again.kinds = eng[r].kinds
    BY <1>0, <2>0 DEF Engine
  <2>3. /\ on \in Engine /\ on.pc = "step"
        /\ on.live = eng[r].live /\ on.killed = eng[r].killed /\ on.kinds = eng[r].kinds
    BY <1>0 DEF Engine, EnginePc, Early
  <2>4. S \in Seq(StepState)
    BY <1>0, MarkType DEF Marked, Engine, StepState
  <2> HIDE DEF S
  <2>5. /\ gone \in Engine /\ gone.pc = "failed"
        /\ gone.live = eng[r].live /\ gone.killed = eng[r].killed /\ gone.kinds = eng[r].kinds
    BY <1>0, <2>4 DEF Engine, EnginePc, Early
  <2> HIDE DEF again, on, gone
  <2>6. OneLive(again) /\ OneLive(on) /\ OneLive(gone)
    BY <1>0, <2>a, <2>2, <2>3, <2>5, FewerProcesses
  <2> QED BY <1>1, <2>1, <2>2, <2>3, <2>5, <2>6, AttemptGood
<1>11. ASSUME NEW r \in Request, Throws(r)
       PROVE  EngineGood'
  <2> DEFINE e == [eng[r] EXCEPT !.pc = "throws"]
  <2>1. /\ e \in Engine /\ e.pc = "throws"
        /\ e.live = eng[r].live /\ e.killed = eng[r].killed /\ e.kinds = eng[r].kinds
    BY <1>0 DEF Engine, EnginePc, Early
  <2>2. Goes(r, e) /\ \A p \in eng[r].live : eng[r].killed
    BY <1>0, <1>11 DEF Throws, OneLive
  <2> HIDE DEF e
  <2>3. OneLive(e)
    BY <1>0, <2>1, <2>2, FewerProcesses
  <2> QED BY <1>1, <2>1, <2>2, <2>3
<1>12. ASSUME NEW r \in Request, RecordResult(r)
       PROVE  EngineGood'
  <2> DEFINE e == [eng[r] EXCEPT !.pc = "recorded"]
  <2>1. /\ e \in Engine /\ e.pc = "recorded"
        /\ e.live = eng[r].live /\ e.killed = eng[r].killed /\ e.kinds = eng[r].kinds
    BY <1>0 DEF Engine, EnginePc, Early
  <2>2. Goes(r, e) /\ \A p \in eng[r].live : eng[r].killed
    BY <1>0, <1>12 DEF RecordResult, OneLive
  <2> HIDE DEF e
  <2>3. OneLive(e)
    BY <1>0, <2>1, <2>2, FewerProcesses
  <2> QED BY <1>1, <2>1, <2>2, <2>3
<1>13. ASSUME NEW r \in Request, Announce(r) \/ RecordError(r)
       PROVE  EngineGood'
  BY <1>1, <1>13, EndedGood DEF Announce, RecordError
<1>14. CASE Restart
  <2>1. \A r \in Request : eng'[r] \in Engine /\ OneLive(eng'[r])
    BY <1>0, <1>14, EndedGood DEF Restart
  <2> QED BY <1>14, <2>1 DEF Restart, EngineGood, EngineOK
<1>15. CASE \E v \in Verifier : \/ ReadEvidence(v) \/ LookForArtifact(v) \/ StoreVerdict(v)
                                \/ ReadCriteria(v) \/ Complete(v)
  BY <1>2, <1>15 DEF ReadEvidence, LookForArtifact, StoreVerdict, ReadCriteria, Complete
<1> QED
  BY <1>2, <1>3, <1>4, <1>5, <1>6, <1>7, <1>8, <1>9, <1>10, <1>11, <1>12, <1>13, <1>14, <1>15
     DEF TaskNext, taskVars

\* A set whose elements are all the same has at most one.
LEMMA AtMostOne ==
    ASSUME NEW S, \A p, q \in S : p = q
    PROVE  Cardinality(S) <= 1
<1>1. CASE S = {}
  BY <1>1, FS_EmptySet
<1>2. CASE S # {}
  <2>1. PICK p \in S : S = {p}
    BY <1>2
  <2>2. Cardinality(S) = 1
    BY <2>1, FS_Singleton, Zenon
  <2> QED BY <2>2
<1> QED BY <1>1, <1>2

\* The initial engines have nothing to run.
LEMMA EngineInit == TaskInit => EngineGood
<1> SUFFICES ASSUME TaskInit PROVE EngineGood
  OBVIOUS
<1>1. Resting \in Engine /\ OneLive(Resting)
  <2> DEFINE none == <<>>
  <2>1. none \in Seq(StepState) /\ none \in Plan
    BY DEF Plan
  <2>2. Resting = [pc |-> "idle", kinds |-> none, st |-> none, at |-> 0, try |-> 0,
                   killed |-> FALSE, live |-> {}]
    BY DEF Resting
  <2> HIDE DEF none
  <2> QED BY <2>1, <2>2 DEF OneLive, OwnProcesses, Engine, EnginePc, Early
<1> QED BY <1>1 DEF TaskInit, EngineGood, EngineOK

\* Whatever times out, is retried, is restarted or ends late, a request never
\* has two processes of the local runtime: a cancelled runtime starts no second
\* one, and only a cancelled one leaves a process behind.
THEOREM NoSecondProcess == TaskSpec => []OneProcessAtATime
<1>1. EngineGood /\ [TaskNext]_taskVars => EngineGood'
  BY EngineStep
<1>2. EngineGood => OneProcessAtATime
  BY AtMostOne DEF EngineGood, OneLive, OneProcessAtATime
<1> QED BY EngineInit, <1>1, <1>2, PTL DEF TaskSpec

-----------------------------------------------------------------------------
(* What a verdict rests on                                                  *)

\* A row is empty until the result of its request is recorded.
RowAwaitsResult ==
    \A r \in Request : eng[r].pc \in Early => runRow[r].kinds = <<>>

\* What a verification has read of a result is what is on record.
ReadingStands ==
    \A v \in Verifier :
        verif[v].row.kinds # <<>> =>
            /\ verif[v].run \in Request
            /\ verif[v].row.kinds = runRow[verif[v].run].kinds
            /\ verif[v].row.steps = runRow[verif[v].run].steps

\* A criterion that passed names a run whose recorded steps bear it out.
CriterionStands ==
    \A c \in Criterion :
        criterion[c].status = "passed" =>
            /\ criterion[c].run \in Request
            /\ AllPassed(runRow[criterion[c].run])
            /\ c = "it is deployed" => Did(runRow[criterion[c].run], "deploy")

EvidenceOK == RowAwaitsResult /\ ReadingStands /\ CriterionStands

\* The result on record of a run is never written again; nothing but the status
\* of its row changes.
ResultFinal ==
    \A r \in Request :
        runRow[r].kinds # <<>> =>
            runRow'[r].kinds = runRow[r].kinds /\ runRow'[r].steps = runRow[r].steps

\* Every step records well-formed rows.
LEMMA RowsStep ==
    ASSUME EngineGood, RowsOK, [TaskNext]_taskVars
    PROVE  RowsOK'
<1>1. ASSUME NEW r \in Request, PushRun(r)
      PROVE  RowsOK'
  <2> DEFINE none == <<>>
             new  == [status |-> "running", steps |-> none, kinds |-> none]
  <2>1. none \in Seq(StepState) /\ none \in Plan
    BY DEF Plan
  <2>2. NoRow = [status |-> "none", steps |-> none, kinds |-> none]
    BY DEF NoRow
  <2> HIDE DEF none
  <2>3. [NoRow EXCEPT !.status = "running"] = new
    BY <2>2
  <2>4. new \in RunRow
    BY <2>1 DEF RunRow, RowStatus
  <2> HIDE DEF new
  <2>5. runRow' \in [Request -> RunRow]
    BY <1>1, <2>3, <2>4 DEF PushRun, RowsOK
  <2>6. begun' \in Seq(Request)
    BY <1>1 DEF PushRun, RowsOK
  <2> QED BY <2>5, <2>6 DEF RowsOK
<1>2. ASSUME NEW r \in Request, RecordResult(r)
      PROVE  RowsOK'
  <2>1. eng[r] \in Engine
    BY DEF EngineGood, EngineOK
  <2>2. PICK s \in {"failed", "completed"} :
          runRow' = [runRow EXCEPT ![r] = [status |-> s, steps |-> eng[r].st,
                                           kinds |-> eng[r].kinds]]
    BY <1>2 DEF RecordResult
  <2>3. [status |-> s, steps |-> eng[r].st, kinds |-> eng[r].kinds] \in RunRow
    BY <2>1 DEF Engine, RunRow, RowStatus
  <2> QED BY <1>2, <2>2, <2>3 DEF RecordResult, RowsOK
<1>3. ASSUME NEW r \in Request, RecordError(r)
      PROVE  RowsOK'
  BY <1>3 DEF RecordError, RowsOK, RunRow, RowStatus
<1>4. CASE UNCHANGED <<runRow, begun>>
  BY <1>4 DEF RowsOK
<1> QED
  BY <1>1, <1>2, <1>3, <1>4 DEF TaskNext, taskVars, BuildPlan, StartStep, Succeeds, Fails,
       TimesOut, EndsLate, AfterAttempt, Throws, Announce, Restart, ReadEvidence,
       LookForArtifact, StoreVerdict, ReadCriteria, Complete, Evidence

\* A request gets its row once, and its result is recorded once.
LEMMA ResultStep ==
    ASSUME EngineGood, RowsOK, RowAwaitsResult, [TaskNext]_taskVars
    PROVE  RowAwaitsResult' /\ ResultFinal
<1>0. \A r \in Request : eng[r] \in Engine /\ eng'[r] \in Engine /\ runRow[r] \in RunRow
  BY EngineStep DEF EngineGood, EngineOK, RowsOK
<1>1. ASSUME NEW r \in Request, PushRun(r)
      PROVE  RowAwaitsResult' /\ ResultFinal
  <2>1. eng[r].pc = "planned" /\ runRow[r].kinds = <<>>
    BY <1>1 DEF PushRun, RowAwaitsResult, Early
  <2>2. NoRow.kinds = <<>> /\ [NoRow EXCEPT !.status = "running"].kinds = <<>>
    BY DEF NoRow
  <2>3. \A q \in Request : /\ runRow'[q].kinds = runRow[q].kinds
                           /\ q # r => runRow'[q] = runRow[q] /\ eng'[q] = eng[q]
    BY <1>1, <2>1, <2>2 DEF PushRun, RowsOK, Goes, EngineGood, EngineOK
  <2> QED BY <2>1, <2>3 DEF RowAwaitsResult, ResultFinal
<1>2. ASSUME NEW r \in Request, RecordResult(r)
      PROVE  RowAwaitsResult' /\ ResultFinal
  <2>1. eng[r].pc \in Early /\ runRow[r].kinds = <<>>
    BY <1>2 DEF RecordResult, RowAwaitsResult, Early
  <2>2. eng'[r].pc = "recorded"
    BY <1>0, <1>2 DEF RecordResult, Goes, EngineGood, EngineOK, Engine
  <2>3. \A q \in Request \ {r} : runRow'[q] = runRow[q] /\ eng'[q] = eng[q]
    BY <1>2 DEF RecordResult, RowsOK, Goes, EngineGood, EngineOK
  <2> QED BY <2>1, <2>2, <2>3 DEF RowAwaitsResult, ResultFinal, Early
<1>3. ASSUME NEW r \in Request, RecordError(r)
      PROVE  RowAwaitsResult' /\ ResultFinal
  <2>1. eng'[r].pc = "ended"
    BY <1>0, <1>3, EndedGood DEF RecordError, Goes, EngineGood, EngineOK
  <2>2. \A q \in Request : /\ runRow'[q].kinds = runRow[q].kinds
                           /\ runRow'[q].steps = runRow[q].steps
                           /\ q # r => eng'[q] = eng[q]
    <3>1. \A q \in Request \ {r} : eng'[q] = eng[q]
      BY <1>3 DEF RecordError, Goes, EngineGood, EngineOK
    <3>2. CASE UNCHANGED runRow
      BY <3>1, <3>2
    <3>3. CASE runRow' = [runRow EXCEPT ![r].status = "failed"]
      BY <1>0, <3>1, <3>3 DEF RowsOK, RunRow
    <3> QED BY <1>3, <3>2, <3>3 DEF RecordError
  <2> QED BY <2>1, <2>2 DEF RowAwaitsResult, ResultFinal, Early
<1>4. ASSUME UNCHANGED runRow,
             \A r \in Request : eng'[r].pc \in Early => eng[r].pc \in Early
      PROVE  RowAwaitsResult' /\ ResultFinal
  BY <1>4 DEF RowAwaitsResult, ResultFinal
<1>5. ASSUME NEW r \in Request,
             \/ BuildPlan(r) \/ StartStep(r) \/ Succeeds(r) \/ Fails(r) \/ TimesOut(r)
             \/ EndsLate(r) \/ AfterAttempt(r)
      PROVE  RowAwaitsResult' /\ ResultFinal
  <2>1. UNCHANGED runRow /\ \A q \in Request \ {r} : eng'[q] = eng[q]
    BY <1>5 DEF BuildPlan, StartStep, Succeeds, Fails, TimesOut, EndsLate, AfterAttempt,
         Goes, EngineGood, EngineOK
  <2>2. eng'[r].pc \in Early => eng[r].pc \in Early
    <3>1. CASE EndsLate(r)
      BY <1>0, <3>1 DEF EndsLate, Goes, EngineGood, EngineOK, Engine
    <3>2. CASE ~EndsLate(r)
      BY <1>5, <3>2 DEF BuildPlan, StartStep, Succeeds, Fails, TimesOut, AfterAttempt, Early
    <3> QED BY <3>1, <3>2
  <2> QED BY <1>4, <2>1, <2>2
<1>6. ASSUME NEW r \in Request, Throws(r) \/ Announce(r)
      PROVE  RowAwaitsResult' /\ ResultFinal
  <2>1. UNCHANGED runRow /\ \A q \in Request \ {r} : eng'[q] = eng[q]
    BY <1>6 DEF Throws, Announce, Goes, EngineGood, EngineOK
  <2>2. eng'[r].pc \in {"throws", "ended"}
    BY <1>0, <1>6, EndedGood DEF Throws, Announce, Goes, EngineGood, EngineOK, Engine
  <2> QED BY <1>4, <2>1, <2>2 DEF Early
<1>7. CASE Restart
  <2>1. UNCHANGED runRow /\ \A r \in Request : eng'[r].pc \in Early => eng[r].pc \in Early
    BY <1>7, EndedGood DEF Restart, Early
  <2> QED BY <1>4, <2>1
<1>8. CASE \/ UNCHANGED taskVars
           \/ \E v \in Verifier : \/ ReadEvidence(v) \/ LookForArtifact(v) \/ StoreVerdict(v)
                                 \/ ReadCriteria(v) \/ Complete(v)
  BY <1>4, <1>8 DEF taskVars, ReadEvidence, LookForArtifact, StoreVerdict, ReadCriteria, Complete
<1> QED BY <1>1, <1>2, <1>3, <1>5, <1>6, <1>7, <1>8 DEF TaskNext

\* A verification without failures has read a result of a run.
LEMMA NoFailuresReadsResult ==
    ASSUME NEW v \in Verifier, NEW c \in Criterion, ReadingStands, Meets(c, v)
    PROVE  /\ verif[v].run \in Request
           /\ AllPassed(runRow[verif[v].run])
           /\ c = "it is deployed" => Did(runRow[verif[v].run], "deploy")
BY DEF ReadingStands, Meets, NoFailures, AllPassed, Did

\* What a verification has read stays what is on record, whatever the requests,
\* a restart and other verifications do.
LEMMA ReadingStep ==
    ASSUME RowsOK, VerifierOK, ReadingStands, ResultFinal, [TaskNext]_taskVars
    PROVE  VerifierOK' /\ ReadingStands'
<1> DEFINE VType == [pc : VerifierPc, run : Request \cup {NoRequest}, row : RunRow, sound : BOOLEAN]
           Stands(x) == x.row.kinds # <<>> =>
                          /\ x.run \in Request
                          /\ x.row.kinds = runRow[x.run].kinds
                          /\ x.row.steps = runRow[x.run].steps
           none == <<>>
<1>a. NoRow = [status |-> "none", steps |-> none, kinds |-> none]
  BY DEF NoRow
<1>b. none \in Seq(StepState) /\ none \in Plan /\ none = <<>>
  BY DEF Plan
<1> HIDE DEF none
<1>c. NoRow \in RunRow /\ NoRow.kinds = <<>>
  BY <1>a, <1>b DEF RunRow, RowStatus
<1>d. /\ Unverified = [pc |-> "idle", run |-> NoRequest, row |-> NoRow, sound |-> FALSE]
      /\ Unverified \in VType /\ Stands(Unverified)
  BY <1>c DEF Unverified, VerifierPc
<1>e. \A v \in Verifier : verif[v] \in VType /\ Stands(verif[v])
  BY DEF VerifierOK, ReadingStands
<1>1. ASSUME \A v \in Verifier : verif'[v] \in VType /\ Stands(verif'[v]),
             verif' = [v \in Verifier |-> verif'[v]]
      PROVE  VerifierOK' /\ ReadingStands'
  <2>1. VerifierOK'
    BY <1>1 DEF VerifierOK
  <2>2. ReadingStands'
    BY <1>1 DEF ReadingStands, ResultFinal
  <2> QED BY <2>1, <2>2
<1>2. ASSUME NEW v \in Verifier, NEW x \in VType, Stands(x), Checks(v, x)
      PROVE  VerifierOK' /\ ReadingStands'
  <2>1. \A w \in Verifier : verif'[w] = IF w = v THEN x ELSE verif[w]
    BY <1>2 DEF Checks, VerifierOK
  <2>2. verif' = [w \in Verifier |-> verif'[w]]
    BY <1>2 DEF Checks, VerifierOK
  <2> HIDE DEF VType, Stands
  <2> QED BY <1>1, <1>2, <1>e, <2>1, <2>2
<1>3. CASE UNCHANGED verif
  <2>1. verif' = [w \in Verifier |-> verif'[w]]
    BY <1>3 DEF VerifierOK
  <2> QED BY <1>1, <1>3, <1>e, <2>1
<1>4. ASSUME NEW v \in Verifier, ReadEvidence(v)
      PROVE  VerifierOK' /\ ReadingStands'
  <2> DEFINE r == IF begun = <<>> THEN NoRequest ELSE begun[Len(begun)]
             row == IF r = NoRequest THEN NoRow ELSE runRow[r]
             x == [Unverified EXCEPT !.pc = "look", !.run = r, !.row = row]
  <2>1. r \in Request \cup {NoRequest}
    BY DEF RowsOK
  <2>2. Checks(v, x)
    BY <1>4 DEF ReadEvidence
  <2>3. row \in RunRow /\ (row.kinds # <<>> => r \in Request /\ row = runRow[r])
    BY <1>c, <2>1 DEF RowsOK
  <2> HIDE DEF r, row
  <2>4. x \in VType /\ x.run = r /\ x.row = row
    BY <1>d, <2>1, <2>3 DEF VerifierPc
  <2>5. Stands(x)
    BY <2>3, <2>4
  <2> HIDE DEF x, VType, Stands
  <2> QED BY <1>2, <2>2, <2>4, <2>5
<1>5. ASSUME NEW v \in Verifier, LookForArtifact(v)
      PROVE  VerifierOK' /\ ReadingStands'
  <2>1. PICK b \in BOOLEAN : Checks(v, [verif[v] EXCEPT !.pc = "store", !.sound = b])
    <3>1. PICK sound \in BOOLEAN :
            Checks(v, [verif[v] EXCEPT !.pc = "store",
                         !.sound = sound /\ (Did(verif[v].row, "package") => InWorkspace(v))])
      BY <1>5 DEF LookForArtifact
    <3>2. (sound /\ (Did(verif[v].row, "package") => InWorkspace(v))) \in BOOLEAN
      OBVIOUS
    <3> QED BY <3>1, <3>2
  <2> DEFINE x == [verif[v] EXCEPT !.pc = "store", !.sound = b]
  <2>2. x \in VType /\ x.run = verif[v].run /\ x.row = verif[v].row
    BY <1>e DEF VerifierPc
  <2>3. Stands(x)
    BY <1>e, <2>2
  <2> HIDE DEF x, VType, Stands
  <2> QED BY <1>2, <2>1, <2>2, <2>3 DEF x
<1>6. ASSUME NEW v \in Verifier, StoreVerdict(v) \/ ReadCriteria(v) \/ Complete(v)
      PROVE  VerifierOK' /\ ReadingStands'
  <2>1. \/ Checks(v, Unverified)
        \/ \E pc \in {"accept", "complete"} : Checks(v, [Unverified EXCEPT !.pc = pc])
    BY <1>6 DEF StoreVerdict, ReadCriteria, Complete
  <2>2. ASSUME NEW pc \in {"accept", "complete"}
        PROVE  /\ [Unverified EXCEPT !.pc = pc] \in VType
               /\ Stands([Unverified EXCEPT !.pc = pc])
    BY <1>c, <1>d DEF VerifierPc
  <2> HIDE DEF VType, Stands
  <2> QED BY <1>2, <1>d, <2>1, <2>2
<1>7. CASE Restart
  <2>1. \A v \in Verifier : verif'[v] = Unverified
    BY <1>7 DEF Restart
  <2>2. verif' = [v \in Verifier |-> verif'[v]]
    BY <1>7 DEF Restart
  <2> HIDE DEF VType, Stands
  <2> QED BY <1>1, <1>d, <2>1, <2>2
<1> QED
  BY <1>3, <1>4, <1>5, <1>6, <1>7 DEF TaskNext, taskVars, Evidence, BuildPlan, PushRun, StartStep,
       Succeeds, Fails, TimesOut, EndsLate, AfterAttempt, Throws, RecordResult, Announce, RecordError

\* A verdict is stored on what was read, and what it names does not change.
LEMMA CriterionStep ==
    ASSUME CriteriaOK, VerifierOK, ReadingStands, CriterionStands, ResultFinal,
           RowsOK, RowsOK', [TaskNext]_taskVars
    PROVE  CriteriaOK' /\ CriterionStands'
<1>0. ASSUME NEW r \in Request, AllPassed(runRow[r])
      PROVE  /\ AllPassed(runRow'[r])
             /\ Did(runRow[r], "deploy") => Did(runRow'[r], "deploy")
  BY <1>0 DEF ResultFinal, AllPassed, Did
<1>1. CASE UNCHANGED criterion
  BY <1>0, <1>1 DEF CriteriaOK, CriterionStands
<1>2. CASE \E v \in Verifier : StoreVerdict(v)
  <2>1. PICK v \in Verifier : StoreVerdict(v)
    BY <1>2
  <2>2. /\ runRow' = runRow
        /\ criterion' = [c \in Criterion |->
                           IF Meets(c, v) THEN [status |-> "passed", run |-> verif[v].run]
                           ELSE [status |-> "failed", run |-> NoRequest]]
    BY <2>1 DEF StoreVerdict
  <2>3. CriteriaOK'
    BY <2>2 DEF CriteriaOK, VerifierOK
  <2>4. CriterionStands'
    BY <2>2, NoFailuresReadsResult DEF CriterionStands, AllPassed, Did
  <2> QED BY <2>3, <2>4
<1> QED
  BY <1>1, <1>2 DEF TaskNext, taskVars, Evidence, BuildPlan, PushRun, StartStep, Succeeds, Fails,
       TimesOut, EndsLate, AfterAttempt, Throws, RecordResult, Announce, RecordError, Restart,
       ReadEvidence, LookForArtifact, ReadCriteria, Complete

\* The initial records are empty.
LEMMA EvidenceInit == TaskInit => TypeOK /\ EvidenceOK
<1> SUFFICES ASSUME TaskInit PROVE TypeOK /\ EvidenceOK
  OBVIOUS
<1> DEFINE none == <<>>
<1>1. NoRow = [status |-> "none", steps |-> none, kinds |-> none]
  BY DEF NoRow
<1>2. none \in Seq(StepState) /\ none \in Plan /\ none \in Seq(Request) /\ none = <<>>
  BY DEF Plan
<1>3. begun = none
  BY DEF TaskInit
<1> HIDE DEF none
<1>4. NoRow \in RunRow /\ NoRow.kinds = <<>>
  BY <1>1, <1>2 DEF RunRow, RowStatus
<1>5. RowsOK
  BY <1>2, <1>3, <1>4 DEF RowsOK, TaskInit
<1>6. VerifierOK
  BY <1>4 DEF VerifierOK, TaskInit, Unverified, VerifierPc
<1>7. CriteriaOK
  BY DEF CriteriaOK, TaskInit
<1>8. EvidenceOK
  BY <1>4 DEF EvidenceOK, RowAwaitsResult, ReadingStands, CriterionStands, TaskInit, Unverified
<1> QED BY EngineInit, <1>5, <1>6, <1>7, <1>8 DEF TypeOK, EngineGood

\* The engines, the rows, the verifications and the criteria keep their types;
\* results are recorded once, and what was read or decided on them stands.
THEOREM TypeCorrect == TaskSpec => [](TypeOK /\ EngineGood /\ EvidenceOK)
<1> DEFINE IInv == TypeOK /\ EngineGood /\ EvidenceOK
<1>1. TaskInit => IInv
  BY EngineInit, EvidenceInit
<1>2. IInv /\ [TaskNext]_taskVars => IInv'
  <2> SUFFICES ASSUME IInv, [TaskNext]_taskVars PROVE IInv'
    OBVIOUS
  <2>1. EngineGood' /\ EngineOK'
    BY EngineStep DEF EngineGood
  <2>2. RowsOK'
    BY RowsStep DEF TypeOK
  <2>3. RowAwaitsResult' /\ ResultFinal
    BY ResultStep DEF TypeOK, EvidenceOK
  <2>4. VerifierOK' /\ ReadingStands'
    BY <2>3, ReadingStep DEF TypeOK, EvidenceOK
  <2>5. CriteriaOK' /\ CriterionStands'
    BY <2>2, <2>3, CriterionStep DEF TypeOK, EvidenceOK
  <2> QED BY <2>1, <2>2, <2>3, <2>4, <2>5 DEF TypeOK, EvidenceOK
<1> QED BY <1>1, <1>2, PTL DEF TaskSpec

\* A criterion that passed rests on a run that passed in all its steps, and in
\* a deployment if it asks for one, whatever was executed, failed or was
\* verified between the reading, the look at the workspace and the verdict.
THEOREM VerdictsRestOnEvidence == TaskSpec => []PassedOnEvidence
<1>1. EvidenceOK => PassedOnEvidence
  BY DEF EvidenceOK, CriterionStands, PassedOnEvidence
<1> QED BY TypeCorrect, <1>1, PTL

\* The recorded result of a run never changes: requests that end late, restarts
\* and further requests write rows of their own.
THEOREM ResultsAreFinal == TaskSpec => [][ResultFinal]_taskVars
<1>1. TypeOK /\ EngineGood /\ EvidenceOK /\ [TaskNext]_taskVars => [ResultFinal]_taskVars
  BY ResultStep DEF TypeOK, EvidenceOK
<1> QED BY TypeCorrect, <1>1, PTL DEF TaskSpec

-----------------------------------------------------------------------------
(* The life of a task: how many agents it may have had                      *)

Standing  == {"ready", "running", "waiting_user", "completed", "cancelled", "failed"}
Stage     == Standing \cup {"ready_for_agent", "queued"}
TaskRow   == [status : Stage, agent : Nat, lost : Nat]
AgentRow  == [task : Nat, status : Standing, from : Nat]
WorkerRow == [status : {"ready", "running", "stopped", "failed"}, lease : Nat,
              expired : BOOLEAN, saved : Nat]
SweepPc   == {"idle", "pick", "clear", "fail", "recreate", "start"}
SweepRow  == [pc : SweepPc, todo : SUBSET Nat, worker : Nat, made : Nat]
CallRow(x) == x = [pc |-> x.pc, task |-> x.task, agent |-> x.agent]

RecordTypes ==
    /\ tasks \in Seq(TaskRow) /\ agents \in Seq(AgentRow) /\ workers \in Seq(WorkerRow)
    /\ Len(workers) = Len(agents)
    /\ grants \in Nat
    /\ call = [c \in Call |-> call[c]] /\ \A c \in Call : CallRow(call[c])
    /\ sweep \in [Recoverer -> SweepRow]

\* Who provisions an agent names a task there is, and an agent of one.
Provisioning ==
    /\ \A a \in DOMAIN agents : agents[a].task \in DOMAIN tasks
    /\ \A c \in Call : call[c].pc \in {"created", "spawn"} => call[c].task \in DOMAIN tasks
    /\ \A r \in Recoverer : sweep[r].pc \in {"clear", "fail", "recreate"} => sweep[r].worker \in DOMAIN agents

\* The sweeps that have recorded the loss of an agent of task t and have not yet
\* made the next one.
Owing(t) == {r \in Recoverer : sweep[r].pc = "recreate" /\ TaskOf(r) = t}

Accounts == \A t \in DOMAIN tasks : Cardinality(AgentsOf(t)) + Cardinality(Owing(t)) <= 1 + tasks[t].lost

LifecycleInv == RecordTypes /\ Provisioning /\ Accounts

-----------------------------------------------------------------------------
(* What happens to the records                                              *)

\* No agent is added, none changes its task, and no loss is forgotten.
AgentsStay ==
    /\ Len(agents') = Len(agents)
    /\ \A a \in DOMAIN agents : agents'[a].task = agents[a].task

LossesStay ==
    /\ Len(tasks) <= Len(tasks')
    /\ \A t \in DOMAIN tasks : tasks'[t].lost = tasks[t].lost

Recorded == tasks' \in Seq(TaskRow) /\ agents' \in Seq(AgentRow) /\ workers' \in Seq(WorkerRow)
            /\ Len(workers') = Len(agents')

LEMMA Rewritten ==
    ASSUME NEW S, NEW s \in Seq(S), NEW t, DOMAIN t = DOMAIN s, t = [j \in DOMAIN s |-> t[j]],
           \A j \in DOMAIN s : t[j] \in S
    PROVE  t \in Seq(S) /\ Len(t) = Len(s)
<1>1. Len(s) \in Nat /\ DOMAIN s = 1..Len(s)
  OBVIOUS
<1>2. t \in [1..Len(s) -> S]
  BY <1>1
<1> QED BY <1>1, <1>2

LEMMA TransitionKeeps ==
    ASSUME RecordTypes, NEW a, NEW s \in Standing, NEW ts \in Stage, NEW w,
           a \in DOMAIN workers => w \in WorkerRow, Transition(a, s, ts, w)
    PROVE  AgentsStay /\ LossesStay /\ Recorded /\ Len(tasks') = Len(tasks)
<1> USE DEF RecordTypes
<1>2. agents' \in Seq(AgentRow) /\ AgentsStay
  <2> DEFINE row == [agents[a] EXCEPT !.status = s]
  <2>1. agents' = [agents EXCEPT ![a] = row]
    BY DEF Transition
  <2>2. a \in DOMAIN agents => agents[a] \in AgentRow
    OBVIOUS
  <2>3. a \in DOMAIN agents => row \in AgentRow /\ row.task = agents[a].task
    BY <2>2 DEF AgentRow
  <2> HIDE DEF row
  <2>4. /\ DOMAIN agents' = DOMAIN agents /\ agents' = [b \in DOMAIN agents |-> agents'[b]]
        /\ \A b \in DOMAIN agents : agents'[b] = IF b = a THEN row ELSE agents[b]
    BY <2>1
  <2>5. agents' \in Seq(AgentRow) /\ Len(agents') = Len(agents)
    <3>1. \A b \in DOMAIN agents : agents'[b] \in AgentRow
      BY <2>3, <2>4
    <3> QED BY <2>4, <3>1, Rewritten
  <2> QED BY <2>3, <2>4, <2>5 DEF AgentsStay
<1>3. tasks' \in Seq(TaskRow) /\ LossesStay /\ Len(tasks') = Len(tasks)
  <2> DEFINE i == agents[a].task
             row == [tasks[i] EXCEPT !.status = ts]
  <2>1. tasks' = [tasks EXCEPT ![i] = row]
    BY DEF Transition
  <2>2. i \in DOMAIN tasks => tasks[i] \in TaskRow
    OBVIOUS
  <2> HIDE DEF i
  <2>3. i \in DOMAIN tasks => row \in TaskRow /\ row.lost = tasks[i].lost
    BY <2>2 DEF TaskRow
  <2> HIDE DEF row
  <2>4. /\ DOMAIN tasks' = DOMAIN tasks /\ tasks' = [b \in DOMAIN tasks |-> tasks'[b]]
        /\ \A b \in DOMAIN tasks : tasks'[b] = IF b = i THEN row ELSE tasks[b]
    BY <2>1
  <2>5. tasks' \in Seq(TaskRow) /\ Len(tasks') = Len(tasks)
    <3>1. \A b \in DOMAIN tasks : tasks'[b] \in TaskRow
      BY <2>3, <2>4
    <3> QED BY <2>4, <3>1, Rewritten
  <2>6. Len(tasks) \in Nat
    OBVIOUS
  <2> HIDE DEF RecordTypes
  <2> QED BY <2>3, <2>4, <2>5, <2>6 DEF LossesStay
<1>4. workers' \in Seq(WorkerRow) /\ Len(workers') = Len(workers)
  <2>1. workers' = [workers EXCEPT ![a] = w]
    BY DEF Transition
  <2>2. /\ DOMAIN workers' = DOMAIN workers /\ workers' = [b \in DOMAIN workers |-> workers'[b]]
        /\ \A b \in DOMAIN workers : workers'[b] = IF b = a THEN w ELSE workers[b]
    BY <2>1
  <2>3. \A b \in DOMAIN workers : workers'[b] \in WorkerRow
    BY <2>2
  <2> QED BY <2>2, <2>3, Rewritten
<1> QED BY <1>2, <1>3, <1>4 DEF Recorded, AgentsStay

\* One more agent, of task t.
NewAgentOf(t) ==
    /\ Len(agents') = Len(agents) + 1 /\ agents'[Len(agents) + 1].task = t
    /\ \A a \in DOMAIN agents : agents'[a].task = agents[a].task

LEMMA NewAgentIs ==
    ASSUME RecordTypes, NEW t \in DOMAIN tasks, NEW f, f = 0 \/ f \in DOMAIN agents, NewAgent(t, f)
    PROVE  NewAgentOf(t) /\ LossesStay /\ Recorded /\ Len(tasks') = Len(tasks)
<1> USE DEF RecordTypes
<1>1. /\ Len(agents) \in Nat /\ t \in Nat /\ f \in Nat
      /\ f # 0 => workers[f] \in WorkerRow
  OBVIOUS
<1>2. NewAgentOf(t) /\ agents' \in Seq(AgentRow)
  <2> DEFINE row == [task |-> t, status |-> "ready", from |-> f]
  <2>1. row \in AgentRow /\ row.task = t /\ agents' = Append(agents, row)
    BY <1>1 DEF AgentRow, Standing, NewAgent
  <2> HIDE DEF row
  <2>2. /\ agents' \in Seq(AgentRow) /\ Len(agents') = Len(agents) + 1
        /\ agents'[Len(agents) + 1] = row
        /\ \A a \in 1..Len(agents) : agents'[a] = agents[a]
    BY <2>1
  <2> QED BY <2>1, <2>2 DEF NewAgentOf
<1>3. workers' \in Seq(WorkerRow) /\ Len(workers') = Len(workers) + 1
  <2> DEFINE row == [status |-> "ready", lease |-> 0, expired |-> FALSE,
                     saved |-> IF f = 0 THEN 0 ELSE workers[f].saved]
  <2>1. row \in WorkerRow
    BY <1>1 DEF WorkerRow
  <2>2. workers' = Append(workers, row)
    BY DEF NewAgent
  <2> HIDE DEF row
  <2> QED BY <2>1, <2>2
<1>4. tasks' \in Seq(TaskRow) /\ LossesStay /\ Len(tasks') = Len(tasks)
  <2> DEFINE row == [[tasks[t] EXCEPT !.status = "queued"] EXCEPT !.agent = Len(agents) + 1]
  <2>1. tasks' = [tasks EXCEPT ![t] = row]
    BY DEF NewAgent
  <2>2. tasks[t] \in TaskRow /\ Len(agents) + 1 \in Nat
    OBVIOUS
  <2>3. row \in TaskRow /\ row.lost = tasks[t].lost
    BY <2>2 DEF TaskRow, Stage
  <2> HIDE DEF row
  <2>4. /\ DOMAIN tasks' = DOMAIN tasks /\ tasks' = [b \in DOMAIN tasks |-> tasks'[b]]
        /\ \A b \in DOMAIN tasks : tasks'[b] = IF b = t THEN row ELSE tasks[b]
    BY <2>1
  <2>5. tasks' \in Seq(TaskRow) /\ Len(tasks') = Len(tasks)
    <3>1. \A b \in DOMAIN tasks : tasks'[b] \in TaskRow
      BY <2>3, <2>4
    <3> QED BY <2>4, <3>1, Rewritten
  <2>6. Len(tasks) \in Nat
    OBVIOUS
  <2> HIDE DEF RecordTypes
  <2> QED BY <2>3, <2>4, <2>5, <2>6 DEF LossesStay
<1> QED BY <1>2, <1>3, <1>4 DEF Recorded, NewAgentOf

-----------------------------------------------------------------------------
(* Counting agents and losses                                               *)

LEMMA LossIsNat == RecordTypes => \A t \in DOMAIN tasks : tasks[t].lost \in Nat
<1> SUFFICES ASSUME RecordTypes, NEW t \in DOMAIN tasks
             PROVE  tasks[t].lost \in Nat
  OBVIOUS
<1>1. tasks[t] \in TaskRow
  BY DEF RecordTypes
<1> QED BY <1>1 DEF TaskRow

LEMMA Counted ==
    ASSUME RecordTypes, NEW t
    PROVE  /\ IsFiniteSet(AgentsOf(t)) /\ Cardinality(AgentsOf(t)) \in Nat
           /\ IsFiniteSet(Owing(t)) /\ Cardinality(Owing(t)) \in Nat
           /\ IsFiniteSet(Recoverer)
<1>1. IsFiniteSet(1..Len(agents)) /\ AgentsOf(t) \subseteq 1..Len(agents)
  BY FS_Interval DEF RecordTypes, AgentsOf
<1>2. IsFiniteSet(Recoverer)
  BY LifecycleAssumption, FS_AddElement DEF Recoverer
<1>3. Owing(t) \subseteq Recoverer
  BY DEF Owing
<1> QED BY <1>1, <1>2, <1>3, FS_Subset, FS_CardinalityType

\* No agent is made: the sweeps that owe one must not be more than losses allow.
LEMMA AccountsStay ==
    ASSUME LifecycleInv, RecordTypes', AgentsStay, LossesStay,
           \A r \in Recoverer : sweep'[r].pc = "recreate" =>
               sweep[r].pc = "recreate" /\ sweep'[r].worker = sweep[r].worker
    PROVE  Accounts'
<1> USE DEF LifecycleInv, RecordTypes
<1> SUFFICES ASSUME NEW t \in DOMAIN tasks'
             PROVE  (Cardinality(AgentsOf(t)) + Cardinality(Owing(t)) <= 1 + tasks[t].lost)'
  BY DEF Accounts
<1>1. AgentsOf(t)' = AgentsOf(t)
  BY DEF AgentsOf, AgentsStay
<1>2. Owing(t)' \subseteq Owing(t)
  <2> SUFFICES ASSUME NEW r \in Recoverer, sweep'[r].pc = "recreate", TaskOf(r)' = t
               PROVE  r \in Owing(t)
    BY DEF Owing
  <2>1. sweep[r].pc = "recreate" /\ sweep'[r].worker = sweep[r].worker /\ sweep[r].worker \in DOMAIN agents
    BY DEF Provisioning
  <2> QED BY <2>1 DEF Owing, TaskOf, AgentsStay
<1>3. /\ Cardinality(Owing(t)') <= Cardinality(Owing(t))
      /\ Cardinality(Owing(t)) \in Nat /\ Cardinality(AgentsOf(t)) \in Nat /\ Cardinality(Owing(t)') \in Nat
  BY <1>2, Counted, FS_Subset, FS_CardinalityType
<1>4. CASE t \in DOMAIN tasks
  <2>1. tasks'[t].lost = tasks[t].lost /\ tasks[t].lost \in Nat
    BY <1>4, LossIsNat DEF LossesStay
  <2>2. Cardinality(AgentsOf(t)) + Cardinality(Owing(t)) <= 1 + tasks[t].lost
    BY <1>4 DEF Accounts
  <2> QED BY <1>1, <1>3, <2>1, <2>2
<1>5. CASE t \notin DOMAIN tasks
  <2>1. AgentsOf(t) = {}
    BY <1>5 DEF AgentsOf, Provisioning
  <2>2. Owing(t) = {}
    BY <1>5 DEF Owing, TaskOf, Provisioning
  <2>3. Cardinality(AgentsOf(t)') = 0 /\ Cardinality(Owing(t)') = 0
    BY <1>1, <1>2, <2>1, <2>2, FS_EmptySet
  <2>4. tasks'[t].lost \in Nat
    <3>1. tasks'[t] \in TaskRow
      OBVIOUS
    <3> QED BY <3>1 DEF TaskRow
  <2> QED BY <2>3, <2>4
<1> QED BY <1>4, <1>5

\* An agent is made of task t, which had none or is owed one.
LEMMA AccountsGrow ==
    ASSUME LifecycleInv, RecordTypes', NEW t \in DOMAIN tasks, NewAgentOf(t), LossesStay,
           Len(tasks') = Len(tasks),
           \A r \in Recoverer : sweep'[r].pc = "recreate" =>
               sweep[r].pc = "recreate" /\ sweep'[r].worker = sweep[r].worker,
           \/ AgentsOf(t) = {}
           \/ \E r \in Owing(t) : sweep'[r].pc # "recreate"
    PROVE  Accounts'
<1> USE DEF LifecycleInv, RecordTypes
<1> DEFINE new == Len(agents) + 1
<1>0. new \in Nat /\ new \notin DOMAIN agents /\ DOMAIN agents' = DOMAIN agents \cup {new}
  BY DEF NewAgentOf
<1>1. \A s : AgentsOf(s)' = IF s = t THEN AgentsOf(s) \cup {new} ELSE AgentsOf(s)
  BY <1>0 DEF AgentsOf, NewAgentOf
<1>2. \A s : Owing(s)' \subseteq Owing(s)
  <2> SUFFICES ASSUME NEW s, NEW r \in Recoverer, sweep'[r].pc = "recreate", TaskOf(r)' = s
               PROVE  r \in Owing(s)
    BY DEF Owing
  <2>1. sweep[r].pc = "recreate" /\ sweep'[r].worker = sweep[r].worker /\ sweep[r].worker \in DOMAIN agents
    BY DEF Provisioning
  <2>2. agents'[sweep[r].worker].task = agents[sweep[r].worker].task
    BY <2>1 DEF NewAgentOf
  <2> QED BY <2>1, <2>2 DEF Owing, TaskOf
<1>3. \A s \in DOMAIN tasks : tasks[s].lost \in Nat /\ tasks'[s].lost = tasks[s].lost
  BY LossIsNat DEF LossesStay
<1>4. new \notin AgentsOf(t)
  BY <1>0 DEF AgentsOf
<1> SUFFICES ASSUME NEW s \in DOMAIN tasks
             PROVE  Cardinality(AgentsOf(s)') + Cardinality(Owing(s)') <= 1 + tasks'[s].lost
  <2>1. DOMAIN tasks' = DOMAIN tasks
    OBVIOUS
  <2> QED BY <2>1 DEF Accounts
<1>5. Cardinality(AgentsOf(s)) + Cardinality(Owing(s)) <= 1 + tasks[s].lost
  BY DEF Accounts
<1>6. /\ Cardinality(Owing(s)') <= Cardinality(Owing(s)) /\ Cardinality(Owing(s)') \in Nat
      /\ Cardinality(Owing(s)) \in Nat /\ Cardinality(AgentsOf(s)) \in Nat
  BY <1>2, Counted, FS_Subset, FS_CardinalityType
<1>7. CASE s # t
  BY <1>1, <1>3, <1>5, <1>6, <1>7
<1>8. CASE s = t
  <2>1. Cardinality(AgentsOf(s)') = Cardinality(AgentsOf(s)) + 1
    BY <1>1, <1>4, <1>8, Counted, FS_AddElement
  <2>2. CASE AgentsOf(t) = {}
    <3>1. Owing(t) = {}
      BY <2>2 DEF Owing, TaskOf, AgentsOf, Provisioning
    <3>2. Cardinality(Owing(s)') = 0 /\ Cardinality(AgentsOf(s)) = 0
      BY <1>2, <1>8, <2>2, <3>1, FS_EmptySet
    <3>3. tasks'[s].lost \in Nat
      BY <1>3
    <3> QED BY <2>1, <3>2, <3>3
  <2>3. ASSUME NEW r \in Owing(t), sweep'[r].pc # "recreate"
        PROVE  Cardinality(AgentsOf(s)') + Cardinality(Owing(s)') <= 1 + tasks'[s].lost
    <3>1. r \notin Owing(t)'
      BY <2>3 DEF Owing
    <3>2. Owing(t)' \subseteq Owing(t) \ {r}
      BY <1>2, <3>1
    <3>3. /\ IsFiniteSet(Owing(t) \ {r}) /\ Cardinality(Owing(t) \ {r}) = Cardinality(Owing(t)) - 1
      BY <2>3, Counted, FS_RemoveElement
    <3>4. Cardinality(Owing(t)') <= Cardinality(Owing(t)) - 1
      BY <3>2, <3>3, FS_Subset
    <3> HIDE DEF LifecycleInv, RecordTypes
    <3>5. tasks'[s].lost = tasks[s].lost /\ tasks[s].lost \in Nat
      BY <1>3
    <3>6. Cardinality(Owing(s)') <= Cardinality(Owing(s)) - 1
      BY <1>8, <3>4
    <3> QED BY <1>5, <1>6, <2>1, <3>5, <3>6
  <2> QED BY <2>2, <2>3
<1> QED BY <1>7, <1>8

-----------------------------------------------------------------------------
(* What each step does to them                                              *)

CallsSound ==
    /\ call' = [c \in Call |-> call'[c]] /\ \A c \in Call : CallRow(call'[c])
    /\ \A c \in Call : call'[c].pc \in {"created", "spawn"} => call'[c].task \in DOMAIN tasks'

SweepsSound ==
    /\ sweep' \in [Recoverer -> SweepRow]
    /\ \A r \in Recoverer :
          sweep'[r].pc \in {"clear", "fail", "recreate"} => sweep'[r].worker \in DOMAIN agents

\* No sweep records a loss.
NothingLost ==
    \A r \in Recoverer : sweep'[r].pc = "recreate" =>
        sweep[r].pc = "recreate" /\ sweep'[r].worker = sweep[r].worker

\* At most one agent is made, of a task that had none.
FirstAgents ==
    \/ AgentsStay
    \/ /\ Len(tasks') = Len(tasks)
       /\ \E t \in DOMAIN tasks : NewAgentOf(t) /\ AgentsOf(t) = {}

Sound == Recorded /\ LossesStay /\ FirstAgents /\ CallsSound /\ SweepsSound /\ NothingLost /\ grants' \in Nat

LEMMA SameRecords ==
    ASSUME RecordTypes, UNCHANGED records
    PROVE  Recorded /\ LossesStay /\ FirstAgents /\ AgentsStay
BY DEF RecordTypes, records, Recorded, LossesStay, FirstAgents, AgentsStay

LEMMA SameCalls ==
    ASSUME RecordTypes, Provisioning, Len(tasks) <= Len(tasks'), tasks' \in Seq(TaskRow), UNCHANGED call
    PROVE  CallsSound
BY DEF RecordTypes, Provisioning, CallsSound

LEMMA SameSweeps ==
    ASSUME RecordTypes, Provisioning, UNCHANGED sweep
    PROVE  SweepsSound /\ NothingLost
BY DEF RecordTypes, Provisioning, SweepsSound, NothingLost

LEMMA MovedCall ==
    ASSUME RecordTypes, Provisioning, tasks' \in Seq(TaskRow), Len(tasks) <= Len(tasks'),
           NEW c \in Call, NEW pc, NEW t, NEW a, Goto(c, pc, t, a),
           pc \in {"created", "spawn"} => t \in DOMAIN tasks'
    PROVE  CallsSound
<1> DEFINE row == [pc |-> pc, task |-> t, agent |-> a]
<1>1. CallRow(row) /\ row.pc = pc /\ row.task = t
  BY DEF CallRow
<1>2. call' = [call EXCEPT ![c] = row]
  BY DEF Goto
<1> HIDE DEF row
<1>3. call' = [b \in Call |-> IF b = c THEN row ELSE call[b]]
  BY <1>2 DEF RecordTypes
<1> QED BY <1>1, <1>3 DEF RecordTypes, Provisioning, CallsSound

LEMMA EndedCall ==
    ASSUME RecordTypes, Provisioning, tasks' \in Seq(TaskRow), Len(tasks) <= Len(tasks'),
           NEW c \in Call, Answered(c)
    PROVE  CallsSound
<1>1. Goto(c, "idle", 0, 0)
  BY DEF Answered, NoCall, Goto
<1> QED BY <1>1, MovedCall

LEMMA SpawnIs ==
    ASSUME RecordTypes, NEW t \in DOMAIN tasks, SpawnFor(t)
    PROVE  Recorded /\ LossesStay /\ FirstAgents
<1>1. CASE AgentsOf(t) = {}
  <2>1. NewAgent(t, 0)
    BY <1>1 DEF SpawnFor
  <2>2. NewAgentOf(t) /\ LossesStay /\ Recorded /\ Len(tasks') = Len(tasks)
    BY <2>1, NewAgentIs
  <2> QED BY <1>1, <2>2 DEF FirstAgents
<1>2. CASE AgentsOf(t) # {}
  BY <1>2, SameRecords DEF SpawnFor
<1> QED BY <1>1, <1>2

LEMMA StartIs ==
    ASSUME RecordTypes, NEW a, StartAgent(a)
    PROVE  Recorded /\ LossesStay /\ FirstAgents /\ AgentsStay
<1> DEFINE w == [workers[a] EXCEPT !.status = "running"]
<1>1. a \in DOMAIN workers => workers[a] \in WorkerRow
  BY DEF RecordTypes
<1>2. a \in DOMAIN workers => w \in WorkerRow
  BY <1>1 DEF WorkerRow
<1>3. Transition(a, "running", "running", w)
  BY DEF StartAgent
<1> HIDE DEF w
<1>4. "running" \in Standing /\ "running" \in Stage
  BY DEF Standing, Stage
<1> QED BY <1>2, <1>3, <1>4, TransitionKeeps DEF FirstAgents

LEMMA TerminalIs ==
    ASSUME RecordTypes, NEW a, NEW s \in Standing, TerminalTransition(a, s)
    PROVE  Recorded /\ LossesStay /\ FirstAgents
<1> DEFINE w == [workers[a] EXCEPT !.status = "stopped"]
<1>1. a \in DOMAIN workers => workers[a] \in WorkerRow
  BY DEF RecordTypes
<1>2. a \in DOMAIN workers => w \in WorkerRow
  BY <1>1 DEF WorkerRow
<1>3. Transition(a, s, s, w)
  BY DEF TerminalTransition
<1> HIDE DEF w
<1>4. s \in Stage
  BY DEF Stage
<1> QED BY <1>2, <1>3, <1>4, TransitionKeeps DEF FirstAgents

LEMMA StatusIs ==
    ASSUME RecordTypes, NEW a, NEW s \in Standing, Transition(a, s, s, workers[a])
    PROVE  Recorded /\ LossesStay /\ FirstAgents
<1>1. a \in DOMAIN workers => workers[a] \in WorkerRow
  BY DEF RecordTypes
<1>2. s \in Stage
  BY DEF Stage
<1> QED BY <1>1, <1>2, TransitionKeeps DEF FirstAgents

\* One task, or one worker record, is written and nothing else.
WriteTask(t, row) == tasks' = [tasks EXCEPT ![t] = row] /\ UNCHANGED <<agents, workers>>
WriteWorker(w, row) == workers' = [workers EXCEPT ![w] = row] /\ UNCHANGED <<tasks, agents>>

LEMMA TaskIsWritten ==
    ASSUME RecordTypes, NEW t, NEW row, WriteTask(t, row),
           t \in DOMAIN tasks => row \in TaskRow /\ row.lost = tasks[t].lost
    PROVE  Recorded /\ LossesStay /\ FirstAgents
<1> USE DEF RecordTypes
<1>1. /\ DOMAIN tasks' = DOMAIN tasks /\ tasks' = [b \in DOMAIN tasks |-> tasks'[b]]
      /\ \A b \in DOMAIN tasks : tasks'[b] = IF b = t THEN row ELSE tasks[b]
  BY DEF WriteTask
<1>2. tasks' \in Seq(TaskRow) /\ Len(tasks') = Len(tasks)
  <2>1. \A b \in DOMAIN tasks : tasks'[b] \in TaskRow
    BY <1>1
  <2> QED BY <1>1, <2>1, Rewritten
<1>3. UNCHANGED <<agents, workers>>
  BY DEF WriteTask
<1> QED BY <1>1, <1>2, <1>3 DEF Recorded, LossesStay, FirstAgents, AgentsStay

LEMMA TaskStatusIs ==
    ASSUME RecordTypes, NEW t, NEW s \in Stage, tasks' = [tasks EXCEPT ![t].status = s],
           UNCHANGED <<agents, workers>>
    PROVE  Recorded /\ LossesStay /\ FirstAgents
<1> DEFINE row == [tasks[t] EXCEPT !.status = s]
<1>1. WriteTask(t, row)
  BY DEF WriteTask
<1>2. t \in DOMAIN tasks => tasks[t] \in TaskRow
  BY DEF RecordTypes
<1>3. t \in DOMAIN tasks => row \in TaskRow /\ row.lost = tasks[t].lost
  BY <1>2 DEF TaskRow
<1> HIDE DEF row
<1> QED BY <1>1, <1>3, TaskIsWritten

LEMMA WorkerIsWritten ==
    ASSUME RecordTypes, NEW w, NEW row, WriteWorker(w, row), w \in DOMAIN workers => row \in WorkerRow
    PROVE  Recorded /\ LossesStay /\ FirstAgents
<1> USE DEF RecordTypes
<1>1. /\ DOMAIN workers' = DOMAIN workers /\ workers' = [b \in DOMAIN workers |-> workers'[b]]
      /\ \A b \in DOMAIN workers : workers'[b] = IF b = w THEN row ELSE workers[b]
  BY DEF WriteWorker
<1>2. workers' \in Seq(WorkerRow) /\ Len(workers') = Len(workers)
  <2>1. \A b \in DOMAIN workers : workers'[b] \in WorkerRow
    BY <1>1
  <2> QED BY <1>1, <2>1, Rewritten
<1>3. UNCHANGED <<tasks, agents>>
  BY DEF WriteWorker
<1> QED BY <1>2, <1>3 DEF Recorded, LossesStay, FirstAgents, AgentsStay

LEMMA CallStepIsSound ==
    ASSUME RecordTypes, Provisioning, NEW c \in Call, CallStep(c)
    PROVE  Sound
<1> USE DEF Sound
<1>0. grants' = grants /\ grants \in Nat /\ sweep' = sweep
  BY DEF RecordTypes, CallStep, Confirm, CreateTask, MarkPreviewConfirmed, Authorize, SpawnAgentForTask,
         StartFromCall, CancelRead, CancelWrite, CallDies
<1>1. SweepsSound /\ NothingLost
  BY <1>0, SameSweeps
<1>2. SUFFICES Recorded /\ LossesStay /\ FirstAgents /\ CallsSound
  BY <1>0, <1>1
<1>3. ASSUME UNCHANGED records, NEW pc, NEW t, NEW a, Goto(c, pc, t, a), pc \notin {"created", "spawn"}
      PROVE  Recorded /\ LossesStay /\ FirstAgents /\ CallsSound
  <2>1. Recorded /\ LossesStay /\ FirstAgents
    BY <1>3, SameRecords
  <2> QED BY <1>3, <2>1, MovedCall DEF Recorded, LossesStay
<1>4. ASSUME UNCHANGED records, Answered(c)
      PROVE  Recorded /\ LossesStay /\ FirstAgents /\ CallsSound
  <2>1. Recorded /\ LossesStay /\ FirstAgents
    BY <1>4, SameRecords
  <2> QED BY <1>4, <2>1, EndedCall DEF Recorded, LossesStay
<1>5. CASE Confirm(c)
  BY <1>3, <1>5 DEF Confirm
<1>6. CASE CreateTask(c)
  <2> DEFINE row == [status |-> "ready_for_agent", agent |-> 0, lost |-> 0]
  <2>1. row \in TaskRow /\ tasks' = Append(tasks, row) /\ UNCHANGED <<agents, workers>>
    BY <1>6 DEF CreateTask, TaskRow, Stage
  <2> HIDE DEF row
  <2>2. /\ tasks' \in Seq(TaskRow) /\ Len(tasks') = Len(tasks) + 1
        /\ \A t \in DOMAIN tasks : tasks'[t] = tasks[t]
    BY <2>1 DEF RecordTypes
  <2>3. Recorded /\ LossesStay /\ FirstAgents
    BY <2>1, <2>2 DEF RecordTypes, Recorded, LossesStay, FirstAgents, AgentsStay
  <2>4. Goto(c, "created", Len(tasks) + 1, 0) /\ Len(tasks) + 1 \in DOMAIN tasks'
    BY <1>6, <2>2 DEF CreateTask, RecordTypes
  <2> QED BY <2>2, <2>3, <2>4, MovedCall DEF LossesStay
<1>7. CASE MarkPreviewConfirmed(c)
  <2>1. Goto(c, "spawn", call[c].task, 0) /\ call[c].task \in DOMAIN tasks /\ UNCHANGED records
    BY <1>7 DEF MarkPreviewConfirmed, Provisioning
  <2>2. Recorded /\ LossesStay /\ FirstAgents
    BY <2>1, SameRecords
  <2> QED BY <2>1, <2>2, MovedCall DEF Recorded, LossesStay, records
<1>8. ASSUME NEW t \in DOMAIN tasks, Authorize(c, t)
      PROVE  Recorded /\ LossesStay /\ FirstAgents /\ CallsSound
  <2>1. Recorded /\ LossesStay /\ FirstAgents
    BY <1>8, TaskStatusIs DEF Authorize, Stage
  <2>2. t \in DOMAIN tasks'
    BY <2>1 DEF Recorded, LossesStay, RecordTypes
  <2>3. Goto(c, "spawn", t, 0)
    BY <1>8 DEF Authorize
  <2> QED BY <2>1, <2>2, <2>3, MovedCall DEF Recorded, LossesStay
<1>9. CASE SpawnAgentForTask(c)
  <2> DEFINE t == call[c].task
  <2>1. t \in DOMAIN tasks
    BY <1>9 DEF SpawnAgentForTask, Provisioning
  <2>2. \/ Answered(c) /\ UNCHANGED records
        \/ SpawnFor(t) /\ Goto(c, "start", t, Spawned(t))
    BY <1>9 DEF SpawnAgentForTask
  <2> HIDE DEF t
  <2>3. CASE SpawnFor(t) /\ Goto(c, "start", t, Spawned(t))
    <3>1. Recorded /\ LossesStay /\ FirstAgents
      BY <2>1, <2>3, SpawnIs
    <3> QED BY <2>3, <3>1, MovedCall DEF Recorded, LossesStay
  <2> QED BY <1>4, <2>2, <2>3
<1>10. CASE StartFromCall(c)
  <2>1. Recorded /\ LossesStay /\ FirstAgents
    BY <1>10, StartIs, SameRecords DEF StartFromCall
  <2> QED BY <1>10, <2>1, EndedCall DEF StartFromCall, Recorded, LossesStay
<1>11. ASSUME NEW t \in DOMAIN tasks, CancelRead(c, t)
       PROVE  Recorded /\ LossesStay /\ FirstAgents /\ CallsSound
  BY <1>3, <1>11 DEF CancelRead
<1>12. CASE CancelWrite(c)
  <2>1. "cancelled" \in Standing /\ "cancelled" \in Stage
    BY DEF Standing, Stage
  <2>2. Recorded /\ LossesStay /\ FirstAgents
    BY <1>12, <2>1, TerminalIs, TaskStatusIs DEF CancelWrite
  <2> QED BY <1>12, <2>2, EndedCall DEF CancelWrite, Recorded, LossesStay
<1>13. CASE CallDies(c)
  BY <1>4, <1>13 DEF CallDies
<1> QED BY <1>5, <1>6, <1>7, <1>8, <1>9, <1>10, <1>11, <1>12, <1>13 DEF CallStep

\* A sweep goes on, or ends.
LEMMA SweepMoves ==
    ASSUME RecordTypes, Provisioning, NEW r \in Recoverer, NEW row \in SweepRow,
           sweep' = [sweep EXCEPT ![r] = row],
           row.pc \in {"clear", "fail", "recreate"} => row.worker \in DOMAIN agents,
           row.pc # "recreate"
    PROVE  SweepsSound /\ NothingLost
<1>1. sweep' = [q \in Recoverer |-> IF q = r THEN row ELSE sweep[q]]
  BY DEF RecordTypes
<1> QED BY <1>1 DEF RecordTypes, Provisioning, SweepsSound, NothingLost

LEMMA SweepRows ==
    ASSUME RecordTypes, NEW r \in Recoverer
    PROVE  /\ NoSweep \in SweepRow /\ NoSweep.pc = "idle"
           /\ [NoSweep EXCEPT !.pc = "pick", !.todo = sweep[r].todo] \in SweepRow
           /\ sweep[r] \in SweepRow
<1>1. sweep[r] \in SweepRow
  BY DEF RecordTypes
<1> QED BY <1>1 DEF NoSweep, SweepRow, SweepPc

LEMMA NextWorkerMoves ==
    ASSUME RecordTypes, Provisioning, NEW r \in Recoverer, NextWorker(r)
    PROVE  SweepsSound /\ NothingLost
<1> DEFINE row == [NoSweep EXCEPT !.pc = "pick", !.todo = sweep[r].todo]
<1>1. row \in SweepRow /\ row.pc = "pick" /\ sweep' = [sweep EXCEPT ![r] = row]
  BY SweepRows DEF NextWorker, NoSweep
<1> HIDE DEF row
<1> QED BY <1>1, SweepMoves

LEMMA SweepEndsMoves ==
    ASSUME RecordTypes, Provisioning, NEW r \in Recoverer, sweep' = [sweep EXCEPT ![r] = NoSweep]
    PROVE  SweepsSound /\ NothingLost
BY SweepRows, SweepMoves

LEMMA ClearedIs ==
    ASSUME RecordTypes, NEW w \in DOMAIN workers
    PROVE  /\ workers[w] \in WorkerRow /\ ClearLease(w) \in WorkerRow
           /\ [ClearLease(w) EXCEPT !.status = "failed"] \in WorkerRow
<1>1. workers[w] \in WorkerRow
  BY DEF RecordTypes
<1> QED BY <1>1 DEF ClearLease, WorkerRow

LEMMA LostRow ==
    ASSUME NEW x \in TaskRow
    PROVE  LET y == [[x EXCEPT !.status = "queued"] EXCEPT !.lost = @ + 1]
           IN  y \in TaskRow /\ y.lost = x.lost + 1
<1> DEFINE z == [x EXCEPT !.status = "queued"]
           y == [z EXCEPT !.lost = @ + 1]
<1>1. z \in TaskRow /\ z.lost = x.lost
  BY DEF TaskRow, Stage
<1> HIDE DEF z
<1>2. y = [z EXCEPT !.lost = z.lost + 1] /\ z.lost \in Nat
  BY <1>1 DEF TaskRow
<1>3. y \in TaskRow /\ y.lost = z.lost + 1
  BY <1>1, <1>2 DEF TaskRow
<1> QED BY <1>1, <1>3 DEF z

\* A worker is lost: its task is owed an agent, and the loss is counted.
LEMMA LossIsCounted ==
    ASSUME LifecycleInv, NEW r \in Recoverer, FailLostAgent(r)
    PROVE  LifecycleInv'
<1> USE DEF LifecycleInv
<1> DEFINE w == sweep[r].worker
           t == TaskOf(r)
           task == [[tasks[t] EXCEPT !.status = "queued"] EXCEPT !.lost = @ + 1]
           agentRow == [agents[w] EXCEPT !.status = "failed"]
           workerRow == [ClearLease(w) EXCEPT !.status = "failed"]
           sweepRow == [sweep[r] EXCEPT !.pc = "recreate"]
<1>1. /\ w \in DOMAIN agents /\ w \in DOMAIN workers /\ t \in DOMAIN tasks /\ t = agents[w].task
      /\ sweep[r].pc = "fail"
  BY DEF FailLostAgent, At, Provisioning, RecordTypes, TaskOf
<1>2. /\ agents[w] \in AgentRow /\ tasks[t] \in TaskRow /\ sweep[r] \in SweepRow
  BY <1>1 DEF RecordTypes
<1>3. /\ tasks' = [tasks EXCEPT ![t] = task]
      /\ agents' = [agents EXCEPT ![w] = agentRow]
      /\ workers' = [workers EXCEPT ![w] = workerRow]
      /\ sweep' = [sweep EXCEPT ![r] = sweepRow]
      /\ UNCHANGED <<call, grants>>
  <2>1. tasks' = [tasks EXCEPT ![t] = task]
    BY DEF FailLostAgent
  <2>2. sweep' = [sweep EXCEPT ![r] = sweepRow]
    BY DEF FailLostAgent, SweepGoes
  <2>3. /\ agents' = [agents EXCEPT ![w] = agentRow]
        /\ workers' = [workers EXCEPT ![w] = workerRow]
        /\ UNCHANGED <<call, grants>>
    BY DEF FailLostAgent
  <2> QED BY <2>1, <2>2, <2>3
<1>4. task \in TaskRow /\ task.lost = tasks[t].lost + 1
  BY <1>2, LostRow
<1>5. agentRow \in AgentRow /\ agentRow.task = agents[w].task
  BY <1>2 DEF AgentRow, Standing
<1>6. workerRow \in WorkerRow
  BY <1>1, ClearedIs
<1>7. sweepRow \in SweepRow /\ sweepRow.pc = "recreate" /\ sweepRow.worker = w
  BY <1>2 DEF SweepRow, SweepPc
<1> HIDE DEF task, agentRow, workerRow, sweepRow, w, t
<1>8. tasks' \in Seq(TaskRow) /\ Len(tasks') = Len(tasks)
      /\ \A b \in DOMAIN tasks : tasks'[b] = IF b = t THEN task ELSE tasks[b]
  <2>1. /\ DOMAIN tasks' = DOMAIN tasks /\ tasks' = [b \in DOMAIN tasks |-> tasks'[b]]
        /\ \A b \in DOMAIN tasks : tasks'[b] = IF b = t THEN task ELSE tasks[b]
    BY <1>3 DEF RecordTypes
  <2>2. \A b \in DOMAIN tasks : tasks[b] \in TaskRow
    BY DEF RecordTypes
  <2>3. \A b \in DOMAIN tasks : tasks'[b] \in TaskRow
    BY <1>4, <2>1, <2>2
  <2>4. tasks \in Seq(TaskRow)
    BY DEF RecordTypes
  <2> QED BY <2>1, <2>3, <2>4, Rewritten
<1>9. agents' \in Seq(AgentRow) /\ AgentsStay
  <2>1. /\ DOMAIN agents' = DOMAIN agents /\ agents' = [b \in DOMAIN agents |-> agents'[b]]
        /\ \A b \in DOMAIN agents : agents'[b] = IF b = w THEN agentRow ELSE agents[b]
    BY <1>3 DEF RecordTypes
  <2>2. \A b \in DOMAIN agents : agents[b] \in AgentRow
    BY DEF RecordTypes
  <2>3. \A b \in DOMAIN agents : agents'[b] \in AgentRow
    BY <1>5, <2>1, <2>2
  <2>4. agents \in Seq(AgentRow)
    BY DEF RecordTypes
  <2>5. agents' \in Seq(AgentRow) /\ Len(agents') = Len(agents)
    BY <2>1, <2>3, <2>4, Rewritten
  <2> QED BY <1>5, <2>1, <2>5 DEF AgentsStay
<1>10. workers' \in Seq(WorkerRow) /\ Len(workers') = Len(workers)
  <2>1. /\ DOMAIN workers' = DOMAIN workers /\ workers' = [b \in DOMAIN workers |-> workers'[b]]
        /\ \A b \in DOMAIN workers : workers'[b] = IF b = w THEN workerRow ELSE workers[b]
    BY <1>3 DEF RecordTypes
  <2>2. \A b \in DOMAIN workers : workers[b] \in WorkerRow
    BY DEF RecordTypes
  <2>3. \A b \in DOMAIN workers : workers'[b] \in WorkerRow
    BY <1>6, <2>1, <2>2
  <2>4. workers \in Seq(WorkerRow)
    BY DEF RecordTypes
  <2> QED BY <2>1, <2>3, <2>4, Rewritten
<1>11. sweep' = [q \in Recoverer |-> IF q = r THEN sweepRow ELSE sweep[q]]
  BY <1>3 DEF RecordTypes
<1>12. RecordTypes'
  BY <1>3, <1>7, <1>8, <1>9, <1>10, <1>11 DEF RecordTypes, AgentsStay
<1>13. Provisioning'
  <2>1. DOMAIN tasks' = DOMAIN tasks /\ DOMAIN agents' = DOMAIN agents
    BY <1>8, <1>9 DEF RecordTypes, AgentsStay
  <2>2. \A a \in DOMAIN agents' : agents'[a].task \in DOMAIN tasks'
    BY <1>9, <2>1 DEF AgentsStay, Provisioning
  <2>3. \A q \in Recoverer : sweep'[q].pc \in {"clear", "fail", "recreate"} => sweep'[q].worker \in DOMAIN agents'
    BY <1>1, <1>7, <1>11, <2>1 DEF Provisioning
  <2> QED BY <1>3, <2>1, <2>2, <2>3 DEF Provisioning
<1>14. Accounts'
  <2>1. DOMAIN tasks' = DOMAIN tasks /\ DOMAIN agents' = DOMAIN agents
    BY <1>8, <1>9 DEF RecordTypes, AgentsStay
  <2>2. \A s : AgentsOf(s)' = AgentsOf(s)
    BY <1>9, <2>1 DEF AgentsOf, AgentsStay
  <2>3. \A q \in Recoverer : sweep[q].pc = "recreate" =>
            agents'[sweep[q].worker].task = agents[sweep[q].worker].task
    BY <1>9 DEF AgentsStay, Provisioning
  <2>4. agents'[w].task = t
    BY <1>1, <1>9 DEF AgentsStay
  <2>5. \A s : Owing(s)' = IF s = t THEN Owing(s) \cup {r} ELSE Owing(s)
    <3>1. \A q \in Recoverer : sweep'[q].pc = "recreate" <=> (q = r \/ sweep[q].pc = "recreate")
      BY <1>7, <1>11
    <3>2. sweep'[r].worker = w /\ \A q \in Recoverer : q # r => sweep'[q].worker = sweep[q].worker
      BY <1>7, <1>11
    <3>3. sweep[r].pc # "recreate"
      BY <1>1
    <3> QED BY <2>3, <2>4, <3>1, <3>2, <3>3 DEF Owing, TaskOf
  <2>6. r \notin Owing(t)
    BY <1>1 DEF Owing
  <2>7. SUFFICES ASSUME NEW s \in DOMAIN tasks
                 PROVE  Cardinality(AgentsOf(s)') + Cardinality(Owing(s)') <= 1 + tasks'[s].lost
    BY <2>1 DEF Accounts
  <2>8. /\ Cardinality(AgentsOf(s)) + Cardinality(Owing(s)) <= 1 + tasks[s].lost
        /\ Cardinality(AgentsOf(s)) \in Nat /\ Cardinality(Owing(s)) \in Nat /\ tasks[s].lost \in Nat
    BY Counted, LossIsNat DEF Accounts
  <2>9. CASE s # t
    BY <1>8, <2>2, <2>5, <2>8, <2>9
  <2>10. CASE s = t
    <3>1. Cardinality(Owing(s)') = Cardinality(Owing(s)) + 1
      BY <2>5, <2>6, <2>10, Counted, FS_AddElement
    <3>2. tasks'[s].lost = tasks[s].lost + 1
      BY <1>4, <1>8, <2>10
    <3> QED BY <2>2, <2>8, <3>1, <3>2
  <2> QED BY <2>9, <2>10
<1> QED BY <1>12, <1>13, <1>14

\* The sweep owes an agent and makes it.
LEMMA DebtIsPaid ==
    ASSUME LifecycleInv, NEW r \in Recoverer, sweep[r].pc = "recreate", LiveAgents(TaskOf(r)) = {},
           sweep' = [sweep EXCEPT ![r].pc = "start", ![r].made = Len(agents) + 1],
           NewAgent(TaskOf(r), sweep[r].worker), UNCHANGED <<call, grants>>
    PROVE  LifecycleInv'
<1> USE DEF LifecycleInv
<1> DEFINE w == sweep[r].worker
           t == TaskOf(r)
           row == [[sweep[r] EXCEPT !.pc = "start"] EXCEPT !.made = Len(agents) + 1]
<1>1. w \in DOMAIN agents /\ t \in DOMAIN tasks /\ r \in Owing(t)
  BY DEF Provisioning, TaskOf, Owing
<1>2. NewAgentOf(t) /\ LossesStay /\ Recorded /\ Len(tasks') = Len(tasks)
  BY <1>1, NewAgentIs
<1>3. sweep' = [sweep EXCEPT ![r] = row]
  OBVIOUS
<1>4. row \in SweepRow /\ row.pc = "start"
  <2>1. sweep[r] \in SweepRow /\ Len(agents) + 1 \in Nat
    BY DEF RecordTypes
  <2> QED BY <2>1 DEF SweepRow, SweepPc
<1> HIDE DEF row, w, t
<1>5. sweep' = [q \in Recoverer |-> IF q = r THEN row ELSE sweep[q]]
  BY <1>3 DEF RecordTypes
<1>6. SweepsSound /\ NothingLost
  BY <1>3, <1>4, SweepMoves
<1>7. RecordTypes'
  BY <1>2, <1>6 DEF RecordTypes, Recorded, SweepsSound
<1>8. Provisioning'
  <2>1. DOMAIN tasks' = DOMAIN tasks /\ DOMAIN agents' = DOMAIN agents \cup {Len(agents) + 1}
    BY <1>2, <1>7 DEF NewAgentOf, RecordTypes
  <2>2. \A a \in DOMAIN agents' : agents'[a].task \in DOMAIN tasks'
    BY <1>1, <1>2, <2>1 DEF NewAgentOf, Provisioning
  <2> QED BY <1>6, <2>1, <2>2 DEF Provisioning, SweepsSound
<1>9. Accounts'
  <2>1. sweep'[r].pc # "recreate"
    BY <1>4, <1>5
  <2> QED BY <1>1, <1>2, <1>6, <1>7, <2>1, AccountsGrow DEF NothingLost
<1> QED BY <1>7, <1>8, <1>9

LEMMA SoundSteps ==
    ASSUME LifecycleInv, Sound
    PROVE  LifecycleInv'
<1> USE DEF LifecycleInv
<1>1. RecordTypes'
  BY DEF Sound, RecordTypes, Recorded, CallsSound, SweepsSound
<1>2. DOMAIN tasks \subseteq DOMAIN tasks'
  BY <1>1 DEF Sound, LossesStay, RecordTypes
<1>3. CASE AgentsStay
  <2>1. DOMAIN agents' = DOMAIN agents
    BY <1>1, <1>3 DEF RecordTypes, AgentsStay
  <2>2. Provisioning'
    BY <1>2, <1>3, <2>1 DEF Provisioning, Sound, CallsSound, SweepsSound, AgentsStay
  <2>3. Accounts'
    BY <1>1, <1>3, AccountsStay DEF Sound, NothingLost
  <2> QED BY <1>1, <2>2, <2>3
<1>4. ASSUME NEW t \in DOMAIN tasks, NewAgentOf(t), AgentsOf(t) = {}, Len(tasks') = Len(tasks)
      PROVE  LifecycleInv'
  <2>1. DOMAIN agents' = DOMAIN agents \cup {Len(agents) + 1}
    BY <1>1, <1>4 DEF RecordTypes, NewAgentOf
  <2>2. Provisioning'
    BY <1>2, <1>4, <2>1 DEF Provisioning, Sound, CallsSound, SweepsSound, NewAgentOf
  <2>3. Accounts'
    BY <1>1, <1>4, AccountsGrow DEF Sound, NothingLost
  <2> QED BY <1>1, <2>2, <2>3
<1> QED BY <1>3, <1>4 DEF Sound, FirstAgents

LEMMA QuietIsSound ==
    ASSUME RecordTypes, Provisioning, Recorded, LossesStay, FirstAgents, UNCHANGED call, grants' \in Nat,
           UNCHANGED sweep \/ (SweepsSound /\ NothingLost)
    PROVE  Sound
<1>1. CallsSound
  BY SameCalls DEF Recorded, LossesStay
<1> QED BY <1>1, SameSweeps DEF Sound

LEMMA SweepStepKeeps ==
    ASSUME LifecycleInv, NEW r \in Recoverer, SweepStep(r) \/ SweeperDies(r)
    PROVE  LifecycleInv'
<1> USE DEF LifecycleInv
<1>0. /\ UNCHANGED <<call, grants>> /\ grants' \in Nat
      /\ sweep[r] \in SweepRow
  BY SweepRows DEF SweepStep, SweeperDies, BeginSweep, ClearExpired, FailLostAgent, RecreateAgent,
         StartRecreated, EndSweep, PickWorker, RecordTypes
<1>1. ASSUME UNCHANGED records, SweepsSound, NothingLost
      PROVE  LifecycleInv'
  BY <1>0, <1>1, SameRecords, QuietIsSound, SoundSteps
<1>2. CASE BeginSweep(r)
  <2> DEFINE row == [NoSweep EXCEPT !.pc = "pick", !.todo = ExpiredWorkers]
  <2>1. ExpiredWorkers \subseteq Nat
    BY DEF ExpiredWorkers, RecordTypes
  <2>2. row \in SweepRow /\ row.pc = "pick"
    BY <2>1 DEF NoSweep, SweepRow, SweepPc
  <2>3. sweep' = [sweep EXCEPT ![r] = row] /\ UNCHANGED records
    BY <1>2 DEF BeginSweep
  <2> HIDE DEF row
  <2>4. SweepsSound /\ NothingLost
    BY <2>2, <2>3, SweepMoves
  <2> QED BY <1>1, <2>3, <2>4
<1>3. ASSUME NEW w \in DOMAIN workers, PickWorker(r, w)
      PROVE  LifecycleInv'
  <2> DEFINE pc == SweepOf(w)
             at == IF pc = "pick" THEN 0 ELSE w
             row == [[[sweep[r] EXCEPT !.todo = @ \ {w}] EXCEPT !.pc = pc] EXCEPT !.worker = at]
  <2>1. pc \in {"pick", "clear", "fail"} /\ at \in Nat /\ (pc # "pick" => at \in DOMAIN agents)
    BY DEF SweepOf, RecordTypes
  <2>2. sweep' = [sweep EXCEPT ![r] = row] /\ UNCHANGED records
    BY <1>3 DEF PickWorker
  <2> HIDE DEF pc, at
  <2>3. row \in SweepRow /\ row.pc = pc /\ row.worker = at
    BY <1>0, <2>1 DEF SweepRow, SweepPc
  <2> HIDE DEF row
  <2>4. SweepsSound /\ NothingLost
    BY <2>1, <2>2, <2>3, SweepMoves
  <2> QED BY <1>1, <2>2, <2>4
<1>4. CASE ClearExpired(r)
  <2> DEFINE w == sweep[r].worker
             row == ClearLease(w)
  <2>1. w \in DOMAIN workers /\ NextWorker(r) /\ UNCHANGED <<tasks, agents>>
    BY <1>4 DEF ClearExpired, At, Provisioning, RecordTypes
  <2>2. row \in WorkerRow
    BY <2>1, ClearedIs
  <2>3. WriteWorker(w, row) \/ UNCHANGED records
    BY <1>4 DEF ClearExpired, WriteWorker, records
  <2> HIDE DEF w, row
  <2>4. Recorded /\ LossesStay /\ FirstAgents
    BY <2>2, <2>3, WorkerIsWritten, SameRecords
  <2> QED BY <1>0, <2>1, <2>4, NextWorkerMoves, QuietIsSound, SoundSteps
<1>5. CASE FailLostAgent(r)
  BY <1>5, LossIsCounted
<1>6. CASE RecreateAgent(r)
  <2>1. CASE NextWorker(r) /\ UNCHANGED records
    BY <1>1, <2>1, NextWorkerMoves
  <2>2. ASSUME NEW a \in LiveAgents(TaskOf(r)), UNCHANGED records,
               sweep' = [sweep EXCEPT ![r].pc = "start", ![r].made = a]
        PROVE  LifecycleInv'
    <3> DEFINE row == [[sweep[r] EXCEPT !.pc = "start"] EXCEPT !.made = a]
    <3>1. a \in Nat
      BY DEF LiveAgents, AgentsOf, RecordTypes
    <3>2. row \in SweepRow /\ row.pc = "start"
      BY <1>0, <3>1 DEF SweepRow, SweepPc
    <3>3. sweep' = [sweep EXCEPT ![r] = row]
      BY <2>2
    <3> HIDE DEF row
    <3> QED BY <1>1, <2>2, <3>2, <3>3, SweepMoves
  <2>3. sweep[r].pc = "recreate"
    BY <1>6 DEF RecreateAgent, At
  <2>4. CASE /\ LiveAgents(TaskOf(r)) = {}
             /\ sweep' = [sweep EXCEPT ![r].pc = "start", ![r].made = Len(agents) + 1]
             /\ NewAgent(TaskOf(r), sweep[r].worker)
    BY <1>0, <2>3, <2>4, DebtIsPaid
  <2> QED BY <1>6, <2>1, <2>2, <2>4 DEF RecreateAgent
<1>7. CASE StartRecreated(r)
  <2>1. CASE StartAgent(sweep[r].made) /\ NextWorker(r)
    BY <1>0, <2>1, StartIs, NextWorkerMoves, QuietIsSound, SoundSteps
  <2>2. CASE sweep' = [sweep EXCEPT ![r] = NoSweep] /\ UNCHANGED records
    BY <1>1, <2>2, SweepEndsMoves
  <2> QED BY <1>7, <2>1, <2>2 DEF StartRecreated
<1>8. CASE EndSweep(r) \/ SweeperDies(r)
  <2>1. sweep' = [sweep EXCEPT ![r] = NoSweep] /\ UNCHANGED records
    BY <1>8 DEF EndSweep, SweeperDies
  <2> QED BY <1>1, <2>1, SweepEndsMoves
<1> QED BY <1>2, <1>3, <1>4, <1>5, <1>6, <1>7, <1>8 DEF SweepStep

LEMMA LoopStepIsSound ==
    ASSUME RecordTypes, Provisioning, LoopStep
    PROVE  Sound
<1>0. UNCHANGED <<call, sweep, grants>> /\ grants' \in Nat
  BY DEF LoopStep, LoopSpawn, LoopStart, BeginAdvance, WorkGoesOn, BlockForUser, CompleteAgent, EndTick,
         AdvanceAgent, RecordTypes
<1>1. "waiting_user" \in Standing /\ "completed" \in Standing
  BY DEF Standing
<1>2. Recorded /\ LossesStay /\ FirstAgents
  <2>1. CASE UNCHANGED records
    BY <2>1, SameRecords
  <2>2. ASSUME NEW t \in DOMAIN tasks, LoopSpawn(t)
        PROVE  Recorded /\ LossesStay /\ FirstAgents
    BY <2>1, <2>2, SpawnIs DEF LoopSpawn
  <2>3. CASE LoopStart
    BY <2>1, <2>3, StartIs DEF LoopStart
  <2>4. CASE BlockForUser
    BY <1>1, <2>4, StatusIs DEF BlockForUser
  <2>5. CASE CompleteAgent
    BY <1>1, <2>5, TerminalIs DEF CompleteAgent
  <2> QED BY <2>1, <2>2, <2>3, <2>4, <2>5 DEF LoopStep, BeginAdvance, WorkGoesOn, EndTick, AdvanceAgent
<1> QED BY <1>0, <1>2, QuietIsSound

LEMMA WorkerStepIsSound ==
    ASSUME RecordTypes, Provisioning, WorkerStep
    PROVE  Sound
<1>0. UNCHANGED <<call, sweep, tasks, agents>> /\ grants' \in Nat
  <2>1. grants \in Nat /\ grants + 1 \in Nat
    BY DEF RecordTypes
  <2>2. ASSUME NEW o \in Owner, NEW w \in DOMAIN workers, LeaseWorker(o, w)
        PROVE  UNCHANGED <<call, sweep, tasks, agents>> /\ grants' \in Nat
    <3>1. UNCHANGED <<call, sweep, tasks, agents>> /\ grants' = grants + 1
      BY <2>2 DEF LeaseWorker
    <3> QED BY <2>1, <3>1
  <2>3. ASSUME NEW o \in Owner,
               RenewWorkerLease(o) \/ CheckpointWorker(o) \/ ReleaseWorkerLease(o) \/ LeaseRefused(o)
        PROVE  UNCHANGED <<call, sweep, tasks, agents>> /\ grants' = grants
    BY <2>3 DEF RenewWorkerLease, CheckpointWorker, ReleaseWorkerLease, LeaseRefused, actors, records
  <2>4. ASSUME NEW w \in DOMAIN workers, LeaseRunsOut(w) \/ RecoverExpiredWorkerLease(w)
        PROVE  UNCHANGED <<call, sweep, tasks, agents>> /\ grants' = grants
    BY <2>4 DEF LeaseRunsOut, RecoverExpiredWorkerLease, actors
  <2> QED BY <2>1, <2>2, <2>3, <2>4 DEF WorkerStep
<1>1. Recorded /\ LossesStay /\ FirstAgents
  <2>1. CASE UNCHANGED records
    BY <2>1, SameRecords
  <2>2. ASSUME NEW w, NEW row, w \in DOMAIN workers => row \in WorkerRow,
               workers' = [workers EXCEPT ![w] = row]
        PROVE  Recorded /\ LossesStay /\ FirstAgents
    <3>1. WriteWorker(w, row)
      BY <1>0, <2>2 DEF WriteWorker
    <3> QED BY <2>2, <3>1, WorkerIsWritten
  <2>3. \A w \in DOMAIN workers : workers[w] \in WorkerRow
    BY DEF RecordTypes
  <2>4. ASSUME NEW o \in Owner, RenewWorkerLease(o)
        PROVE  Recorded /\ LossesStay /\ FirstAgents
    <3> DEFINE w == lease[o].worker
               row == [workers[w] EXCEPT !.expired = FALSE]
    <3>1. workers' = [workers EXCEPT ![w] = row]
      BY <2>4 DEF RenewWorkerLease
    <3>2. w \in DOMAIN workers => row \in WorkerRow
      BY <2>3 DEF WorkerRow
    <3> HIDE DEF w, row
    <3> QED BY <2>2, <3>1, <3>2
  <2>5. ASSUME NEW o \in Owner, CheckpointWorker(o)
        PROVE  Recorded /\ LossesStay /\ FirstAgents
    <3> DEFINE w == lease[o].worker
               row == [workers[w] EXCEPT !.saved = @ + 1]
    <3>1. workers' = [workers EXCEPT ![w] = row]
      BY <2>5 DEF CheckpointWorker
    <3>2. w \in DOMAIN workers => row \in WorkerRow
      BY <2>3 DEF WorkerRow
    <3> HIDE DEF w, row
    <3> QED BY <2>2, <3>1, <3>2
  <2>6. ASSUME NEW o \in Owner, ReleaseWorkerLease(o)
        PROVE  Recorded /\ LossesStay /\ FirstAgents
    <3> DEFINE w == lease[o].worker
               row == [[workers[w] EXCEPT !.lease = 0] EXCEPT !.expired = FALSE]
    <3>1. workers' = [workers EXCEPT ![w] = row]
      BY <2>6 DEF ReleaseWorkerLease
    <3>2. w \in DOMAIN workers => row \in WorkerRow
      BY <2>3 DEF WorkerRow
    <3> HIDE DEF w, row
    <3> QED BY <2>2, <3>1, <3>2
  <2>7. ASSUME NEW w \in DOMAIN workers, LeaseRunsOut(w)
        PROVE  Recorded /\ LossesStay /\ FirstAgents
    <3> DEFINE row == [workers[w] EXCEPT !.expired = TRUE]
    <3>1. workers' = [workers EXCEPT ![w] = row]
      BY <2>7 DEF LeaseRunsOut
    <3>2. row \in WorkerRow
      BY <2>3 DEF WorkerRow
    <3> HIDE DEF row
    <3> QED BY <2>2, <3>1, <3>2
  <2>8. ASSUME NEW w \in DOMAIN workers, RecoverExpiredWorkerLease(w)
        PROVE  Recorded /\ LossesStay /\ FirstAgents
    BY <2>2, <2>8, ClearedIs DEF RecoverExpiredWorkerLease
  <2>9. ASSUME NEW w \in DOMAIN workers, NEW o \in Owner, LeaseWorker(o, w)
        PROVE  Recorded /\ LossesStay /\ FirstAgents
    <3> DEFINE g == grants + 1
               row == [[[workers[w] EXCEPT !.lease = g] EXCEPT !.expired = FALSE] EXCEPT !.status = "running"]
    <3>1. workers' = [workers EXCEPT ![w] = row]
      BY <2>9 DEF LeaseWorker
    <3>2. g \in Nat
      BY DEF RecordTypes
    <3> HIDE DEF g
    <3>3. row \in WorkerRow
      BY <2>3, <3>2 DEF WorkerRow
    <3> HIDE DEF row
    <3> QED BY <2>2, <3>1, <3>3
  <2> QED BY <2>1, <2>4, <2>5, <2>6, <2>7, <2>8, <2>9 DEF WorkerStep, LeaseRefused
<1> QED BY <1>0, <1>1, QuietIsSound

LEMMA LifecycleStep == LifecycleInv /\ Next => LifecycleInv'
<1> SUFFICES ASSUME LifecycleInv, Next
             PROVE  LifecycleInv'
  OBVIOUS
<1> USE DEF LifecycleInv
<1>1. ASSUME NEW c \in Call, CallStep(c)
      PROVE  LifecycleInv'
  BY <1>1, CallStepIsSound, SoundSteps
<1>2. ASSUME NEW a, ResumeAgent(a)
      PROVE  LifecycleInv'
  <2>1. Recorded /\ LossesStay /\ FirstAgents
    BY <1>2, StatusIs DEF ResumeAgent, Standing
  <2> QED BY <1>2, <2>1, QuietIsSound, SoundSteps DEF ResumeAgent, actors, RecordTypes
<1> QED BY <1>1, <1>2, SweepStepKeeps, LoopStepIsSound, WorkerStepIsSound, SoundSteps DEF Next

\* Who provisions an agent works on a task there is, and the agents of a task
\* and the losses still owed one are never more than its recorded losses and
\* one: in every reachable state, for any requests, sweeps and external workers.
THEOREM LifecycleIsAccounted == Spec => []LifecycleInv
<1>1. Init => LifecycleInv
  <2> SUFFICES ASSUME Init
               PROVE  LifecycleInv
    OBVIOUS
  <2>1. RecordTypes
    BY DEF Init, RecordTypes, NoCall, CallRow, NoSweep, SweepRow, SweepPc
  <2>2. Provisioning /\ Accounts
    BY DEF Init, Provisioning, Accounts, NoCall, NoSweep
  <2> QED BY <2>1, <2>2 DEF LifecycleInv
<1>2. LifecycleInv /\ [Next]_vars => LifecycleInv'
  <2> SUFFICES ASSUME LifecycleInv, UNCHANGED vars
               PROVE  LifecycleInv'
    BY LifecycleStep
  <2>1. UNCHANGED <<tasks, agents, workers, call, sweep, grants>>
    BY DEF vars
  <2> QED BY <2>1 DEF LifecycleInv, RecordTypes, Provisioning, Accounts, AgentsOf, Owing, TaskOf
<1> QED BY <1>1, <1>2, PTL DEF Spec

\* However many requests, ticks and sweeps provision agents at once, a task has
\* one agent and one more for every recorded loss of a worker at most
\* (spawnAgentForTask, recoverExpiredWorkers and recreateAgentFromCheckpoint).
THEOREM AgentsStayAccountedFor == Spec => []AgentsAreAccountedFor
<1>1. LifecycleInv => AgentsAreAccountedFor
  <2> SUFFICES ASSUME LifecycleInv, NEW t \in DOMAIN tasks
               PROVE  Cardinality(AgentsOf(t)) <= 1 + tasks[t].lost
    BY DEF AgentsAreAccountedFor
  <2>1. /\ Cardinality(AgentsOf(t)) + Cardinality(Owing(t)) <= 1 + tasks[t].lost
        /\ Cardinality(AgentsOf(t)) \in Nat /\ Cardinality(Owing(t)) \in Nat /\ tasks[t].lost \in Nat
    BY Counted, LossIsNat DEF LifecycleInv, Accounts
  <2> QED BY <2>1
<1> QED BY <1>1, LifecycleIsAccounted, PTL
=============================================================================
