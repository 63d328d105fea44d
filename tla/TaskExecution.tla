--------------------------- MODULE TaskExecution ---------------------------
(***************************************************************************)
(* Carrying a flat plan out and verifying it: executeAppWebTask and        *)
(* executeGameTask, the execution engine they share, and verifyTask with   *)
(* the completion of the agent that rests on it.  The requests work for    *)
(* one agent, in one workspace.                                            *)
(*                                                                         *)
(* A step is its kind: a command and a package step run a process of the   *)
(* local runtime; an engine step, which stands for the actions and builds  *)
(* of a game engine, runs one that its adapter starts; any other step is   *)
(* an adapter without processes or a write of files, of which "deploy"     *)
(* stands for all.  The events and checkpoints of a step are writes that   *)
(* may fail.  engine.cancel() has no caller and is left out.               *)
(***************************************************************************)
EXTENDS Naturals, Sequences, FiniteSets

CONSTANTS
    Request,     \* requests to execute a plan
    Verifier,    \* requests to verify the task, or to complete the agent
    NoRequest,
    StepPlans,   \* the plans, sequences of step kinds
    Tries        \* retries + 1

StepKind  == {"command", "package", "engine", "deploy"}
\* Whose process the local runtime starts, and can refuse to start.
ByRuntime == {"command", "package"}
\* ConfiguredGameEngineAdapter.run has its runProcess start one.
Spawning  == ByRuntime \cup {"engine"}

ASSUME ExecutionAssumption ==
    /\ NoRequest \notin Request
    /\ StepPlans \subseteq Seq(StepKind) \ {<<>>}
    /\ Tries \in Nat \ {0}

Criterion == {"build works", "it is deployed"}

VARIABLES
    agentStatus, \* of the agent all requests are for
    runRow,      \* executionRuns: the status and the recorded step states
    begun,       \* the requests with a row, in the order of startedAt
    eng,         \* what each request is doing
    built,       \* the requests whose package is in the workspace
    criterion,   \* acceptanceCriteria: status, and the run named as evidence
    verif        \* what each verification is doing

taskVars == <<agentStatus, runRow, begun, eng, built, criterion, verif>>

NoRow == [status |-> "none", steps |-> <<>>, kinds |-> <<>>]
Resting == [pc |-> "idle", kinds |-> <<>>, st |-> <<>>, at |-> 0, try |-> 0, killed |-> FALSE, live |-> {}]
Unverified == [pc |-> "idle", run |-> NoRequest, row |-> NoRow, sound |-> FALSE]

TaskInit ==
    /\ agentStatus = "running"
    /\ runRow = [r \in Request |-> NoRow]
    /\ begun = <<>>
    /\ eng = [r \in Request |-> Resting]
    /\ built = {}
    /\ criterion = [c \in Criterion |-> [status |-> "pending", run |-> NoRequest]]
    /\ verif = [v \in Verifier |-> Unverified]

Evidence == <<agentStatus, criterion, verif>>
Goes(r, e) == eng' = [eng EXCEPT ![r] = e]

-----------------------------------------------------------------------------
(* A request to execute *)

\* A plan of the model may come with steps in the state passed.
Planned(kinds, done) ==
    [Resting EXCEPT !.pc = "planned", !.kinds = kinds,
                    !.st = [n \in DOMAIN kinds |-> IF n <= done THEN "passed" ELSE "pending"]]

\* The agent is read and the plan is built.
BuildPlan(r) ==
    /\ eng[r].pc = "idle" /\ runRow[r] = NoRow
    /\ agentStatus \in {"running", "waiting_user"}
    /\ \E kinds \in StepPlans : \E done \in 0..(Len(kinds) - 1) : Goes(r, Planned(kinds, done))
    /\ UNCHANGED <<runRow, begun, built, Evidence>>

PushRun(r) ==
    /\ eng[r].pc = "planned"
    /\ runRow' = [runRow EXCEPT ![r] = [NoRow EXCEPT !.status = "running"]]
    /\ begun' = Append(begun, r)
    /\ Goes(r, [eng[r] EXCEPT !.pc = "step"])
    /\ UNCHANGED <<built, Evidence>>

-----------------------------------------------------------------------------
(* ExecutionEngine.run *)

Ahead(r) == {n \in DOMAIN eng[r].kinds : eng[r].st[n] # "passed"}
Marked(r, state) == [eng[r].st EXCEPT ![eng[r].at] = state]

\* A faulty variant: every attempt gets a runtime of its own.
RefusesNever(e) == FALSE

\* LocalProcessRuntime.execute starts nothing once it was cancelled; nobody
\* tells the adapter of a game engine.
Refuses(e) == e.killed /\ e.kinds[e.at] \in ByRuntime

\* An attempt; the process of it is live until it ends or is sent SIGKILL.
Attempt(e) ==
    IF Refuses(e) THEN [e EXCEPT !.pc = "tried"]
    ELSE [e EXCEPT !.pc = "runs",
                   !.live = IF e.kinds[e.at] \in Spawning THEN @ \cup {<<e.at, e.try>>} ELSE @]

\* The next step that has not passed is announced, checkpointed and attempted.
StartStep(r) ==
    /\ eng[r].pc = "step" /\ Ahead(r) # {}
    /\ LET n == CHOOSE n \in Ahead(r) : \A m \in Ahead(r) : n <= m IN
       Goes(r, Attempt([eng[r] EXCEPT !.at = n, !.st[n] = "running", !.try = 1]))
    /\ UNCHANGED <<runRow, begun, built, Evidence>>

\* What an operation leaves: a command or an engine may clean up what was built
\* before it.
Left(r, kind) ==
    CASE kind = "package" -> {built \cup {r}}
      [] kind \in {"command", "engine"} -> {built, {}}
      [] kind = "deploy" -> {built}

Operation(r) == <<eng[r].at, eng[r].try>>

\* The operation succeeds; if the event of it is lost, that counts as a failed
\* attempt of a step that stays passed.
Succeeds(r) ==
    /\ eng[r].pc = "runs"
    /\ \E pc \in {"step", "tried"} :
           Goes(r, [eng[r] EXCEPT !.pc = pc, !.st = Marked(r, "passed"), !.live = @ \ {Operation(r)}])
    /\ built' \in Left(r, eng[r].kinds[eng[r].at])
    /\ UNCHANGED <<runRow, begun, Evidence>>

Fails(r) ==
    /\ eng[r].pc = "runs"
    /\ Goes(r, [eng[r] EXCEPT !.pc = "tried", !.live = @ \ {Operation(r)}])
    /\ built' \in {built} \cup Left(r, eng[r].kinds[eng[r].at])
    /\ UNCHANGED <<runRow, begun, Evidence>>

\* runWithTimeout: the runtime is cancelled, and the process of the attempt goes
\* on for as long as it likes, an engine's with no more than a SIGTERM.
TimesOut(r) ==
    /\ eng[r].pc = "runs"
    /\ Goes(r, [eng[r] EXCEPT !.pc = "tried", !.killed = TRUE])
    /\ UNCHANGED <<runRow, begun, built, Evidence>>

EndsLate(r) ==
    /\ \E op \in eng[r].live :
           /\ eng[r].pc = "runs" => op # Operation(r)
           /\ Goes(r, [eng[r] EXCEPT !.live = @ \ {op}])
           /\ built' \in Left(r, eng[r].kinds[op[1]])
    /\ UNCHANGED <<runRow, begun, Evidence>>

\* Another attempt, or the step is settled with what its attempts have left.
AfterAttempt(r) ==
    /\ eng[r].pc = "tried"
    /\ Goes(r, IF eng[r].try < Tries THEN Attempt([eng[r] EXCEPT !.try = @ + 1])
               ELSE IF eng[r].st[eng[r].at] = "passed" THEN [eng[r] EXCEPT !.pc = "step"]
               ELSE [eng[r] EXCEPT !.pc = "failed", !.st = Marked(r, "failed")])
    /\ UNCHANGED <<runRow, begun, built, Evidence>>

\* An event or a checkpoint that cannot be written, or the announcement of the
\* result, throws out of the engine.
Throws(r) ==
    /\ eng[r].pc \in {"step", "tried", "failed", "recorded"}
    /\ Goes(r, [eng[r] EXCEPT !.pc = "throws"])
    /\ UNCHANGED <<runRow, begun, built, Evidence>>

-----------------------------------------------------------------------------
(* The record of the run *)

RecordResult(r) ==
    /\ eng[r].pc = "failed" \/ (eng[r].pc = "step" /\ Ahead(r) = {})
    /\ runRow' = [runRow EXCEPT ![r] = [status |-> IF eng[r].pc = "failed" THEN "failed" ELSE "completed",
                                       steps |-> eng[r].st, kinds |-> eng[r].kinds]]
    /\ Goes(r, [eng[r] EXCEPT !.pc = "recorded"])
    /\ UNCHANGED <<begun, built, Evidence>>

\* What is left of a request that ended: the processes that outlive it.
Ended(r) == [Resting EXCEPT !.pc = "ended", !.live = eng[r].live,
                            !.kinds = IF eng[r].live = {} THEN <<>> ELSE eng[r].kinds]

\* execution.lastResult on the blackboard, inside the same try.
Announce(r) ==
    /\ eng[r].pc = "recorded"
    /\ Goes(r, Ended(r))
    /\ UNCHANGED <<runRow, begun, built, Evidence>>

\* The catch of the request; the result recorded before stays.
RecordError(r) ==
    /\ eng[r].pc = "throws"
    /\ runRow' = [runRow EXCEPT ![r].status = "failed"] \/ UNCHANGED runRow
    /\ Goes(r, Ended(r))
    /\ UNCHANGED <<begun, built, Evidence>>

\* The server dies, and with it everything it was doing but its processes.
Restart ==
    /\ eng' = [r \in Request |-> IF eng[r].pc = "idle" THEN eng[r] ELSE Ended(r)]
    /\ verif' = [v \in Verifier |-> Unverified]
    /\ UNCHANGED <<agentStatus, runRow, begun, built, criterion>>

-----------------------------------------------------------------------------
(* Verification *)

Checks(v, state) == verif' = [verif EXCEPT ![v] = state]

\* verifyTask works on one reading of the store, with the latest run in it.
ReadEvidence(v) ==
    /\ verif[v].pc = "idle"
    /\ LET r == IF begun = <<>> THEN NoRequest ELSE begun[Len(begun)] IN
       Checks(v, [Unverified EXCEPT !.pc = "look", !.run = r, !.row = IF r = NoRequest THEN NoRow ELSE runRow[r]])
    /\ UNCHANGED <<agentStatus, runRow, begun, eng, built, criterion>>

AllPassed(row) == row.kinds # <<>> /\ \A n \in DOMAIN row.steps : row.steps[n] = "passed"
Did(row, kind) == \E n \in DOMAIN row.kinds : row.kinds[n] = kind /\ row.steps[n] = "passed"

\* verifyArtifact
InWorkspace(v) == verif[v].run \in built

\* The workspace is looked at later: the package on record must exist in it.
\* sound stands for the checks of isolation and of the budget.
LookForArtifact(v) ==
    /\ verif[v].pc = "look"
    /\ \E sound \in BOOLEAN :
           Checks(v, [verif[v] EXCEPT !.pc = "store",
                      !.sound = sound /\ (Did(verif[v].row, "package") => InWorkspace(v))])
    /\ UNCHANGED <<agentStatus, runRow, begun, eng, built, criterion>>

NoFailures(v) == verif[v].sound /\ verif[v].row.status = "completed" /\ AllPassed(verif[v].row)

\* A faulty variant: a deployment that is not part of the plan is not missed.
MeetsAny(c, v) == NoFailures(v)

Meets(c, v) == NoFailures(v) /\ (c = "it is deployed" => Did(verif[v].row, "deploy"))

\* persistVerification: the verdict on every criterion in one transaction; a
\* verification without failures may be one that completes the agent.
StoreVerdict(v) ==
    /\ verif[v].pc = "store"
    /\ criterion' = [c \in Criterion |->
                        IF Meets(c, v) THEN [status |-> "passed", run |-> verif[v].run]
                        ELSE [status |-> "failed", run |-> NoRequest]]
    /\ \/ Checks(v, Unverified)
       \/ NoFailures(v) /\ Checks(v, [Unverified EXCEPT !.pc = "accept"])
    /\ UNCHANGED <<agentStatus, runRow, begun, eng, built>>

\* completeAgent reads the criteria, then settles the agent.
ReadCriteria(v) ==
    /\ verif[v].pc = "accept"
    /\ Checks(v, IF \A c \in Criterion : criterion[c].status = "passed"
                 THEN [Unverified EXCEPT !.pc = "complete"] ELSE Unverified)
    /\ UNCHANGED <<agentStatus, runRow, begun, eng, built, criterion>>

Complete(v) ==
    /\ verif[v].pc = "complete"
    /\ agentStatus' = "completed"
    /\ Checks(v, Unverified)
    /\ UNCHANGED <<runRow, begun, eng, built, criterion>>

-----------------------------------------------------------------------------

TaskNext ==
    \/ \E r \in Request :
           \/ BuildPlan(r) \/ PushRun(r) \/ StartStep(r) \/ Succeeds(r) \/ Fails(r) \/ TimesOut(r) \/ EndsLate(r)
           \/ AfterAttempt(r) \/ Throws(r) \/ RecordResult(r) \/ Announce(r) \/ RecordError(r)
    \/ Restart
    \/ \E v \in Verifier :
           ReadEvidence(v) \/ LookForArtifact(v) \/ StoreVerdict(v) \/ ReadCriteria(v) \/ Complete(v)

TaskSpec == TaskInit /\ [][TaskNext]_taskVars

-----------------------------------------------------------------------------
(* Properties *)

\* The processes of a request that the local runtime started.
OwnProcesses(e) == {op \in e.live : e.kinds[op[1]] \in ByRuntime}

\* A request never has two commands at work in its workspace, although one that
\* timed out may outlive its attempt and the attempts go on: of the processes
\* of the local runtime (commands and packages) at most one is live, beside
\* whatever the attempts at steps of a game engine have left, which nothing
\* bounds in this way.
OneProcessAtATime ==
    \A r \in Request : Cardinality(OwnProcesses(eng[r])) <= 1

\* Whatever ran while it was verified, a criterion that passed names a run that
\* passed in all its steps, and a deployment if it asks for one.
PassedOnEvidence ==
    \A c \in Criterion :
        criterion[c].status = "passed" =>
            LET row == runRow[criterion[c].run] IN
            /\ AllPassed(row)
            /\ c = "it is deployed" => Did(row, "deploy")
=============================================================================
