--------------------------- MODULE TaskLifecycle ---------------------------
(***************************************************************************)
(* The life of a task outside its graph: a preview is confirmed, a task is *)
(* created, an agent with its worker record is provisioned and started,    *)
(* stopped for the user, resumed, cancelled or completed, and recreated    *)
(* when its worker's lease runs out.  The code is src/src/agent-manager.js,*)
(* worker-runtime.js, the worker half of reliability.js, autonomous-loop.js,*)
(* runtime-coordinator.js and the task routes of server.js.                *)
(*                                                                         *)
(* One step is one transaction, or one read whose result a later step      *)
(* uses.  spawnAgentForTask repeats every check of its first read inside   *)
(* its transaction, so it is one step.  Agent i owns worker record i.      *)
(***************************************************************************)
EXTENDS Naturals, Sequences, FiniteSets

CONSTANTS
    Call,      \* requests of the API being served
    Coordinator, \* the process of the runtime coordinator
    Auditor,   \* other processes that sweep expired workers
    Owner,     \* external workers, which lease worker records
    None,
    MaxTasks,  \* bound: tasks created
    MaxLeases, \* bound: leases granted
    MaxSaves,  \* bound: checkpoints along one line of agents
    MaxStops   \* bound: processes that die

VARIABLES
    preview,   \* the task that the preview was marked as spent for, or 0
    tasks,
    agents,
    workers,
    call,      \* what a request being served has read and has left to do
    sweep,     \* a sweep of expired workers: what it has read
    loop,      \* the coordinator after its sweep
    lease,     \* what an external worker holds: a worker and a lease
    grants,    \* leases granted
    stops

ASSUME LifecycleAssumption ==
    /\ {MaxTasks, MaxLeases, MaxSaves, MaxStops} \subseteq Nat
    /\ Coordinator \notin Auditor /\ IsFiniteSet(Auditor)

vars == <<preview, tasks, agents, workers, call, sweep, loop, lease, grants, stops>>
records == <<tasks, agents, workers>>
actors == <<call, sweep, loop, lease>>

Recoverer == Auditor \cup {Coordinator}

Live == {"ready", "running", "waiting_user"}
NoCall == [pc |-> "idle", task |-> 0, agent |-> 0]
NoSweep == [pc |-> "idle", todo |-> {}, worker |-> 0, made |-> 0]
NoLoop == [pc |-> "idle", todo |-> {}, at |-> 0]

Init ==
    /\ preview = 0
    /\ tasks = <<>> /\ agents = <<>> /\ workers = <<>>
    /\ call = [c \in Call |-> NoCall]
    /\ sweep = [r \in Recoverer |-> NoSweep]
    /\ loop = NoLoop
    /\ lease = [o \in Owner |-> None]
    /\ grants = 0 /\ stops = 0

-----------------------------------------------------------------------------
(* Transactions on a task, its agent and its worker *)

AgentsOf(t) == {a \in DOMAIN agents : agents[a].task = t}
LiveAgents(t) == {a \in AgentsOf(t) : agents[a].status \in Live}
Expired(w) == workers[w].lease # 0 /\ workers[w].expired

\* The agent's status, its task's and its worker's change together.
Transition(a, agentStatus, taskStatus, worker) ==
    /\ agents' = [agents EXCEPT ![a].status = agentStatus]
    /\ tasks' = [tasks EXCEPT ![agents[a].task].status = taskStatus]
    /\ workers' = [workers EXCEPT ![a] = worker]

\* A new agent after agent "from" (0: the first), with that one's checkpoint.
NewAgent(t, from) ==
    /\ agents' = Append(agents, [task |-> t, status |-> "ready", from |-> from])
    /\ workers' = Append(workers,
         [status |-> "ready", lease |-> 0, expired |-> FALSE,
          saved |-> IF from = 0 THEN 0 ELSE workers[from].saved])
    /\ tasks' = [tasks EXCEPT ![t].status = "queued", ![t].agent = Len(agents) + 1]

CanStart(a) == agents[a].status = "ready"

StartAgent(a) ==
    Transition(a, "running", "running", [workers[a] EXCEPT !.status = "running"])

TerminalTransition(a, status) ==
    Transition(a, status, status, [workers[a] EXCEPT !.status = "stopped"])

-----------------------------------------------------------------------------
(* The task routes *)

Goto(c, pc, t, a) == call' = [call EXCEPT ![c] = [pc |-> pc, task |-> t, agent |-> a]]
Answered(c) == call' = [call EXCEPT ![c] = NoCall]

\* authorizeFromPreview reads the preview; nothing is written.
Confirm(c) ==
    /\ call[c].pc = "idle"
    /\ preview = 0
    /\ Len(tasks) < MaxTasks
    /\ Goto(c, "confirmed", 0, 0)
    /\ UNCHANGED <<preview, records, sweep, loop, lease, grants, stops>>

CreateTask(c) ==
    /\ call[c].pc = "confirmed" /\ Len(tasks) < MaxTasks
    /\ tasks' = Append(tasks, [status |-> "ready_for_agent", agent |-> 0, lost |-> 0])
    /\ Goto(c, "created", Len(tasks) + 1, 0)
    /\ UNCHANGED <<preview, agents, workers, sweep, loop, lease, grants, stops>>

MarkPreviewConfirmed(c) ==
    /\ call[c].pc = "created"
    /\ preview' = IF preview = 0 THEN call[c].task ELSE preview
    /\ Goto(c, "spawn", call[c].task, 0)
    /\ UNCHANGED <<records, sweep, loop, lease, grants, stops>>

Authorize(c, t) ==
    /\ call[c].pc = "idle"
    /\ tasks' = [tasks EXCEPT ![t].status = "ready_for_agent"]
    /\ Goto(c, "spawn", t, 0)
    /\ UNCHANGED <<preview, agents, workers, sweep, loop, lease, grants, stops>>

\* An agent the task ever had is returned, whatever became of it.
Spawned(t) == IF AgentsOf(t) = {} THEN Len(agents) + 1 ELSE CHOOSE a \in AgentsOf(t) : \A b \in AgentsOf(t) : a <= b
SpawnRefused(t) == AgentsOf(t) = {} /\ tasks[t].status # "ready_for_agent"
SpawnForUnchecked(t) == NewAgent(t, 0)
SpawnFor(t) == IF AgentsOf(t) = {} THEN NewAgent(t, 0) ELSE UNCHANGED records

SpawnAgentForTask(c) ==
    /\ call[c].pc = "spawn"
    /\ LET t == call[c].task IN
       IF SpawnRefused(t) THEN Answered(c) /\ UNCHANGED records
       ELSE SpawnFor(t) /\ Goto(c, "start", t, Spawned(t))
    /\ UNCHANGED <<preview, sweep, loop, lease, grants, stops>>

StartFromCall(c) ==
    /\ call[c].pc = "start"
    /\ IF CanStart(call[c].agent) THEN StartAgent(call[c].agent) ELSE UNCHANGED records
    /\ Answered(c)
    /\ UNCHANGED <<preview, sweep, loop, lease, grants, stops>>

\* The cancel route reads the task first and cancels what it has read.
CancelRead(c, t) ==
    /\ call[c].pc = "idle"
    /\ Goto(c, "cancel", t, tasks[t].agent)
    /\ UNCHANGED <<preview, records, sweep, loop, lease, grants, stops>>

CancelWrite(c) ==
    /\ call[c].pc = "cancel"
    /\ IF call[c].agent # 0 THEN TerminalTransition(call[c].agent, "cancelled")
       ELSE /\ tasks' = [tasks EXCEPT ![call[c].task].status = "cancelled"]
            /\ UNCHANGED <<agents, workers>>
    /\ Answered(c)
    /\ UNCHANGED <<preview, sweep, loop, lease, grants, stops>>

\* The user answers what the agent waits for; a replan may reopen finished work.
ResumeAgent(a) ==
    /\ agents[a].status \in {"waiting_user", "completed"}
    /\ Transition(a, "running", "running", workers[a])
    /\ UNCHANGED <<preview, actors, grants, stops>>

-----------------------------------------------------------------------------
(* The leases of worker records *)

\* An external worker takes the record of an agent that may run.
LeaseWorker(o, w) ==
    /\ grants < MaxLeases
    /\ workers[w].status \in {"ready", "running"}
    /\ workers[w].lease = 0 \/ workers[w].expired
    /\ workers' = [workers EXCEPT ![w].lease = grants + 1, ![w].expired = FALSE, ![w].status = "running"]
    /\ lease' = [lease EXCEPT ![o] = [worker |-> w, id |-> grants + 1]]
    /\ grants' = grants + 1
    /\ UNCHANGED <<preview, tasks, agents, call, sweep, loop, stops>>

HoldsLease(o) == lease[o] # None /\ workers[lease[o].worker].lease = lease[o].id

\* Only the identity of the lease is checked: one that ran out can be renewed.
RenewWorkerLease(o) ==
    /\ HoldsLease(o)
    /\ workers' = [workers EXCEPT ![lease[o].worker].expired = FALSE]
    /\ UNCHANGED <<preview, tasks, agents, actors, grants, stops>>

CheckpointWorker(o) ==
    /\ HoldsLease(o)
    /\ workers[lease[o].worker].saved < MaxSaves
    /\ workers' = [workers EXCEPT ![lease[o].worker].saved = @ + 1]
    /\ UNCHANGED <<preview, tasks, agents, actors, grants, stops>>

ReleaseWorkerLease(o) ==
    /\ HoldsLease(o)
    /\ workers' = [workers EXCEPT ![lease[o].worker].lease = 0, ![lease[o].worker].expired = FALSE]
    /\ lease' = [lease EXCEPT ![o] = None]
    /\ UNCHANGED <<preview, tasks, agents, call, sweep, loop, grants, stops>>

\* A worker told that its lease is not valid stops working.
LeaseRefused(o) ==
    /\ lease[o] # None /\ ~HoldsLease(o)
    /\ lease' = [lease EXCEPT ![o] = None]
    /\ UNCHANGED <<preview, records, call, sweep, loop, grants, stops>>

LeaseRunsOut(w) ==
    /\ workers[w].lease # 0 /\ ~workers[w].expired
    /\ workers' = [workers EXCEPT ![w].expired = TRUE]
    /\ UNCHANGED <<preview, tasks, agents, actors, grants, stops>>

ClearLease(w) == [workers[w] EXCEPT !.lease = 0, !.expired = FALSE, !.status = "ready"]

\* POST /internal/workers/:id/recover
RecoverExpiredWorkerLease(w) ==
    /\ Expired(w)
    /\ workers' = [workers EXCEPT ![w] = ClearLease(w)]
    /\ UNCHANGED <<preview, tasks, agents, actors, grants, stops>>

-----------------------------------------------------------------------------
(* The sweep of expired workers *)

At(r, pc) == sweep[r].pc = pc
SweepGoes(r, pc) == sweep' = [sweep EXCEPT ![r].pc = pc]
NextWorker(r) == sweep' = [sweep EXCEPT ![r] = [NoSweep EXCEPT !.pc = "pick", !.todo = sweep[r].todo]]
ExpiredWorkers == {w \in DOMAIN workers : Expired(w) /\ workers[w].status \in {"ready", "running"}}
TaskOf(r) == agents[sweep[r].worker].task

BeginSweep(r) ==
    /\ At(r, "idle") /\ (r = Coordinator => loop.pc = "idle")
    /\ sweep' = [sweep EXCEPT ![r] = [NoSweep EXCEPT !.pc = "pick", !.todo = ExpiredWorkers]]
    /\ UNCHANGED <<preview, records, call, loop, lease, grants, stops>>

SweepOfRunning(w) == IF ~Expired(w) \/ agents[w].status # "running" THEN "pick" ELSE "fail"
SweepOf(w) ==
    IF ~Expired(w) THEN "pick"
    ELSE IF agents[w].status \in {"cancelled", "completed"} THEN "clear" ELSE "fail"

\* A worker's record, and its agent's, are read once more.
PickWorker(r, w) ==
    /\ At(r, "pick") /\ w \in sweep[r].todo
    /\ sweep' = [sweep EXCEPT ![r].todo = @ \ {w}, ![r].pc = SweepOf(w),
                              ![r].worker = IF SweepOf(w) = "pick" THEN 0 ELSE w]
    /\ UNCHANGED <<preview, records, call, loop, lease, grants, stops>>

ClearExpired(r) ==
    /\ At(r, "clear") /\ NextWorker(r)
    /\ LET w == sweep[r].worker IN
       workers' = IF Expired(w) THEN [workers EXCEPT ![w] = ClearLease(w)] ELSE workers
    /\ UNCHANGED <<preview, tasks, agents, call, loop, lease, grants, stops>>

\* The worker is lost: neither the lease nor the agent's status is asked again.
FailLostAgent(r) ==
    /\ At(r, "fail") /\ SweepGoes(r, "recreate")
    /\ LET w == sweep[r].worker IN
       /\ agents' = [agents EXCEPT ![w].status = "failed"]
       /\ workers' = [workers EXCEPT ![w] = [ClearLease(w) EXCEPT !.status = "failed"]]
       /\ tasks' = [tasks EXCEPT ![TaskOf(r)].status = "queued", ![TaskOf(r)].lost = @ + 1]
    /\ UNCHANGED <<preview, call, loop, lease, grants, stops>>

\* A live agent is found by the first read, and there is nothing to do, or was
\* made in between and is found by the transaction, and started like a new one.
RecreateAgent(r) ==
    /\ At(r, "recreate")
    /\ LET live == LiveAgents(TaskOf(r))
           start(a) == sweep' = [sweep EXCEPT ![r].pc = "start", ![r].made = a]
       IN \/ live # {} /\ (NextWorker(r) \/ \E a \in live : start(a)) /\ UNCHANGED records
          \/ live = {} /\ start(Len(agents) + 1) /\ NewAgent(TaskOf(r), sweep[r].worker)
    /\ UNCHANGED <<preview, call, loop, lease, grants, stops>>

\* An agent that cannot start ends the sweep, and the coordinator's tick with it.
StartRecreated(r) ==
    /\ At(r, "start")
    /\ IF CanStart(sweep[r].made) THEN StartAgent(sweep[r].made) /\ NextWorker(r)
       ELSE sweep' = [sweep EXCEPT ![r] = NoSweep] /\ UNCHANGED records
    /\ UNCHANGED <<preview, call, loop, lease, grants, stops>>

MarkedTasks == {t \in DOMAIN tasks : tasks[t].status = "ready_for_agent" /\ preview = t}
ReadyTasks == {t \in DOMAIN tasks : tasks[t].status = "ready_for_agent"}

EndSweep(r) ==
    /\ At(r, "pick") /\ sweep[r].todo = {}
    /\ sweep' = [sweep EXCEPT ![r] = NoSweep]
    /\ loop' = IF r # Coordinator THEN loop
               ELSE [NoLoop EXCEPT !.pc = "ready", !.todo = ReadyTasks]
    /\ UNCHANGED <<preview, records, call, lease, grants, stops>>

-----------------------------------------------------------------------------
(* The rest of the coordinator's tick: tasks to start, agents to advance *)

LoopAt(pc) == loop.pc = pc
LoopGoes(pc) == loop' = [loop EXCEPT !.pc = pc, !.at = 0]
TickFails == loop' = NoLoop

LoopSpawn(t) ==
    /\ LoopAt("ready") /\ t \in loop.todo
    /\ IF SpawnRefused(t) THEN TickFails /\ UNCHANGED records
       ELSE SpawnFor(t) /\ loop' = [pc |-> "start", todo |-> loop.todo \ {t}, at |-> Spawned(t)]
    /\ UNCHANGED <<preview, call, sweep, lease, grants, stops>>

\* An agent that is not ready is passed over, or was ready when it was read.
LoopStart ==
    /\ LoopAt("start")
    /\ \/ CanStart(loop.at) /\ StartAgent(loop.at) /\ LoopGoes("ready")
       \/ ~CanStart(loop.at) /\ (LoopGoes("ready") \/ TickFails) /\ UNCHANGED records
    /\ UNCHANGED <<preview, call, sweep, lease, grants, stops>>

BeginAdvance ==
    /\ LoopAt("ready") /\ loop.todo = {}
    /\ loop' = [NoLoop EXCEPT !.pc = "advance", !.todo = {a \in DOMAIN agents : agents[a].status = "running"}]
    /\ UNCHANGED <<preview, records, call, sweep, lease, grants, stops>>

\* advanceAgent reads the agent, then runs nodes for as long as they take.
AdvanceAgent(a) ==
    /\ LoopAt("advance") /\ a \in loop.todo
    /\ loop' = IF agents[a].status = "running" THEN [pc |-> "working", todo |-> loop.todo \ {a}, at |-> a]
               ELSE [loop EXCEPT !.todo = @ \ {a}]
    /\ UNCHANGED <<preview, records, call, sweep, lease, grants, stops>>

\* The graph has more to do, or a retryable failure is left for the next tick.
WorkGoesOn ==
    /\ LoopAt("working") /\ LoopGoes("advance")
    /\ UNCHANGED <<preview, records, call, sweep, lease, grants, stops>>

BlockForUser ==
    /\ LoopAt("working") /\ LoopGoes("advance")
    /\ Transition(loop.at, "waiting_user", "waiting_user", workers[loop.at])
    /\ UNCHANGED <<preview, call, sweep, lease, grants, stops>>

CompleteAgent ==
    /\ LoopAt("working") /\ LoopGoes("advance")
    /\ TerminalTransition(loop.at, "completed")
    /\ UNCHANGED <<preview, call, sweep, lease, grants, stops>>

EndTick ==
    /\ LoopAt("advance") /\ loop.todo = {} /\ TickFails
    /\ UNCHANGED <<preview, records, call, sweep, lease, grants, stops>>

-----------------------------------------------------------------------------
(* Processes that die *)

\* A cancellation that dies before its write was never made.
CallDies(c) ==
    /\ call[c].pc \notin {"idle", "cancel"} /\ stops < MaxStops
    /\ Answered(c) /\ stops' = stops + 1
    /\ UNCHANGED <<preview, records, sweep, loop, lease, grants>>

SweeperDies(r) ==
    /\ (At(r, "idle") => r = Coordinator /\ ~LoopAt("idle")) /\ stops < MaxStops
    /\ sweep' = [sweep EXCEPT ![r] = NoSweep]
    /\ loop' = IF r = Coordinator THEN NoLoop ELSE loop
    /\ stops' = stops + 1
    /\ UNCHANGED <<preview, records, call, lease, grants>>

CallStep(c) ==
    \/ Confirm(c) \/ CreateTask(c) \/ MarkPreviewConfirmed(c)
    \/ SpawnAgentForTask(c) \/ StartFromCall(c) \/ CancelWrite(c) \/ CallDies(c)
    \/ \E t \in DOMAIN tasks : Authorize(c, t) \/ CancelRead(c, t)

SweepStep(r) ==
    \/ BeginSweep(r) \/ ClearExpired(r) \/ FailLostAgent(r)
    \/ RecreateAgent(r) \/ StartRecreated(r) \/ EndSweep(r)
    \/ \E w \in DOMAIN workers : PickWorker(r, w)

LoopStep ==
    \/ \E t \in DOMAIN tasks : LoopSpawn(t)
    \/ LoopStart \/ BeginAdvance \/ WorkGoesOn \/ BlockForUser \/ CompleteAgent \/ EndTick
    \/ \E a \in DOMAIN agents : AdvanceAgent(a)

WorkerStep ==
    \/ \E o \in Owner : RenewWorkerLease(o) \/ CheckpointWorker(o) \/ ReleaseWorkerLease(o) \/ LeaseRefused(o)
    \/ \E w \in DOMAIN workers :
         LeaseRunsOut(w) \/ RecoverExpiredWorkerLease(w) \/ \E o \in Owner : LeaseWorker(o, w)

Next ==
    \/ \E c \in Call : CallStep(c)
    \/ \E r \in Recoverer : SweepStep(r) \/ SweeperDies(r)
    \/ LoopStep \/ WorkerStep
    \/ \E a \in DOMAIN agents : ResumeAgent(a)

\* The coordinator's interval ticks for ever; nothing else is promised.
Spec == Init /\ [][Next]_vars
        /\ WF_vars(SweepStep(Coordinator)) /\ WF_vars(LoopStep)

-----------------------------------------------------------------------------
(* Properties *)

\* However many requests, ticks and sweeps provision agents at once, a task has
\* one agent and one more for every recorded loss of a worker at most.
AgentsAreAccountedFor ==
    \A t \in DOMAIN tasks : Cardinality(AgentsOf(t)) <= 1 + tasks[t].lost

TaskIs(t, s) == t \in DOMAIN tasks /\ tasks[t].status = s

\* A confirmed task is not forgotten: even when the request that created it dies,
\* it gets an agent or is cancelled.
ConfirmedTaskGetsAnAgent ==
    \A t \in 1..MaxTasks :
      TaskIs(t, "ready_for_agent") ~> (AgentsOf(t) # {} \/ TaskIs(t, "cancelled"))

\* A lease that ran out does not stay: its worker renews it or is recovered,
\* through failing ticks and processes that die.
ExpiredLeaseIsRecovered ==
    \A w \in 1..(MaxTasks + MaxLeases) :
      (w \in ExpiredWorkers) ~> (w \notin ExpiredWorkers)
=============================================================================
