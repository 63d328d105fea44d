# RazeKit DEV: a TLA+ verification project

RazeKit DEV is a Node.js service that runs autonomous software-building agents.
A confirmed request becomes a task; the task gets an agent; the agent's plan
becomes an execution graph (JEV) whose nodes workers claim under leases and run
against the agent's budget; the model loop grows the graph until the task is
verified or gives up. Around that core stand a job queue, the HTTP API, two
round-the-clock operations systems with an inference gateway, and the archived
predecessor of the build engine. This directory models the parts of the service
whose correctness depends on interleavings, crashes, retries and money, checks
them with TLC and proves the main results about the core with TLAPS.

Paths are relative to the repository; `jev.js` means `src/jev.js`, and `.ts`
files are those of the archived engine
(`archive/razekit-com-embedded-dev/server/src/development`).

## 1. Inventory

Everything is kept in one store (`store.js`): a document read with `loadDb()`
and changed inside `transact(mutator)`, which runs one mutator at a time (a
promise chain, or an advisory lock on Postgres) and writes nothing when it
throws. `Store` models that promise; everywhere else **a transaction is an
action**, and all the hard behaviour lies between transactions: state read in
one and used in another, and processes that die in between.

| Part | State | What is hard | What makes it correct |
| --- | --- | --- | --- |
| JEV rules (`jev-domain.js`) | none | a fixpoint over an arbitrary graph | the passes stop at the least set of casualties |
| JEV graph (`jev.js`, `jev-worker.js`) | graphs, nodes, leases, deadlines, renewal timers | stale reports, expired leases, reopening under running work | one result per node, dependencies first, nothing stranded, every node settles |
| Executors and budget (`jev-executor.js`, `jev-model-executor.js`, `model-reconciliation.js`, `jev-budget.js`, `billing.js`) | a chain of awaits, reservations | everything may happen between two awaits; each await may throw | no money is promised twice, no result is free |
| Model loop (`jev-model-graph.js`, `jev-model-loop.js`, `autonomous-loop.js`) | which phase the graph is in | a tick that races with a worker, an approved change, a cancellation | a review sees finished work, completion needs evidence, no silent idling |
| Flat engine and verification (`execution-engine.js`, `app-web-executor.js`, `game-executor.js`, `verification.js`) | runs, processes, criteria | a timeout whose work goes on, evidence read piecemeal | one process of the local runtime at a time, a pass names a passed run |
| Planner (`jev-planner.js`) | none | a list whose order is implicit | what may be observed stays ordered, where the planner can see it |
| Lifecycle (`task-lifecycle.js`, `agent-manager.js`, `worker-runtime.js`, `reliability.js`) | task, agent, worker rows | recovery in several transactions, by several processes | agents are accounted for, nothing confirmed or expired is forgotten |
| User decisions (`permission-broker.js`, `tool-broker.js`, `dashboard.js`, `task-instructions.js`, `admin-control.js`) | requests, grants, credentials, changes, suspension | authorize, then use; decide, then write | narrow grants, one history, a suspension that leaves nothing behind |
| HTTP API (`server.js`, `auth.js`, `tenant-security.js`) | accounts, sessions, lockouts | checks separated by awaits | wrong sign-ins in a row bounded, who is shut out gets nothing |
| Job queue (`reliability.js`, `production-runtime.js`) | jobs, leases, pool, workers | recovery racing a late worker | leased work, with two takers of an attempt at most; capacity neither lost nor counted twice |
| Operations (`ops-state.js`, `ops-supervisor.js`, `admin-ops-api.js`) | ops tasks, process leases, controls, approvals | takeover, two activities in one process | answered controls are in force |
| Builder and auditor (`ops-builder.js`, `ops-auditor.js`) | checkpoints, findings, pull requests | parked and resumed anywhere, pushed over an open pull request | what is shown passed the tests, one fix at a time |
| Inference gateway (`inference-gateway.js`, `gpu-controller.js`) | a durable queue, an instance, loaded models | ticks that fail half-way | one model loaded, dispatched requests come back |
| Store (`store.js`, `postgres-store.js`) | the document | failures and crashes half-way, start-ups beside writers | acknowledged changes stay, changes are seen whole |
| Archived engine (`orchestrator.ts`, `service.ts`, `ledger.ts`, `store/postgres.ts`) | a build row, spend records, a ledger | lapsed leases, late saves, settling twice | columns and ledger agree, one charge per step, final is final |

The components with their status are in `PROJECT.json`, and so are the hazards
this code is exposed to, line by line, with the properties that watch them.

## 2. Modules

| Module | Models |
| --- | --- |
| `JevDomain`, `JevReadiness` | the rules of `jev-domain.js` in closed form, and its loops one iteration a step |
| `JevGraph` | every writing operation of `jev.js`, the workers that remember a claim, the sweep, the operator, the clock |
| `JevExecution` | executor and model executor, await by await, against the budget; extends `JevGraph` and uses its actions |
| `ModelLoop` | the graph of one task as the loop grows it, tick by tick, inline or with workers, and changes replanned meanwhile |
| `JevPlanner` | `graphFromExecutionPlan`: a list of steps becomes a graph |
| `TaskExecution` | the flat engine, its runs and processes, and verification from their evidence |
| `JobQueue`, `LeasedWork` | jobs, direct owners and the pool; what leased work promises, which the queue implements |
| `TaskLifecycle` | a task from its preview to its end, its agents and workers, their recovery |
| `UserDecisions` | permissions, credentials, tool calls, changes, the suspension of a tenant |
| `HttpApi` | accounts, sessions and the routes of `server.js` with the checks they make |
| `OpsControl` | a supervisor's two activities, tasks, process leases, controls, the emergency stop |
| `AdminOps` | approvals, agent pauses, GPU controls, model slots and their tests |
| `OpsWork` | the builder's phases with checkpoints; the auditor's findings and tasks |
| `InferenceGateway` | the tick of the gateway, its queue, the GPU instance |
| `Store` | `transact`, reading, claiming and start-up on a file and on Postgres |
| `DevBuild` | the archived engine: a build, its workers, the owner, spend and ledger |

The theorems of section 4 are in modules of their own: `JevProofs` (about
`JevGraph` and `JevExecution`), `ModelLoopProofs`, `TaskExecutionProofs`
(`TaskExecution` and `TaskLifecycle`), `SchedulingProofs` (`JevPlanner`,
`JevReadiness` and `JobQueue`), `ServiceProofs`
(`UserDecisions` and `HttpApi`), `OperationsProofs` (`AdminOps` and
`OpsControl`), `FoundationsProofs` (`Store`, `InferenceGateway`, `OpsWork`) and
`DevBuildProofs`.

An `MC` module instantiates one of them for TLC, or several that share no
variable: then a variable `part` says which of them moves in a behaviour, and
every state of the composition is a state of each. `MCJevGraph` holds
`JevGraph` and `TaskExecution` (the two ways to carry out a plan),
`MCUserService` `UserDecisions` and `HttpApi`, `MCOpsControl` `OpsControl` and
`AdminOps`, `MCModelLoop` `ModelLoop` and the `Store` below it, and
`MCFoundations` `JevReadiness`, `JevPlanner` and `OpsWork`.

### How state and actions correspond to the code

*JevGraph.* `status`, `attempt`, `maxAttempts`, `lease`, `because` and
`graphStatus` are the fields of the rows; `leaseLeft` and `deadlineLeft` the time
left until `leaseExpiresAt` and `deadlineAt`. A lease id is fresh on every claim,
and a claim raises the attempt, which nothing resets: the attempt number stands
for the lease id and 0 for `null`. `work[w]` is the claim worker `w` holds in its
local variables; it outlives the row, which is what stale reports are made of.
`leaked` holds the claims whose renewal timer was never cleared. A node is a
number, its `order`; `skippedBecause` is any dead dependency. Each action is the
whole transaction: `CompleteNode` writes the row, propagates readiness over the
graph, and re-derives the graph status, in that order.

*JevExecution.* `run[w].step` is the await the executor has reached. `reserved`
and `captured` are the reservations under the key (node, attempt); money is a
number of minor units. `SettleNode` is the `try` block of `executeNextNode` with
the `catch` that swallows a refused capture; `CallProvider`, `SettleAnswer`,
`SettleRefusal`, `SettleUnknown` and `RecordUnknown` are `executeModelNode`;
`Report` is `completeNode` or `failNode`, whatever became of the lease. `Throw`
is any other await that throws. `settling[x]` is the reconciliation record resolver
`x` has read, and whether it has still to reopen the node (`ReopenUnserved`) or
to write the record (`CloseRecord`). `overran` and `late` are history variables.

*ModelLoop.* A node key is `<<role, cycle>>`, as the code spells them
(`astra-review-2`); the steps of a cycle's plan stand between its implementation
and its review, in whatever order the plan gives them. `tick` is what `advanceAgentUnguarded` has read and has left
to do; the graph may change between any two of its steps. `change` follows a
submitted change through its decision, its replan and its resumption.

*JobQueue.* Attempts stand for the lease id. A pool claim reads the queue
(`reading`) and writes in a later step. On a file nothing comes between; on
Postgres (`RowClaims`) a direct claim, which locks its row alone, does, and the
pool's write then supersedes it. A pool worker's report reads the
assignment, reports under the lease the job has by then, and gives the capacity
back, in three transactions.

*TaskLifecycle, UserDecisions, HttpApi, AdminOps, Store.* `call`, `request`,
`sweep`, `loop`, `admin` are requests, ticks and sweeps under way: a program
counter, and what they have read. A step is a transaction, or one read whose
result a later step uses.

*OpsControl.* `proc[p]` is the memory of a process: the loop (`pc`, `inbox`) and
the run of its task (`run`, `abort`, `pending`), two activities over one memory.

*OpsWork.* A task walks from question to question, with its latest checkpoint in the
store, and a run that is parked or interrupted starts again from there. `branch[n]`
is what the task's branch shows, with the tree the pushing run had tested; a pull
request shows its branch, so a later push by force changes it. A commit takes the
plan's files only (`Committed`), or fails and leaves nothing to show.

*InferenceGateway.* `gw` is the memory of one tick; any await of it may fail, and
the next tick starts afresh.

*DevBuild.* A tick works on the copy of the row it claimed and a request on the
copy it read; every store call, ledger unit of work and save is a step, guarded
by the revision or the lease token as the SQL is. `row.known` is the build's own
list of reservations, `ledger.taken` the ledger's, both in their order; a
settlement takes the first, then what only the ledger knows, and of all that the
base budget first (`SettledBefore`). It reads the build (`ReadToSettle`) and posts
in another step (`Settle`); orphans are listed in one and released one by one.

*TaskExecution.* `eng[r]` is an execution with the processes its attempts left
running (`live`); `runRow` the stored runs; `verif` what a verification has
read. An `engine` step stands for the actions and builds of a game engine, whose
processes the adapter starts and no cancellation of the runtime reaches; a
`deploy` step for what starts no process.

Times have mostly come or not: a lease may be found expired, a retry due, a
heartbeat stale, by whoever looks next.

## 3. What each run checks

Each property is stated with a comment at the end of its module, and each that holds
has a mutant in `PROJECT.json`: a plausible slip in one mapped definition, written
beside the definition it varies and used by nothing else, under which TLC finds
the property violated.

| Run | Shows |
| --- | --- |
| `foundations` | Every list of up to three steps, copies, unknown kinds and several spellings of a path included, becomes a graph that never runs two steps side by side of which one may see the other, but for what the planner overlooks (`ListOrderIsKept`). Every dependency relation over three keys, every mode and stored status: the passes end in the closed form (`PassesReachClosedForm`). The builder through a repair round to its pull request, with commits that fail or take a part, interrupted, resumed and pushing over an open pull request, and an auditor that dies between two writes: `PullRequestPassed`, `OneFixAtATime` |
| `graph` | Two workers and two graphs of a task with expansion, retries, lost leases, deadlines, reopening, cancellation and leaked timers, with a chain of settled-mode nodes behind a doomed one: `RunsAfterDependencies`, `NothingStranded`, `AtMostOneSuccess`. The flat engine with two requests, timeouts, retries, a dying server and a verification at any moment: `OneProcessAtATime`, `PassedOnEvidence` |
| `execution` | Two executors on a budget of three units, with crashes, refusals, swallowed errors and overruns: `HoldsFitBudget`, `ResultNeverFree` |
| `execution_live` | Beside a resolver of reconciliation records that may die between its steps: every stored node settles (`EveryNodeSettles`), and the executor is the fair worker loop the graph assumes (`GraphFairSpec`) |
| `model_loop` | A graph that grows to two repairs over plans of one step or two, inline or with workers, a change replanned between any two awaits, a permission asked in the second cycle, a cancellation: `ReviewSeesFinishedWork`, `CompletedOnEvidence`, `NeverSilentlyIdle`. Three calls on the store with failures, lost commit answers, crashes and start-ups: acknowledged changes stay, changes are seen whole, an attempt is claimed once by one way of claiming (`AcknowledgedIsKept`, `ChangesAreSeenWhole`, `ClaimsAreExclusive`) |
| `job_queue` | A job of two attempts on Postgres between a direct owner and a pool of two machines, whose claims overlap: the queue implements `LeasedWork` with two takers of an attempt at most (`WorkSpec`), `CapacityAccounted`, and a machine that is left busy is rid of its job in the end (`AssignmentsEnd`) |
| `lifecycle` | A task, its requests, the coordinator and an auditor that sweep and die: `AgentsAreAccountedFor`, `ConfirmedTaskGetsAnAgent`, `ExpiredLeaseIsRecovered` |
| `decisions` | Two requests at a time. Behind the API: `GrantsStayNarrow`, `OneHistory`, `SuspensionIsUndone`. In front: `WrongInARowBounded`, `ShutOutGetsNothing` |
| `ops` | Two processes of a system that boot, stall, lose their lease, crash and shut down: `PauseDoneMeansStopped`. Two administrators, the coordinators of two servers, a gateway and two models: `ApprovedOnce`, `PausedAgentsAreLeftAlone`, `TestsNameTheirModel` |
| `gateway` | Two requests for two models, ticks that fail half-way, an instance others start and stop: `OneModelLoaded`, `DispatchedComesBack` |
| `dev_build` | One build, two workers, the owner's decisions and up to two faults anywhere, so that settlements on stale figures meet: `BudgetColumnsAgree`, `StepChargedOnce`, `LedgerBalances`, `TerminalIsFinal` |
| `dev_build_raises` | A violation: with two raises the reservations are settled in another order than they were taken in, and the ledger consumes more than the build spent (`SettledWithinSpend`, section 6) |

### Bounds, and why they are enough

* *Graph.* A chain of two settled-mode nodes behind a doomed one, as a replan
  makes it, nodes that announce successors, and a second graph: the shortest plan in which
  propagation, `settled`, `expandsGraph` and the oldest-graph rule all matter.
  Two workers are what a stale report and its competitor need. `MaxReopens`
  bounds reopening (the implementation node once, which brings it back after its
  last attempt with work behind it), `MaxLeaks`
  leaked timers; everything else is bounded by the code's own ceilings. A lease
  and a deadline last one or two steps of the clock.
* *Readiness.* All graphs of three keys in every list order: among them passes
  that must go back once more.
* *Planner.* Three steps of every kind over a path, one below it and two other
  spellings of them, of which the planner normalizes one and not the other: a
  barrier between two writes, a write between two barriers, a copy beside the
  write of what it reads.
* *Money.* A limit of three units, prices 2, 1 and 0, charges below, at and above
  the price or not reported: two holds compete and an overrun eats into one.
* *Engine.* Two requests, one step or two, two tries: a timeout, a late end, a second
  attempt. One plan of two steps is carried out at a time, beside one of one step.
* *Model loop.* Two repairs reach the ceiling from both sides, and a change joins
  in any phase. Plans of one step, and in the second cycle (`LongPlanSecond`) also
  of two in a row, of which the first asks for a permission: a step that fails,
  one skipped behind it, and a review doomed or not.
* *Queue.* One job of two attempts, one direct owner, two machines, capacity 1 or
  2, a pool that is active or draining (a paused one is not claimed from either):
  the second claim, the overlap of two, the dead letter, and a report of a job that
  another machine holds.
* *Lifecycle.* One task, one process that dies, one lease, one checkpoint.
* *Decisions.* Two calls at a time, five in all; one credential; one call that
  dies. In front two clients and two accounts, lockout at one failure.
* *Operations.* Two processes are what a takeover needs, two coordinators what a
  pause missed by one does; one control request or two, one approval (decided by
  two), two models for one slot.
* *Builder and auditor.* One task goes through a repair round (five questions),
  one is cut off at its first; one fault of each. Beside the auditor, which touches the
  builder only through the list of tasks, the builder answers three questions.
* *Gateway.* Two requests, two failures, a day's budget of one answer, an hour.
* *Archived engine.* A budget of two calls with one raise, which the wallet, half of it
  credit, covers exactly, so that a raise waits for the payment or is refused before it;
  two faults anywhere on a build nobody edits or asks anything of (two stalled
  settlements need both), otherwise one, and one edit (a rename that competes with a step,
  or a command). Up to the raise an edit and a fault may both happen, after it one of them
  (`FewMisfortunes`). For two raises the smallest instance: one worker, one request at a time, a budget of one
  call.
* *Store.* Three calls and one job row, in two places of the document: a writer, its
  competitor, and a reader or a start-up beside them.

`CHECK_DEADLOCK FALSE` stands where the bounded system may stop for good: its
calls served, its task settled. `graph`, `execution`, `execution_live` and
`lifecycle` check for deadlock.

### Fairness

* `execution_live`: the worker loop polls for ever, each await of an executor
  settles (the runtime call is raced against its timeout), some worker sweeps,
  and the clock moves. Nobody is assumed to renew, retry, reopen or cancel;
  crashes may happen at any time. It needs `MaxLeaks = 0`: a leaked renewal timer
  keeps its node from ever being swept. The inline mode without a worker process
  never sweeps, so this is claimed for a deployment with a worker.
* `job_queue`: the coordinator's interval ticks for ever; its recoveries are strongly
  fair, since they wait for a lock that is granted in the order it was asked for
  (`pg_advisory_xact_lock`, or the promise chain) however often others take it; a
  transaction that began ends, and a job's lease runs out. Nobody is assumed to claim,
  report or beat. `AssignmentsEnd` is about a machine that is left busy: the recovery
  passes over one whose status an operator changed (`production-runtime.js:249`).
* `lifecycle`: the coordinator's sweep and tick go on (`setInterval`, restarted
  with the process). Requests, owners and auditors may stop for good.
* `gateway`: its loop goes round. The calls to AWS that precede the recovery of
  requests may fail repeatedly but not for ever (strong fairness), and a request
  that stays dispatched gets older than the limit.

## 4. What is proved

A theorem holds for every value of the constants. Their assumptions are those
the modules name (`GraphAssumption`, `ExecutionAssumption`, `JobAssumption`,
`ModelLoopAssumption`, ...): the constants have their types and the sets that are
counted are finite; that a plan does not wait in a circle (`Orderly`) is what
`assertGraphShape` checks. Beyond types they ask that special values such as `NoJob` are
not ordinary ones, that every account the API counts guesses of exists
(`ApiAssumption`), and that no agent is called `gateway` (`AdminAssumption`:
agents and the GPU share one table of requests). TLC evaluates all of them. No
theorem has a hypothesis besides.

### The graph and the executors

Of `JevGraph`, in `JevProofs`:

* `TypeCorrect`: `Spec => []TypeOK`, one step per operation (`TypeStep`), over
  what `applyReadiness` does to a status (`ReadinessEffect`).
* `Stored` is the strengthening the rest stands on: a node not stored yet is
  untouched, a graph not stored has no nodes, and no dependency dangles.
  `StepHasEffect` then says once, for every operation, how a node's status, its
  attempt and its readiness may move (`StepEffect`); most theorems only use that.
* `SettledStaysSettled` (`SettledIsFinal`), an action property, from
  `StepEffect`: a success and a cancellation are final.
* `CeilingHolds` (`AttemptsWithinCeiling`). The claim does not look at the
  ceiling, so the invariant has to carry, for PENDING and READY nodes, that an
  attempt is left.
* `DependenciesFirst` (`RunsAfterDependencies`): a success is final and a node
  becomes READY only when satisfied, so a dependency once succeeded stays so.
* `OneResultPerNode` (`AtMostOneSuccess`): only a running node is accepted and
  no success is undone (`AcceptHasEffect`).
* `OneOwnerHolds` (`OneOwner`): a claim is issued with a fresh attempt number
  and no other operation gives a running node a lease (`ClaimHasEffect`).
* `NoNodeHangs` (`NothingStranded`), for any plan. No PENDING node is left behind
  a dead dependency or with nothing to wait for, and no READY one behind a dead
  dependency, with one exception the code has: a settled-mode node of a graph in
  which something was cancelled. The strengthening (`NoneStranded`) says of RUNNING
  nodes too that no dependency of theirs is dead, with the same exception, since
  `failNode` makes a retried node READY without settling readiness. It rests on
  what a node that has run leaves behind it: its dependencies have run too
  (`Started`), and only the exception lets one be skipped (`StartedSkipped`). The
  exception is real: `deriveGraphStatus` asks for a succeeded
  expander without successors before anything else (`jev-domain.js`), so a graph
  cancelled there is reported as running and `reopenNode` still works in it; where
  two settled-mode nodes stand in a chain, as `replanNodes` builds them
  (`jev-model-graph.js:336-340`), a dependency of a running node may then be skipped,
  and its next retryable failure leaves it READY for good. The plan of the `graph`
  run has such a chain.

Of `JevExecution`, in the same module:

* `ExecutorRefinesGraph`: `ExecSpec => Spec`; each step of an executor is a step
  of the graph or leaves it alone, so every theorem above holds of executors.
* `ExecTypeCorrect`: types, and that an executor is idle exactly without a claim.
* `LimitHolds` (`SpentWithinLimit`) and `HoldsFit` (`HoldsFitBudget`) from
  `BudgetInv`, which joins the limit with `used + Held <= BudgetLimit + overran`.
  `Held` is the size of a set of money units, so what a hold adds or takes away
  is arithmetic on cardinalities (`AddHold`, `DropHold`, `FewerHolds`).
* `ResultPaid` (`ResultNeverFree`) from `PaidInv`: while a claim is current, its
  hold is untouched by every other step, since a sweep that released it would
  also have ended the claim; and two executors never share a key (`KeysDiffer`).

### The rules of the graph

In `SchedulingProofs`. `ListsKeepTheirOrder` (`ListOrderIsKept`) holds for any list,
any declarations, any spelling and any tree of paths (`PlannerAssumption`: of two
directories above one path, one is above the other). What steps may see of each
other is told by the paths the executor resolves and by all a step touches, the
source of a copy included; what the planner makes of it is not always enough, and
the property names where (`Overlooked`): between two barriers, a step of an unknown
kind before a write, a path not plainly spelt, and what a copy reads. Across a
barrier nothing is overlooked. `PlannerInv` says that a write waits for
each barrier and each interfering write before it, itself or through a barrier
between them (`WaitsForEarlier`), and that every step read so far is the last
barrier, one of the writes since, or before it; touching paths interfere
(`TouchingPathsInterfere`).

`PeelingDecides` shows that `assertAcyclic` accepts exactly the graphs that are
`Acyclic`, the form `JevGraph` uses: whatever is peeled was peeled after its
dependencies, and where the queue runs dry early what is left depends on itself.
`PassesSettle` (`PassesReachClosedForm`) does the same for `applyReadiness`. Its
invariant `PassInv` needs no count of passes: a key is skipped only if every
closed set has it (`SkippedIsCasualty`), an opened key stays satisfied
(`SatisfiedStays`), and a pass that moved nothing has found the keys it passed at
rest (`AtRest`). Where all keys rest, the skipped ones are themselves a closed set
(`CasualtiesWereSkipped`), so they are the least. Both hold for any number of keys
(`LoopAssumption`: they are numbered from one) and every graph over them.

### The model loop

`LoopIsSound` is the inductive invariant `LoopInv`, for any ceiling of repairs,
any finite set of changes and any cycles that ask for a permission. A review
depends on every step of its cycle's plan, a plan that succeeded, and a step that
began had what it waits for finished (`CyclesAreOrdered`); and what a tick decided still holds when it acts
(`TickInv`), although workers and the user move in between: no success is
undone (`Kept`, shown once for every action in `GraphIsKept`), and what the user
can append meanwhile, a replan, never displaces the node whose plan is about to
be executed (`ProducerStays`). `CompletionsRestOnEvidence`
(`CompletedOnEvidence`) and `ReviewsSeeFinishedWork` (`ReviewSeesFinishedWork`)
follow at the completing and at the claiming step. A completion needs a passing
review, its verification and the objective record of its cycle, and no later review
that has given a verdict; a later cycle that failed before its review does not hold
it up (section 6). That the greatest of a set of
cycles exists is shown from well-foundedness (`GreatestOf`).

`NeverIdlesSilently` (`NeverSilentlyIdle`) is about a graph nobody replanned
(`Plain`) and needs `PlainGraphsKeepTheirShape`. Its invariant `PlainInv` says

* `Shape`: what each node of such a graph depends on, and that cycle `c` is
  executed only behind the repairs of all cycles before it, so the highest
  execution is told by the repairs (`NewestCycle`);
* `Closed`: no PENDING node is satisfied or has a dead dependency. Settling
  readiness establishes it (`ReadinessCloses`, from the skip set being a closed
  set), and claims and retries, which do not settle readiness, keep it (`Moved`);
* `ReplansShow`: a replan, appended or still to be appended, lies among the cycles
  the property looks at.

With nothing ready and nothing running a PENDING node of least rank would have
only settled dependencies, against `Closed`; so everything has settled
(`AllSettled`). Then either a node failed and the graph reports it, or a finished
plan is not executed yet (`FinishedPlanActs`), or the newest review decides
(`NewestReviewActs`).

### The flat engine

`NoSecondProcess` (`OneProcessAtATime`) from `OneLive`: a process of the local
runtime outlives its attempt only if the runtime was cancelled, and a cancelled
runtime starts no other. It says nothing of the processes a game engine adapter
starts (`game-engine-adapters.js:115-151`): the timeout of their step cancels only
the runtime (`game-executor.js:183-185`), and the retry may start a second one.
`server.js:1071` wires no such adapter today. `TypeCorrect` carries, besides the types, that a verification that has
read a row read a final one and that a verdict stands on it (`EvidenceOK`);
`VerdictsRestOnEvidence` (`PassedOnEvidence`) and `ResultsAreFinal` follow.

### The life of a task

`AgentsStayAccountedFor` (`AgentsAreAccountedFor`), in `TaskExecutionProofs`, from
`LifecycleIsAccounted`. Counting agents alone is not inductive: between the
transaction that records the loss of a worker and the one that makes the next
agent (`recoverExpiredWorkers`, `recreateAgentFromCheckpoint`) other sweeps may
record theirs. `Accounts` therefore counts, with the agents of a task, the sweeps
that still owe it one (`Owing`). A step that adds an agent finds none
(`spawnAgentForTask`) or pays such a debt (`DebtIsPaid`), a recorded loss adds one
debt to one loss (`LossIsCounted`), a sweep that dies or finds a live agent forgets
its debt; every other step leaves both sets alone or smaller (`AccountsStay`).
`Provisioning` says that whoever is about to provision names a task there is.
The set of sweeping processes is finite (`LifecycleAssumption`); requests,
external workers and all bounds are arbitrary.

### The job queue

`TypeCorrect` includes `JobsOK`: a job is under a lease exactly while it runs, a
job that may be taken has an attempt left. `QueueIsLeasedWork` (`WorkSpec`) maps
every step of the queue to one of `LeasedWork` or a stutter: a late owner, a pool
report in three transactions and the recovery are each an ordinary give-back, or
nothing. Where a direct claim locks its row alone (`RowClaims`), the pool's write may
supersede it: an attempt then has two takers, of whom only the later one's lease is
good, and never three. Without `RowClaims` (a file, where every claim is a
`transact`) it has one. `PoolKeepsAccount` (`CapacityAccounted`) joins the pool's counter with
the set of machines that hold a job, through the release that follows a report.

### Decisions and the HTTP API

In `ServiceProofs`, for any number of calls, clients, accounts and tasks:

* `SuspensionLeavesNothing` (`SuspensionIsUndone`): what a suspension remembers
  of agent and task is never itself a suspended status.
* `ChangesMakeOneHistory` (`OneHistory`) over `DecisionsTyped`: of the requests
  that will still write a version of a change there is one, and nobody has
  written it before (`HistoryInv`).
* `GrantsAreUsedAsGiven` (`GrantsStayNarrow`): a grant for one use is unspent and
  unused, or used by one call, run or still on its way (`GrantInv`).
* `WrongSignInsAreBounded` (`WrongInARowBounded`) and `ShutOutStaysOut`
  (`ShutOutGetsNothing`) from `RequestsAreSound`. What is bounded are the wrong
  sign-ins since the last right one, within the window and one run of the server: a
  right sign-in and a restart forget the failures (`auth.js:198`, 167-170), so how
  often an account is guessed at in a window is not bounded. They are bounded only
  together with those under way: failures counted and wrong sign-ins not yet
  counted never exceed the threshold by more than the other clients
  (`GuessesCounted`), an argument on cardinalities.

### Operations

In `OperationsProofs`, for any number of administrators, agents, models,
processes and requests:

* `HealthChecksNameTheirModel` (`TestsNameTheirModel`), `ApprovalsAreUsedOnce`
  (`ApprovedOnce`: between an approval that was opened and its carrying out stands
  at most one administrator), `PausesAreDoneWhenReported`
  (`PauseDoneMeansStopped`: the request being answered is the head of the inbox,
  and it is answered with no run).
* `PausesAreObeyed` (`PausedAgentsAreLeftAlone`), for any number of servers with a
  coordinator each: one that read the modes after the newest answered request for an
  agent was a pause does not advance the agent. That no coordinator advances it once
  the pause is answered would be false with two servers, in five steps: one picks
  up and answers the pause while the other is inside a tick whose list of paused
  agents it read before.

### The store and the GPU

In `FoundationsProofs`:

* `StoreIsDisciplined`: `StoreInv` joins the locks with what each call's copy is
  known to hold: a writer under the lock has the current document, a reader a
  document some transaction committed whole. `AcknowledgedStays`
  (`AcknowledgedIsKept`), `ChangesComeWhole` (`ChangesAreSeenWhole`) and
  `AttemptsAreClaimedOnce` (`ClaimsAreExclusive`) follow. The last is about the two
  ways of claiming one by one: the row lock excludes row claims and the advisory
  lock pool claims, neither the other (section 6).
* `TheGpuHoldsOneModel` (`OneModelLoaded`): only a tick loads a model, and when
  its chat starts nothing but the model of its request is loaded (`GatewayInv`).

### The builder and the auditor

Also in `FoundationsProofs`, from `WorkIsSound` (`WorkInv`). `PullRequestsPassed`
(`PullRequestPassed`) is about what a pull request shows at any time, also after a
run that was cut off past its opening has pushed over it: a tree with which the suite
passed in the run that pushed it, or nothing of it (the commit failed), or, when an
answer went beyond the files of the plan, a part of it that the suite never ran on
alone. It needs `TestedTree`: from the test run to the commit the working tree is
what the suite ran on, what is committed may be shown of it (`Showable`), and past
the review it passed; and `BranchesPassed`, that no branch shows anything else. A repair round, a resumption and a crash all lead back to before the
tests. `OneFixIsUnderWay` (`OneFixAtATime`) needs that a run works on a task that
is running (`AtWork`): no end of a run, retry or expired lease makes a task live
that was not, so only `enqueueTask` does, and it looks for a live one first. That
the cases of an answer are all there are is proved too (`AnswerFits`): a
checkpoint only remembers questions that were asked, of the kind it remembers.
Failures are finitely many (`OpsWorkAssumption`); all else is arbitrary.

### The archived engine

In `DevBuildProofs`, for any number of workers and requests, any budget, limits
and number of faults. `CopiesAreHonest` is the inductive invariant (`BuildInv`):
a worker works on the copy it claimed and a request on the copy it read, and each
copy is older than the row or tells its state (`IsCopyOf`). A save must present
the revision of its copy, so what was computed from an older one is refused; what
a worker would save of the present revision of a finished build is that build with
its settlement (`TickOK`). The owner's requests save on the row as it is or, like
`Resume`, on a copy that was waiting. `FinishedStaysFinished` (`TerminalIsFinal`)
follows. `StepsAreChargedOnce` (`StepChargedOnce`) rests on `SpendInv`: the first
record of a step is alone (`SpendOf` finds it before another is written), later
ones reserve nothing, and nothing is charged above what it reserved.

The sums of the engine, over sets of records of no bounded size, are proved without
induction over data. `TotalRecurs`, `TotalTakes` and `TotalOfParts` say what a sum over
a finite set gains with one element and how it splits: they unfold the fold of the
community module, whose recursion is over subsets, and argue from a smallest
counterexample, which there is because the natural numbers are well-founded. On them
rest

* `ColumnsAgreeWithRecords` (`BudgetColumnsAgree`) from `MoneyInv`: each store call
  closes or releases records that were open, or writes one that was not there, and
  moves the columns by the same amount. The guard of the reservation (`ReserveFits`) and a ceiling that only
  rises keep the sum below it; a capture never exceeds what it reserved, and a worker
  that comes late finds its record closed (`SpendInv`);
* `NoMoneyIsLost` (`NothingIsLost`) from `LedgerInv` and `AskInv`: a reservation is
  posted once, under an id of the build and for a natural amount, a posting is captured
  only if it is there, and each unit of work moves what it takes from one account into
  another. It holds for any number of raises, in whatever order they are settled; what
  the ledger attributes to the build by that order is another matter (section 6);
* `WorkIsFunded` (`BudgetBeforeWork`) from `FundInv`: as long as the base budget is not
  posted, neither the row nor any copy a worker or a request holds of it is in a state
  in which money is spent, so nothing can be saved that is;
* `LedgersBalance` (`LedgerBalances`) from `TakenInv`, `FundInv` and `SettleInv`, with
  settlements on figures however stale: the owner's credit, and what budget and credit
  come to together, stay above nothing, and no more is consumed than was spent, as long
  as the build took one raise at most. The held budget alone may fall below nothing
  (section 6). Then the posted reservations are the base budget, a
  raise or both (`AtMostTwo`), and a settlement may follow another that captured none,
  either or both of them. A build that was never credited has spent all it captured
  before; one without its base budget has spent nothing, whatever raise it took
  (`SettlingUnfunded`), and is credited at its first settlement; and the base budget pays
  first and within itself (`SettlingBudget`, `SettlingRaise`), which is why what an
  earlier settlement allocated is not allocated again. With a second raise the last
  part fails, and `dev_build_raises` shows how;
* `CapturesAreWithin` (`CapturesStayWithin`) is what remains with any number of raises:
  each capture stays within its reservation (`AllocationIsWithin`), so all that is
  consumed is within what was captured, and credit is never overdrawn.

Some of these (`TypeOK`, `SettledIsFinal`, `AttemptsWithinCeiling`, `OneOwner`,
`ExecTypeOK`, `SpentWithinLimit`, `ResultFinal` and the strengthenings) are proved
and not listed in a run: the theorem covers every instance.

### Only model-checked

* Liveness (`EveryNodeSettles`, `GraphFairSpec`, `AssignmentsEnd`,
  `ConfirmedTaskGetsAnAgent`, `ExpiredLeaseIsRecovered`, `DispatchedComesBack`):
  out of the prover's reach.

Every safety property of a passing run is proved. The finding of `dev_build_raises` is a
violation and has nothing to prove.

## 5. What the models leave out

Audit rows, timestamps for display, messages, prompts and the content of plans
and answers are left out; no control depends on them in the parts modelled.

* `JevGraph`, `JevExecution`: execution-cycle records, tool scopes of nodes; one agent, whose tenant's hourly limit is
  a refusal at any time.
* `JevPlanner`: the distribution of the budget, scopes and prices are left out.
* `TaskExecution`: a process killed with SIGKILL counts as ended; `engine.cancel`
  has no caller; the processes of game engines are outside `OneProcessAtATime`; criteria set by hand are left out.
* `TaskLifecycle`: pauses and the emergency stop are in `AdminOps`, suspension in
  `UserDecisions`; budget and authorization checks hold for created tasks.
* `Store`: `ensureDb` as it resets a file it cannot read (section 6); retries of
  file operations.
* `HttpApi`: of the routes of `server.js` those that change accounts, tenants or the
  liveness of a task, and of the others the checks in front of them; session mode only (the operator token passes the same guard); the
  rate limit is a refusal at any time.
* `OpsControl`, `OpsWork`: one process of each system works at a time in
  `OpsWork`; notifications, the audit's schedule and dashboards are left out.
* `DevBuild`: events, e-mails, files, delivery and the platform adapters; the
  pause switch only withholds claims; a build awaiting funding is claimed once
  its creating request has ended; a command's check and its insert are one step.
* Not modelled: deployment files, pages, object storage, metrics, encryption,
  network policy, the browser bridge, `scripts/razekit-autobuilder.mjs`.
  They are I/O, or functions without state.

## 6. Where the code and its comments part, and what it does not promise

Met while modelling; the models do what the code does. In the core:

* `reopenNode` revives only the direct casualties (`jev.js:567`; the comments at
  538-540 and 565 speak of all), and makes a settled graph active again, as does
  `expandGraph` of a graph that succeeded, without asking for another active one
  (`jev.js:556`; the comment at 97-99 excludes two).
* `finish()` is on the return paths only (`jev-executor.js:165`; "however it
  settles", 162-164): an exception leaks the renewal timer.
* An overrun is charged without regard to open holds, so another node's capture
  may be refused and its hold stays (`jev-executor.js:267`; comment at 236).
* `isTransmitted` relies on a flag no adapter sets (`jev-model-executor.js:62`;
  "absent the flag we assume the worse case", 60): a served call may be repeated.
* The planner takes a plan's `toolScopes` as they are (`jev-planner.js:198-200`;
  58-66 speaks of narrowing); a declared step resets the barrier, so a later write
  is not ordered behind an earlier undeclared step (`jev-planner.js:122`, 204-206;
  7-11).
* Of a copy the planner compares the destination (`jev-planner.js:121-124`), while the
  executor reads its source (`game-executor.js:169-181`): a step that writes `a` and a
  copy of `a` to `b` may run side by side, though "a graph must not be weaker than that
  list" (7-11). A step of an unknown kind waits for what precedes it, but a later write
  does not wait for it (170-173, 204; the comment at 171-172 takes it for a
  barrier). `normalizePath` (110-112) knows only some spellings: `docs/../app`
  and `app` are two paths to it. `ListOrderIsKept` names the three.
* `nextModelGraphAction` passes over a review that did not succeed
  (`jev-model-graph.js:440-442`): where a change was replanned and its cycle failed, the
  verdict and the evidence of the cycle before complete the task.
* A replan waits for all the frontier in the settled mode (`jev-model-graph.js:336-340`).
  Behind a doomed step such a chain may leave a tick with nothing to do;
  `NeverSilentlyIdle` is therefore about graphs nobody replanned.
* `resolveReconciliation` checks its record (`model-reconciliation.js:196`), reopens the
  node (209) and writes the record without another look (216-228): two resolvers, or one
  that read long ago, reopen it twice, also after a later attempt whose outcome is
  unknown again ("Safe now, and only now", 208).
* A step that timed out cancels its runtime for good, so the retries of
  `execution-engine.js:120` are refused (`local-process-runtime.js:139`).
  The process of a game engine adapter is not cancelled at all
  (`game-executor.js:183-185`) and may run beside the one its retry starts.

Around it:

* A pool claim runs under the advisory lock, a direct claim under a row lock: one
  job may go to both (`production-runtime.js:218-232`, `postgres-store.js:253`), although
  "the row lock ... is what makes it exclusive" (243-245). The later lease wins.
  A commit whose answer is lost is reported as failed (`postgres-store.js:223`).
  `ensureDb` writes the initial state after any failed read (`store.js:245-252`).
* Two instruction versions written at once may lack each other's text
  (`task-instructions.js:86-91`). A suspension saves a status that may be old
  (`admin-control.js:105-122`).
* `createSession` does not look at the account again (`auth.js:202`); two
  creations at once may pass the limit of active tasks (`abuse-controls.js:47`).
* An approval whose server dies before the request is filed is never carried out
  (`admin-ops-api.js:415-420`), nor is a control request of a gateway that died.
* Edits outside the plan's files are tested but not committed, so that what is pushed
  may be a tree the suite never ran on; a commit that fails is not noticed, and the
  branch then shows nothing (`ops-builder.js:293`, 355-356). A run that is repeated after
  its pull request was opened pushes over it by force (362) before the second opening is
  refused; it may have been approved by the review of another diff, which a checkpoint of
  the same round keeps (187). The task ends in the dead letter.
* `runIdempotent`: an owner that fails late deletes the record of the one that
  took over (`reliability.js:353-357`; not modelled).
* Archived engine: reservations are not settled "in the order they were taken"
  (`funding.ts:182`, 209-211). `allReservations` lists what the build recorded before
  what only the ledger knows and moves the base budget to the front, so a raise whose
  request died before recording it is overtaken by one recorded later. If a settlement
  whose save was lost came before that and another comes after it, the later raise is
  allocated spend the earlier one already paid, and the ledger consumes more than the
  build spent. The run `dev_build_raises` shows it, and it is the finding in
  `PROJECT.json`.
* A settlement reads the build (`orchestrator.ts:507`) and posts later (513), against no
  balance (`ledger.ts:328-351`). One on stale figures credits what another has consumed
  meanwhile, and the held budget falls below nothing by as much; "settling twice posts
  nothing the second time" (`funding.ts:206-208`) is true of each posting and not of the
  sum. Credit, and budget and credit together, stay above nothing (`LedgerBalances`).
* Also there: a stopped build may leave money reserved when it is cancelled
  between its insert and its funding, or raised after its settlement
  (`service.ts:260`, 577); a stalled worker may spend after the settlement
  (`store/postgres.ts:394`); a renamed build loses a step's save and charges it
  again as a rerun (`orchestrator.ts:484-488`).

## 7. What is left

* `runIdempotent`; the budget distribution and tool scopes of the planner.
* The projection of the flat engine's records onto a graph (`syncExecutionCycleRun`,
  `jev-executor.js:485-573`), which reads a view and writes a status later.
* Replanned graphs: what a tick can still do behind a doomed chain of settled-mode
  nodes, and which evidence a user should expect of a change whose cycle failed.
