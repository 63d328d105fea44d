------------------------------ MODULE AdminOps ------------------------------
(***************************************************************************)
(* The admin control center: the routes of src/src/admin-ops-api.js that   *)
(* record what a person asked of the product agents and of the inference   *)
(* gateway, approvals, the model of a slot and its tests, and who carries  *)
(* the requests out: the runtime coordinator inside the server for agents, *)
(* the gateway process for the GPU.  The requests to the two supervised    *)
(* systems, and tasks, are in OpsControl; the gateway's loop in            *)
(* InferenceGateway.                                                       *)
(***************************************************************************)
EXTENDS Naturals, Sequences, FiniteSets

CONSTANTS
    Admin,         \* people deciding at the same time, or one in two tabs
    Agent,         \* PRODUCT_AGENT_IDS
    Model,         \* DEFAULT_SUPPORTED_MODELS
    Coordinator,   \* the servers that run a coordinator
    MaxControls,   \* bound: control requests ever recorded
    MaxApprovals   \* bound: approvals ever asked for

ASSUME AdminAssumption ==
    /\ MaxControls \in Nat /\ MaxApprovals \in Nat
    /\ "gateway" \notin Agent

Nothing == 0
Approval == 1..MaxApprovals
AgentAction == {"pause", "resume"}
GatewayAction == {"gpu_start", "gpu_stop"}

VARIABLES
    ctl,        \* opsControlRequests; old: the time to accept it is over
    agentMode,  \* opsAgentControls
    halted,  \* the emergency-stop setting
    approval,   \* opsApprovals, of one fingerprint
    beat,       \* the status derived from the gateway's heartbeat and its age
    inbox,      \* what the gateway accepted and has not answered
    slot,       \* the model assigned to the slot
    test,       \* the tests under way: of which model, answered by which
    passed,     \* opsModelStatus: for a model, the models that answered its tests
    admin,      \* the decision each administrator is making
    coord       \* the tick of each coordinator, and whom it skips; knew: the
                \* requests that were answered when it read the modes

adminVars == <<ctl, agentMode, halted, approval, beat, inbox, slot, test, passed, admin, coord>>
people == <<approval, admin>>
control == <<ctl, agentMode, halted>>
gateway == <<beat, inbox>>
models == <<slot, test, passed>>

Tester == {"gateway", "builder"}
NoTest == [of |-> "none", by |-> "none"]
Ready == [pc |-> "idle", of |-> Nothing]
Waiting == [pc |-> "idle", skip |-> {}, knew |-> {}]

AdminInit ==
    /\ ctl = <<>>
    /\ agentMode = [a \in Agent |-> "running"]
    /\ halted = FALSE
    /\ approval = [i \in Approval |-> "none"]
    /\ beat = "not_configured"
    /\ inbox = {}
    /\ slot \in Model
    /\ test = [t \in Tester |-> NoTest]
    /\ passed = [m \in Model |-> [t \in Tester |-> {}]]
    /\ admin = [a \in Admin |-> Ready]
    /\ coord = [c \in Coordinator |-> Waiting]

-----------------------------------------------------------------------------
(* Control requests *)

\* createControlRequest; from names the approval behind it.
Record(target, action, from) ==
    /\ Len(ctl) < MaxControls
    /\ ctl' = Append(ctl, [target |-> target, action |-> action, from |-> from,
                           status |-> "requested", old |-> FALSE])

AgentControlRoute ==
    /\ \E agent \in Agent, action \in AgentAction : Record(agent, action, Nothing)
    /\ UNCHANGED <<agentMode, halted, people, gateway, models, coord>>

GpuControlsAvailable == beat \in {"running", "paused"}

\* Active inference jobs are confirmed by a second question and stop nothing.
GpuRoute ==
    /\ GpuControlsAvailable
    /\ \E action \in GatewayAction : Record("gateway", action, Nothing)
    /\ UNCHANGED <<agentMode, halted, people, gateway, models, coord>>

EmergencyRoute ==
    /\ halted' = ~halted
    /\ UNCHANGED <<ctl, agentMode, people, gateway, models, coord>>

AskedOf(target) == {r \in DOMAIN ctl : ctl[r].status = "requested" /\ ctl[r].target = target}

TimePasses ==
    /\ \E r \in DOMAIN ctl :
           ctl[r].status = "requested" /\ ~ctl[r].old /\ ctl' = [ctl EXCEPT ![r].old = TRUE]
    /\ UNCHANGED <<agentMode, halted, people, gateway, models, coord>>

-----------------------------------------------------------------------------
(* Approvals *)

\* createApproval: one pending approval for a fingerprint.
CreateApproval ==
    /\ \A i \in Approval : approval[i] # "pending"
    /\ \E i \in Approval :
           /\ approval[i] = "none" /\ \A j \in 1..(i - 1) : approval[j] # "none"
           /\ approval' = [approval EXCEPT ![i] = "pending"]
    /\ UNCHANGED <<control, gateway, models, admin, coord>>

\* The decision route reads the approval before it decides.
OpenDecision(a) ==
    /\ admin[a] = Ready
    /\ \E i \in Approval :
           approval[i] # "none" /\ admin' = [admin EXCEPT ![a] = [pc |-> "decide", of |-> i]]
    /\ UNCHANGED <<control, gateway, models, approval, coord>>

\* A faulty variant: the decision rests on what the route has read.
StillPendingWhenOpened(i) == TRUE

StillPending(i) == approval[i] = "pending"

Decide(a) ==
    LET i == admin[a].of IN
    /\ admin[a].pc = "decide"
    /\ IF StillPending(i)
       THEN \E decision \in {"approved", "denied"} :
                /\ approval' = [approval EXCEPT ![i] = decision]
                /\ admin' = [admin EXCEPT ![a] = IF decision = "approved" THEN [pc |-> "ask", of |-> i] ELSE Ready]
       ELSE UNCHANGED approval /\ admin' = [admin EXCEPT ![a] = Ready]
    /\ UNCHANGED <<control, gateway, models, coord>>

\* What was approved becomes a control request, in a transaction of its own.
AskApproved(a) ==
    /\ admin[a].pc = "ask"
    /\ \/ \E action \in GatewayAction : Record("gateway", action, admin[a].of)
       \/ \E agent \in Agent, action \in AgentAction : Record(agent, action, admin[a].of)
    /\ admin' = [admin EXCEPT ![a] = Ready]
    /\ UNCHANGED <<agentMode, halted, approval, gateway, models, coord>>

-----------------------------------------------------------------------------
(* The coordinator *)

OldestFirst(S) == [n \in 1..Cardinality(S) |-> CHOOSE r \in S : Cardinality({s \in S : s < r}) = n - 1]

Live(agent) == {r \in AskedOf(agent) : ~ctl[r].old}
ModeFor(r) == IF ctl[r].action = "pause" THEN "paused" ELSE "running"

\* A faulty variant: the oldest live request counts.
AppliedOldest(agent) ==
    IF Live(agent) = {} THEN agentMode[agent] ELSE ModeFor(OldestFirst(Live(agent))[1])

\* applyAgentControlRequests, for one agent: the newest live request counts.
Applied(agent) ==
    IF Live(agent) = {} THEN agentMode[agent]
    ELSE ModeFor(OldestFirst(Live(agent))[Cardinality(Live(agent))])

\* tick, in its steps: what was asked is applied in one transaction,
BeginTick(c) ==
    /\ coord[c].pc = "idle"
    /\ agentMode' = [agent \in Agent |-> Applied(agent)]
    /\ ctl' = [r \in DOMAIN ctl |->
                  IF \E agent \in Agent : r \in AskedOf(agent)
                  THEN [ctl[r] EXCEPT !.status = IF ctl[r].old THEN "expired" ELSE "completed"]
                  ELSE ctl[r]]
    /\ coord' = [coord EXCEPT ![c].pc = "emergency"]
    /\ UNCHANGED <<halted, people, gateway, models>>

\* the emergency stop is read,
ReadHalt(c) ==
    /\ coord[c].pc = "emergency"
    /\ coord' = [coord EXCEPT ![c].pc = IF halted THEN "idle" ELSE "modes"]
    /\ UNCHANGED <<control, people, gateway, models>>

\* then the modes that are in force by then,
ReadModes(c) ==
    /\ coord[c].pc = "modes"
    /\ coord' = [coord EXCEPT ![c] =
                    [pc |-> "advance",
                     skip |-> {agent \in Agent : agentMode[agent] = "paused"},
                     knew |-> {r \in DOMAIN ctl : ctl[r].status = "completed"}]]
    /\ UNCHANGED <<control, people, gateway, models>>

\* and the agents that are not to be skipped are started and advanced:
\* processReadyTasks and advanceAllAgents.
EndTick(c) ==
    /\ coord[c].pc = "advance"
    /\ coord' = [coord EXCEPT ![c] = Waiting]
    /\ UNCHANGED <<control, people, gateway, models>>

Advanced(c) == IF coord[c].pc = "advance" THEN Agent \ coord[c].skip ELSE {}

\* A server restarts: its coordinator and the routes it was in are gone.
RestartServer(c) ==
    /\ coord' = [coord EXCEPT ![c] = Waiting]
    /\ \E gone \in SUBSET Admin : admin' = [a \in Admin |-> IF a \in gone THEN Ready ELSE admin[a]]
    /\ UNCHANGED <<control, approval, gateway, models>>

-----------------------------------------------------------------------------
(* The gateway *)

\* writeHeartbeat; a clean shutdown shows at once.
Report ==
    /\ beat' \in {"running", "paused", "offline"} \ {beat}
    /\ UNCHANGED <<control, people, inbox, models, coord>>

\* deriveProcessStatus: an old heartbeat never reports what it said last.
BeatAges ==
    /\ \/ beat \in {"running", "paused"} /\ beat' = "stale"
       \/ beat = "stale" /\ beat' = "offline"
    /\ UNCHANGED <<control, people, inbox, models, coord>>

\* acceptControlRequests
Accept ==
    /\ inbox = {} /\ AskedOf("gateway") # {}
    /\ inbox' = Live("gateway")
    /\ ctl' = [r \in DOMAIN ctl |->
                  IF r \in AskedOf("gateway")
                  THEN [ctl[r] EXCEPT !.status = IF ctl[r].old THEN "expired" ELSE "accepted"]
                  ELSE ctl[r]]
    /\ UNCHANGED <<agentMode, halted, people, beat, models, coord>>

\* The requests are carried out oldest first, and resolved with evidence.
CarryOut ==
    /\ inbox # {}
    /\ LET r == OldestFirst(inbox)[1] IN
       /\ inbox' = inbox \ {r}
       /\ \E status \in {"completed", "failed"} : ctl' = [ctl EXCEPT ![r].status = status]
    /\ UNCHANGED <<agentMode, halted, people, beat, models, coord>>

GatewayDies ==
    /\ inbox # {} /\ inbox' = {}
    /\ UNCHANGED <<control, people, beat, models, coord>>

-----------------------------------------------------------------------------
(* Models and their tests *)

\* setModelAssignment
AssignModel ==
    /\ slot' \in Model \ {slot}
    /\ UNCHANGED <<control, people, gateway, test, passed, coord>>

\* A test notes the model the slot has when it starts: the gateway as it
\* dispatches the request, an acceptance test before it asks the gateway.
StartTest(t) ==
    /\ test[t] = NoTest
    /\ test' = [test EXCEPT ![t] = [of |-> slot, by |-> IF t = "gateway" THEN slot ELSE "none"]]
    /\ UNCHANGED <<control, people, gateway, slot, passed, coord>>

AcceptanceIsAnswered ==
    /\ test["builder"] # NoTest /\ test["builder"].by = "none"
    /\ test' = [test EXCEPT !["builder"].by = slot]
    /\ UNCHANGED <<control, people, gateway, slot, passed, coord>>

\* The process of the test dies, or the request fails.
TestIsLost(t) ==
    /\ test[t] # NoTest /\ test' = [test EXCEPT ![t] = NoTest]
    /\ UNCHANGED <<control, people, gateway, slot, passed, coord>>

\* A faulty variant: the row is that of the model the slot has by now.
TestedSlot(t) == slot

Tested(t) == test[t].of

\* recordModelTest
RecordTest(t) ==
    /\ test[t].by \in Model
    /\ passed' = [passed EXCEPT ![Tested(t)][t] = @ \cup {test[t].by}]
    /\ test' = [test EXCEPT ![t] = NoTest]
    /\ UNCHANGED <<control, people, gateway, slot, coord>>

-----------------------------------------------------------------------------

\* Who asks and decides, and the gateway; the coordinators, who read of a request
\* only what is asked; and the models, which share no state with either.
AskingNext ==
    \/ AgentControlRoute \/ GpuRoute \/ TimePasses
    \/ CreateApproval
    \/ \E a \in Admin : OpenDecision(a) \/ Decide(a) \/ AskApproved(a)
    \/ \E c \in Coordinator : RestartServer(c)
    \/ Report \/ BeatAges \/ Accept \/ CarryOut \/ GatewayDies

TickNext ==
    \/ AgentControlRoute \/ EmergencyRoute \/ TimePasses
    \/ \E c \in Coordinator :
           BeginTick(c) \/ ReadHalt(c) \/ ReadModes(c) \/ EndTick(c) \/ RestartServer(c)

ModelNext ==
    \/ AssignModel \/ AcceptanceIsAnswered
    \/ \E t \in Tester : StartTest(t) \/ RecordTest(t) \/ TestIsLost(t)

AdminNext == AskingNext \/ TickNext \/ ModelNext

AdminSpec == AdminInit /\ [][AdminNext]_adminVars

-----------------------------------------------------------------------------
(* Properties *)

\* An approval is carried out at most once, and only if it was approved, even
\* when several administrators decide on it at the same time.
ApprovedOnce ==
    /\ \A i \in Approval :
           Cardinality({r \in DOMAIN ctl : ctl[r].from = i} \cup
                       {<<a>> : a \in {b \in Admin : admin[b] = [pc |-> "ask", of |-> i]}}) <= 1
    /\ \A r \in DOMAIN ctl : ctl[r].from # Nothing => approval[ctl[r].from] = "approved"

\* A pause that was answered before a coordinator read the modes is obeyed by it
\* as long as no later request for the agent is answered, by whichever of the
\* servers.  A coordinator that had read them before the answer goes on with its
\* tick: the answer is a promise of the one that gave it, which reads after it.
PausedAgentsAreLeftAlone ==
    \A agent \in Agent, c \in Coordinator :
        LET done == {r \in DOMAIN ctl : ctl[r].target = agent /\ ctl[r].status = "completed"}
            newest == OldestFirst(done)[Cardinality(done)]
        IN  done # {} /\ newest \in coord[c].knew /\ ctl[newest].action = "pause"
              => agent \notin Advanced(c)

\* A health check that the gateway recorded for a model was answered by that
\* model, although the slot can be given another one in the meantime.
TestsNameTheirModel == \A m \in Model : passed[m]["gateway"] \subseteq {m}
=============================================================================
