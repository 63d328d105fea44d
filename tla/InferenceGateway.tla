-------------------------- MODULE InferenceGateway --------------------------
(***************************************************************************)
(* The shared inference gateway (src/src/inference-gateway.js): the durable *)
(* queue of src/src/ops-state.js, the one process that drains it, and the  *)
(* GPU instance it starts and stops within a budget.                       *)
(*                                                                         *)
(* A step is a transaction or a call of AWS or of the model server.  A     *)
(* tick that fails, or a process that dies, leaves everything where it is; *)
(* the next tick starts afresh.  A request older than twenty minutes may   *)
(* be found so, or not, by any tick; a dispatch itself cannot get that old *)
(* (the model server is given ten minutes, the watchdog fifteen).          *)
(***************************************************************************)
EXTENDS Integers, Sequences, FiniteSets

CONSTANTS
    Model,         \* the models of the two slots
    TokenBudget,   \* a day's tokens of the requester
    MaxTokens,     \* what one answer may use, in the same unit
    HourLimit,     \* hours the monthly budget buys
    MaxDispatches, \* three in the code
    MaxRequests,   \* bound: requests filed
    MaxFailures    \* bound: ticks that fail half-way

ASSUME GatewayAssumption ==
    /\ {TokenBudget, MaxTokens, MaxDispatches} \subseteq Nat \ {0}
    /\ {HourLimit, MaxRequests, MaxFailures} \subseteq Nat

VARIABLES
    inf,        \* the queue, in the order of asking
    gw,         \* the memory of a tick
    loaded,     \* the models the server holds
    gpu,        \* the instance itself
    seen,       \* the stored observation: state, and hours measured
    used,       \* tokens recorded today
    emergency,
    failures

gatewayVars == <<inf, gw, loaded, gpu, seen, used, emergency, failures>>
queue == <<inf, used>>
machine == <<loaded, gpu, seen>>

Idle == [pc |-> "tick", stopped |-> FALSE, reachable |-> FALSE,
         waiting |-> FALSE, busy |-> FALSE, req |-> 0]

GatewayInit ==
    /\ inf = <<>>
    /\ gw = Idle
    /\ loaded = {} /\ gpu \in {"stopped", "running"}
    /\ seen = [gpu |-> "stopped", hours |-> 0]
    /\ used = 0 /\ emergency = FALSE /\ failures = 0

-----------------------------------------------------------------------------
(* The queue *)

WithStatus(s) == {r \in DOMAIN inf : inf[r].status = s}
First(S) == CHOOSE r \in S : \A s \in S : r <= s

EnqueueInference(m) ==
    /\ Len(inf) < MaxRequests
    /\ inf' = Append(inf, [model |-> m, status |-> "queued", attempts |-> 0])
    /\ UNCHANGED <<gw, machine, used, emergency, failures>>

-----------------------------------------------------------------------------
(* A tick *)

TickAt(pc) == gw.pc = pc

BeginTick ==
    /\ TickAt("tick")
    /\ gw' = [Idle EXCEPT !.pc = "controls", !.stopped = emergency]
    /\ UNCHANGED <<queue, machine, emergency, failures>>

\* budgetAllowsGpu: an hour must remain.
Allowed == seen.hours + 1 <= HourLimit

\* What AWS makes of a stop; it may also refuse.
Stopped == gpu' = "stopped" /\ loaded' = {}
Unmoved == UNCHANGED <<gpu, loaded>>

\* The administrator asked for a start, for a stop, or for nothing; AWS may
\* refuse.
HandleControls ==
    /\ TickAt("controls")
    /\ \/ Allowed /\ gpu' = "running" /\ UNCHANGED loaded
       \/ Stopped
       \/ Unmoved
    /\ gw' = [gw EXCEPT !.pc = "refresh"]
    /\ UNCHANGED <<queue, seen, emergency, failures>>

RefreshOllama ==
    /\ TickAt("refresh")
    /\ \E up \in BOOLEAN :
           /\ up => gpu = "running"
           /\ gw' = [gw EXCEPT !.pc = "observe", !.reachable = up]
    /\ UNCHANGED <<queue, machine, emergency, failures>>

\* Time counts when two observations in a row find the instance running, and
\* at most ten minutes of it.  Hours past the limit are all alike.
Measured(h) ==
    IF seen.gpu = "running" /\ gpu = "running" THEN {h, IF h < HourLimit THEN h + 1 ELSE h} ELSE {h}

ObserveGpu ==
    /\ TickAt("observe")
    /\ \E h \in Measured(seen.hours) : seen' = [gpu |-> gpu, hours |-> h]
    /\ gw' = [gw EXCEPT !.pc = "requeue"]
    /\ UNCHANGED <<queue, loaded, gpu, emergency, failures>>

\* Not yet a minute since the last observation, or AWS does not tell.
NotObserved ==
    /\ TickAt("observe")
    /\ gw' = [gw EXCEPT !.pc = "requeue"]
    /\ UNCHANGED <<queue, machine, emergency, failures>>

\* A faulty variant: what was dispatched often enough is left alone.
RequeuedOrLeft(r) == IF r.attempts >= MaxDispatches THEN r ELSE [r EXCEPT !.status = "queued"]

Requeued(r) ==
    [r EXCEPT !.status = IF r.attempts >= MaxDispatches THEN "failed" ELSE "queued"]

\* requeueStuckInference, of those that are old enough.
RequeueStuck(old) ==
    /\ TickAt("requeue")
    /\ inf' = [r \in DOMAIN inf |-> IF r \in old THEN Requeued(inf[r]) ELSE inf[r]]
    /\ gw' = [gw EXCEPT !.pc = "limit"]
    /\ UNCHANGED <<used, machine, emergency, failures>>

OverLimit == seen.gpu = "running" /\ ~Allowed

EnforceLimit ==
    /\ TickAt("limit")
    /\ \/ OverLimit /\ Stopped
       \/ ~OverLimit /\ Unmoved
    /\ gw' = [gw EXCEPT !.pc = "depth"]
    /\ UNCHANGED <<queue, seen, emergency, failures>>

\* The stop is refused; the next tick tries again.
LimitNotEnforced ==
    /\ TickAt("limit") /\ OverLimit
    /\ gw' = [gw EXCEPT !.pc = "depth"]
    /\ UNCHANGED <<queue, machine, emergency, failures>>

\* The depth of the queue is read once and decides the rest of the tick.
QueueDepth ==
    /\ TickAt("depth")
    /\ LET waiting == WithStatus("queued") # {}
           works == ~gw.stopped /\ waiting
       IN  gw' = [gw EXCEPT !.waiting = waiting, !.busy = WithStatus("dispatched") # {},
                     !.pc = IF works /\ gw.reachable THEN "claim"
                            ELSE IF works /\ seen.gpu = "stopped" THEN "start"
                            ELSE "idle"]
    /\ UNCHANGED <<queue, machine, emergency, failures>>

\* Automatic start; startGpu asks the budget again, AWS may refuse.
StartGpu ==
    /\ TickAt("start")
    /\ \/ Allowed /\ gpu' = "running"
       \/ UNCHANGED gpu
    /\ gw' = [gw EXCEPT !.pc = "idle"]
    /\ UNCHANGED <<queue, loaded, seen, emergency, failures>>

\* Stopped for idleness, on the depth that was read before.
StopWhenIdle ==
    /\ TickAt("idle")
    /\ \/ seen.gpu = "running" /\ ~gw.waiting /\ ~gw.busy /\ Stopped
       \/ Unmoved
    /\ gw' = Idle
    /\ UNCHANGED <<queue, seen, emergency, failures>>

-----------------------------------------------------------------------------
(* The dispatch of one request *)

\* claimInference
ClaimInference ==
    /\ TickAt("claim")
    /\ LET r == First(WithStatus("queued"))
       IN  /\ inf' = [inf EXCEPT ![r].status = "dispatched", ![r].attempts = @ + 1]
           /\ gw' = [gw EXCEPT !.pc = "budget", !.req = r]
    /\ UNCHANGED <<used, machine, emergency, failures>>

\* finishInference asks neither for the status nor for who dispatched it.
Finish(status) ==
    /\ inf' = [inf EXCEPT ![gw.req].status = status]
    /\ gw' = [gw EXCEPT !.pc = "idle", !.req = 0]

Spent == used >= TokenBudget

CheckTokens ==
    /\ TickAt("budget")
    /\ IF Spent THEN Finish("failed")
       ELSE gw' = [gw EXCEPT !.pc = "evict"] /\ UNCHANGED inf
    /\ UNCHANGED <<used, machine, emergency, failures>>

\* A faulty variant: a model is left in peace.
ForeignNone == {}

Foreign == loaded \ {inf[gw.req].model}

Evict ==
    /\ TickAt("evict") /\ gpu = "running"
    /\ \/ /\ \E m \in Foreign : loaded' = loaded \ {m}
          /\ UNCHANGED gw
       \/ /\ Foreign = {}
          /\ gw' = [gw EXCEPT !.pc = "chat"]
          /\ UNCHANGED loaded
    /\ UNCHANGED <<queue, gpu, seen, emergency, failures>>

\* The server loads the model and answers.
Chat ==
    /\ TickAt("chat") /\ gpu = "running"
    /\ loaded' = loaded \cup {inf[gw.req].model}
    /\ gw' = [gw EXCEPT !.pc = "answer"]
    /\ UNCHANGED <<queue, gpu, seen, emergency, failures>>

FinishInference ==
    /\ TickAt("answer")
    /\ Finish("completed")
    /\ \E tokens \in 1..MaxTokens : used' = used + tokens
    /\ UNCHANGED <<machine, emergency, failures>>

\* Any error of the server, and a server that is gone, fail the request.
ServerFails ==
    /\ gw.pc \in {"evict", "chat"}
    /\ Finish("failed")
    /\ UNCHANGED <<used, machine, emergency, failures>>

\* The store throws, or the process is killed.
TickFails ==
    /\ ~TickAt("tick") /\ failures < MaxFailures
    /\ gw' = Idle
    /\ failures' = failures + 1
    /\ UNCHANGED <<queue, machine, emergency>>

-----------------------------------------------------------------------------
(* Others *)

EmergencyStop(engaged) ==
    /\ emergency' = engaged
    /\ UNCHANGED <<queue, gw, machine, failures>>

\* Somebody starts or stops the instance elsewhere.
MoveGpu ==
    /\ gpu' = IF gpu = "running" THEN "stopped" ELSE "running"
    /\ loaded' = {}
    /\ UNCHANGED <<queue, gw, seen, emergency, failures>>

\* The day ends; no more than one dispatch is under way.
NewDay ==
    /\ used > 0
    /\ used' = 0
    /\ UNCHANGED <<inf, gw, machine, emergency, failures>>

Sequential ==
    \/ BeginTick \/ HandleControls \/ RefreshOllama \/ ObserveGpu \/ NotObserved
    \/ (\E old \in SUBSET WithStatus("dispatched") : RequeueStuck(old))
    \/ EnforceLimit \/ LimitNotEnforced \/ QueueDepth \/ StartGpu \/ StopWhenIdle
    \/ ClaimInference \/ CheckTokens \/ Evict \/ Chat \/ FinishInference \/ ServerFails

GatewayNext ==
    \/ Sequential \/ TickFails \/ MoveGpu \/ NewDay
    \/ \E m \in Model : EnqueueInference(m)
    \/ \E e \in BOOLEAN : EmergencyStop(e)

GatewaySpec == GatewayInit /\ [][GatewayNext]_gatewayVars

\* The loop goes round; AWS does not refuse or hide for ever; a request that
\* stays dispatched is old in the end.
GatewayFairSpec ==
    /\ GatewaySpec
    /\ WF_gatewayVars(Sequential)
    /\ SF_gatewayVars(ObserveGpu) /\ SF_gatewayVars(EnforceLimit)
    /\ SF_gatewayVars(WithStatus("dispatched") # {} /\ RequeueStuck(WithStatus("dispatched")))

-----------------------------------------------------------------------------
(* Properties *)

\* One model at a time: whatever dispatch died half-way, and whoever stopped
\* and started the instance, the GPU never holds two (inference-gateway.js:31-34).
OneModelLoaded == Cardinality(loaded) <= 1

\* A request that was dispatched comes back, answered or not, also from a
\* gateway that died with it.
DispatchedComesBack ==
    \A r \in 1..MaxRequests :
        r \in WithStatus("dispatched") ~> r \notin WithStatus("dispatched")
=============================================================================
