------------------------------ MODULE ModelLoop ------------------------------
(***************************************************************************)
(* The model graph of one task and the loop that grows it:                 *)
(* src/src/jev-model-graph.js, src/src/jev-model-loop.js and               *)
(* src/src/autonomous-loop.js, with the changes a user gets approved       *)
(* (approveChange of src/src/dashboard.js), the permissions it is asked    *)
(* for (src/src/user-actions.js) and the cancellation of the task          *)
(* (src/src/server.js).                                                    *)
(*                                                                         *)
(* The graph grows in cycles.  A node is <<kind, cycle>>, the number in    *)
(* its key; a step of the plan that a cycle executes is its own kind.      *)
(* Leases, attempts and budgets of a node are the business of JevGraph and *)
(* JevExecution: here a running node succeeds, fails, or is put back.  The *)
(* graph status is derived from the nodes, which JevGraph shows of every   *)
(* stored status.                                                          *)
(*                                                                         *)
(* A tick of the loop is several awaits long.  Between them workers settle *)
(* nodes, and the user cancels the task or changes what is asked.  The     *)
(* task's status is written wherever the agent's is, so one variable       *)
(* stands for both.                                                        *)
(***************************************************************************)
EXTENDS Integers, FiniteSets, FiniteSetsExt

CONSTANTS
    MaxRepairCycles,  \* RAZEKIT_MAX_REPAIR_CYCLES
    Change,           \* the changes the user may submit for approval
    Step,             \* the names a plan may give its steps
    Plans,            \* plan[s]: the steps of plan that step s waits for
    Guarded           \* the execution nodes that use a tool not yet permitted

\* In any steps of the plan one waits for none of the others, and none of the
\* others waits for one: assertGraphShape refuses a plan that waits in a circle.
Orderly(plan) ==
    \A T \in SUBSET DOMAIN plan : T # {} =>
        /\ \E s \in T : plan[s] \cap T = {}
        /\ \E s \in T : \A t \in T : s \notin plan[t]

ModelKinds == {"plan", "implement", "review", "verify", "repair", "replan", "rework", "none"}

ASSUME ModelLoopAssumption ==
    /\ MaxRepairCycles \in Nat
    /\ IsFiniteSet(Change)
    /\ Step \cap ModelKinds = {}
    /\ \A plan \in Plans :
          /\ DOMAIN plan \subseteq Step /\ DOMAIN plan # {}
          /\ \A s \in DOMAIN plan : plan[s] \subseteq DOMAIN plan
          /\ Orderly(plan)
    /\ Guarded \subseteq Step \X Nat

\* Every cycle after the first needs a repair below the ceiling or the rework
\* of a change.
LastCycle == Max({MaxRepairCycles, 1}) + Cardinality(Change)
Cycle == 1..LastCycle

Key == {<<"plan", 0>>, <<"implement", 0>>}
    \cup ((Step \cup {"review", "verify"}) \X Cycle)
    \cup ({"repair"} \X (1..MaxRepairCycles))
    \cup ({"replan", "rework"} \X (0..LastCycle))

Plan == <<"plan", 0>>
Implement == <<"implement", 0>>
NoKey == <<"none", 0>>

Producers == {"implement", "repair", "rework"}
Settling  == {k \in Key : k[1] \in {"review", "replan"}}
Expanding == {k \in Key : k[1] \in Producers \cup {"review"}}

\* What a succeeded node leaves for the loop to read.
Results(kind) ==
    CASE kind = "review"    -> {"pass", "revise", "block"}
      [] kind \in Producers -> {"steps", "nothing"}
      [] OTHER              -> {"done"}

VARIABLES
    inline,     \* inlineExecutionEnabled(): the loop runs nodes, or workers do
    nodes,      \* the keys stored so far
    status,     \* node.status
    dependsOn,  \* node.dependsOn
    output,     \* node.output once it succeeded
    evidence,   \* evidence[c]: status of the record carried by model-verify-c
    agent,      \* agent.status and task.status
    tick,       \* the transition of this agent that is in flight
    asked,      \* the execution nodes whose permission is asked for
    change      \* where each change request and its approval are

graph == <<nodes, status, dependsOn, output, evidence>>
vars == <<inline, graph, agent, tick, asked, change>>

\* The rules of jev-domain.js for the dependencies deps.
D(deps) == INSTANCE JevDomain
              WITH Node <- Key, DependsOn <- deps, Settles <- Settling,
                   Expands <- Expanding

-----------------------------------------------------------------------------
(* Reading the graph *)

Succeeded(k) == k \in nodes /\ status[k] = "succeeded"

GraphStatus == D(dependsOn)!DeriveGraphStatus(status, [k \in Key |-> 0], nodes)

Claimable == D(dependsOn)!Claimable(status, nodes)

CyclesOf(kind) == {c \in 0..LastCycle : <<kind, c>> \in nodes}
ExecCycles == {c \in 0..LastCycle : \E s \in Step : <<s, c>> \in nodes}
HighestExec == Max(ExecCycles \cup {0})

\* The node whose plan cycle c executes.
ProducerFor(c) ==
    IF c <= 1 THEN IF Implement \in nodes THEN Implement ELSE NoKey
    ELSE IF <<"repair", c - 1>> \in nodes THEN <<"repair", c - 1>>
    ELSE IF <<"rework", c - 1>> \in nodes THEN <<"rework", c - 1>>
    ELSE NoKey

Do(what, c) == [do |-> what, cycle |-> c]
None == Do("none", 0)

AfterRevise(c) ==
    IF <<"repair", c>> \in nodes THEN None
    ELSE IF c >= MaxRepairCycles THEN Do("repair-limit", c)
    ELSE Do("expand-repair", c)

AfterPass(c) ==
    IF <<"verify", c>> \notin nodes THEN Do("expand-verify", c)
    ELSE IF status[<<"verify", c>>] = "succeeded" THEN Do("verified", c)
    ELSE None

\* A faulty variant: a cycle beyond the ceiling is nobody's to decide.
DecidedReviewsBelowCeiling ==
    {c \in CyclesOf("review") : Succeeded(<<"review", c>>) /\ c < MaxRepairCycles}

DecidedReviews == {c \in CyclesOf("review") : Succeeded(<<"review", c>>)}

\* What the graph should become: a finished plan is executed first, otherwise
\* the newest review that succeeded decides.
NextModelGraphAction ==
    LET next == HighestExec + 1
    IN  IF Succeeded(ProducerFor(next)) THEN Do("expand-execution", next)
        ELSE IF DecidedReviews = {} THEN None
        ELSE LET c == Max(DecidedReviews)
                 decision == output[<<"review", c>>]
             IN  CASE decision = "revise" -> AfterRevise(c)
                   [] decision = "pass"   -> AfterPass(c)
                   [] decision = "block"  -> Do("block", c)

-----------------------------------------------------------------------------
(* Growing the graph *)

CanExpand(new) ==
    /\ GraphStatus \notin {"failed", "cancelled"}
    /\ DOMAIN new \cap nodes = {}

\* createTaskGraph and expandGraph; new maps the keys of the added nodes to
\* what they depend on.
Append(new) ==
    LET N == nodes \cup DOMAIN new
        deps == [k \in Key |-> IF k \in DOMAIN new THEN new[k] ELSE dependsOn[k]]
        st == [k \in Key |-> IF k \in DOMAIN new THEN "pending" ELSE status[k]]
    IN  /\ nodes' = N
        /\ dependsOn' = deps
        /\ status' = D(deps)!Readiness(st, N)
        /\ UNCHANGED output

\* The statuses st with what readiness makes of them.
Readied(st) == D(dependsOn)!Readiness(st, nodes)

One(k, deps) == [x \in {k} |-> deps]

\* expandWithRepair, behind the verdict or the evidence that asked for it, and
\* expandWithVerify.
RepairNode(c, after) == One(<<"repair", c>>, {after})
VerifyNode(c) == One(<<"verify", c>>, {<<"review", c>>})

\* What step s of the plan of cycle c depends on.
StepNodes(c, S) == {<<s, c>> : s \in S}
BehindSteps(c, plan, s) ==
    IF plan[s] = {} THEN {ProducerFor(c)} ELSE StepNodes(c, plan[s])

\* The steps no other step waits for.
LastSteps(plan) == {s \in DOMAIN plan : \A t \in DOMAIN plan : s \notin plan[t]}

\* A faulty variant: the review is a sibling of the work it judges.
ExecutionNodesAtOnce(c, plan) ==
    [k \in StepNodes(c, DOMAIN plan) \cup {<<"review", c>>} |->
        IF k[1] = "review" THEN {ProducerFor(c)} ELSE BehindSteps(c, plan, k[1])]

\* The steps of a plan behind its producer, and their review behind the last.
ExecutionNodes(c, plan) ==
    [k \in StepNodes(c, DOMAIN plan) \cup {<<"review", c>>} |->
        IF k[1] = "review" THEN StepNodes(c, LastSteps(plan))
        ELSE BehindSteps(c, plan, k[1])]

\* What a replan appends behind the whole frontier; empty when an earlier one
\* has not been implemented yet or the cycle has one already.
ReplanNodes ==
    LET next == HighestExec + 1
        index == IF ProducerFor(next) # NoKey THEN next ELSE next - 1
        frontier == {k \in nodes : \A m \in nodes : k \notin dependsOn[m]}
        replan == <<"replan", index>>
        rework == <<"rework", index>>
    IN  IF \/ \E c \in CyclesOf("rework") : ~Succeeded(<<"rework", c>>)
           \/ {replan, rework} \cap nodes # {}
        THEN <<>>
        ELSE [k \in {replan, rework} |-> IF k = replan THEN frontier ELSE {replan}]

-----------------------------------------------------------------------------
Idle == [pc |-> "idle", act |-> None, failed |-> FALSE, node |-> NoKey]
ToBlock == [Idle EXCEPT !.pc = "block"]

Init ==
    /\ inline \in BOOLEAN
    /\ nodes = {}
    /\ status = [k \in Key |-> "pending"]
    /\ dependsOn = [k \in Key |-> {}]
    /\ output = [k \in Key |-> "none"]
    /\ evidence = [c \in Cycle |-> "none"]
    /\ agent = "running"
    /\ tick = Idle
    /\ asked = {}
    /\ change = [x \in Change |-> [state |-> "none", new |-> <<>>]]

(***************************************************************************)
(* advanceAgent.  One tick is in flight at a time in one process (the      *)
(* inFlight set).  It acts on a running agent only, and only while the     *)
(* budget is not used up; the status it read then is not read again.       *)
(***************************************************************************)
StartTick ==
    /\ tick.pc = "idle"
    /\ agent = "running"
    /\ \E allowed \in BOOLEAN :
           tick' = IF allowed THEN [Idle EXCEPT !.pc = "view"] ELSE ToBlock
    /\ UNCHANGED <<inline, graph, agent, asked, change>>

\* createModelGraphForAgent
CreateModelGraph ==
    /\ tick.pc = "view"
    /\ nodes = {}
    /\ Append([k \in {Plan, Implement} |-> IF k = Plan THEN {} ELSE {Plan}])
    /\ tick' = Idle
    /\ UNCHANGED <<inline, evidence, agent, asked, change>>

\* advanceModelGraph reads the graph.  Inline it claims a node itself; where
\* workers run the nodes it steps back while they have any.
ViewGraph ==
    /\ tick.pc = "view"
    /\ nodes # {}
    /\ IF inline /\ Claimable # {}
       THEN \E k \in Claimable :
                /\ status' = [status EXCEPT ![k] = "running"]
                /\ tick' = [tick EXCEPT !.pc = "run", !.node = k]
       ELSE /\ tick' = IF ~inline /\ \E k \in nodes : status[k] \in {"ready", "running"}
                       THEN Idle
                       ELSE [tick EXCEPT !.pc = "decide", !.failed = GraphStatus = "failed"]
            /\ UNCHANGED status
    /\ UNCHANGED <<inline, nodes, dependsOn, output, evidence, agent, asked, change>>

\* completeNode, failNode or a retry of a running node, with what readiness
\* makes of it.  An execution may fail at a tool it has no permission for, and
\* then the agent waits for the answer whatever its status was.
Settle(k) ==
    /\ status[k] = "running"
    /\ \/ \E r \in Results(k[1]) :
              /\ output' = [output EXCEPT ![k] = r]
              /\ status' = Readied([status EXCEPT ![k] = "succeeded"])
              /\ UNCHANGED <<agent, asked>>
       \/ /\ status' = Readied([status EXCEPT ![k] = "failed"])
          /\ UNCHANGED <<output, agent, asked>>
       \/ /\ k \in Guarded
          /\ status' = Readied([status EXCEPT ![k] = "failed"])
          /\ agent' = "waiting_user"
          /\ asked' = asked \cup {k}
          /\ UNCHANGED output
       \/ /\ status' = [status EXCEPT ![k] = "ready"]
          /\ UNCHANGED <<output, agent, asked>>
    /\ UNCHANGED <<nodes, dependsOn, evidence>>

\* executeNextNode and settleNodeResult: a refused budget and an unknown
\* outcome fail the node and stop the task, an overrun keeps the result and
\* stops the task; any other result is an ordinary node.
RunNodeInline ==
    /\ tick.pc = "run"
    /\ Settle(tick.node)
    /\ \E stops \in BOOLEAN :
           /\ stops => status'[tick.node] \in {"succeeded", "failed"}
           /\ tick' = IF stops THEN ToBlock ELSE Idle
    /\ UNCHANGED <<inline, change>>

\* nextModelGraphAction, on a second read of the graph.  With nothing to do,
\* a graph that had failed when it was first read is reported.
Decide ==
    /\ tick.pc = "decide"
    /\ LET act == NextModelGraphAction
       IN  tick' = CASE act.do = "none" -> IF tick.failed THEN ToBlock ELSE Idle
                     [] act.do \in {"repair-limit", "block"} -> ToBlock
                     [] OTHER -> [tick EXCEPT !.pc = "act", !.act = act]
    /\ UNCHANGED <<inline, graph, agent, asked, change>>

Unexpanded == UNCHANGED <<nodes, status, dependsOn, output>>

\* An expansion the graph refuses throws, which advanceAgent turns into a stop.
Expand(new) ==
    IF CanExpand(new) THEN Append(new) /\ tick' = Idle
    ELSE Unexpanded /\ tick' = ToBlock

Acting(what) == tick.pc = "act" /\ tick.act.do = what

ExpandExecution ==
    /\ Acting("expand-execution")
    /\ LET c == tick.act.cycle
       IN  IF output[ProducerFor(c)] = "nothing"
           THEN Unexpanded /\ tick' = ToBlock
           ELSE \E plan \in Plans : Expand(ExecutionNodes(c, plan))
    /\ UNCHANGED <<inline, evidence, agent, asked, change>>

ExpandRepair ==
    /\ Acting("expand-repair")
    /\ LET c == tick.act.cycle IN Expand(RepairNode(c, <<"review", c>>))
    /\ UNCHANGED <<inline, evidence, agent, asked, change>>

\* The objective verifier runs first; its record travels with the new node.
ExpandVerify ==
    /\ Acting("expand-verify")
    /\ LET c == tick.act.cycle
       IN  /\ Expand(VerifyNode(c))
           /\ \E e \in {"passed", "failed"} :
                  evidence' = IF <<"verify", c>> \in nodes' \ nodes
                              THEN [evidence EXCEPT ![c] = e] ELSE evidence
    /\ UNCHANGED <<inline, agent, asked, change>>

\* A faulty variant: the model has interpreted the evidence, that is enough.
EvidenceInterpreted(c) == evidence[c] # "none"

EvidencePassed(c) == evidence[c] = "passed"

\* settleVerification: the evidence decides, not its interpretation.
SettleVerification ==
    /\ Acting("verified")
    /\ LET c == tick.act.cycle
       IN  IF EvidencePassed(c)
           THEN Unexpanded /\ tick' = [tick EXCEPT !.pc = "complete"]
           ELSE IF <<"repair", c>> \in nodes \/ c >= MaxRepairCycles
           THEN Unexpanded /\ tick' = ToBlock
           ELSE Expand(RepairNode(c, <<"verify", c>>))
    /\ UNCHANGED <<inline, evidence, agent, asked, change>>

\* blockForUser writes over whatever status the agent has by now.
BlockForUser ==
    /\ tick.pc = "block"
    /\ agent' = "waiting_user"
    /\ tick' = Idle
    /\ UNCHANGED <<inline, graph, asked, change>>

\* completeAgent verifies once more; a failure throws and changes nothing.
CompleteAgent ==
    /\ tick.pc = "complete"
    /\ agent' \in {agent, "completed"}
    /\ tick' = Idle
    /\ UNCHANGED <<inline, graph, asked, change>>

Tick ==
    \/ StartTick \/ CreateModelGraph \/ ViewGraph \/ RunNodeInline \/ Decide
    \/ ExpandExecution \/ ExpandRepair \/ ExpandVerify \/ SettleVerification
    \/ BlockForUser \/ CompleteAgent

-----------------------------------------------------------------------------
(* Workers.  They look at the graph, never at the agent. *)

WorkerClaim ==
    /\ ~inline
    /\ \E k \in Claimable : status' = [status EXCEPT ![k] = "running"]
    /\ UNCHANGED <<inline, nodes, dependsOn, output, evidence, agent, tick, asked, change>>

WorkerSettle ==
    /\ ~inline
    /\ \E k \in nodes : Settle(k)
    /\ UNCHANGED <<inline, tick, change>>

-----------------------------------------------------------------------------
(* The user *)

\* The cancel route calls cancelAgent and leaves the graph as it is.
CancelTask ==
    /\ agent # "cancelled"
    /\ agent' = "cancelled"
    /\ UNCHANGED <<inline, graph, tick, asked, change>>

At(x, s) == change[x].state = s
Move(x, s) == change' = [change EXCEPT ![x] = [state |-> s, new |-> <<>>]]

\* submitUserCommand checks the status on a snapshot ...
SubmitChange(x) ==
    /\ At(x, "none")
    /\ agent \notin {"completed", "cancelled"}
    /\ Move(x, "submitting")
    /\ UNCHANGED <<inline, graph, agent, tick, asked>>

\* ... and stops the agent for the decision in a transaction of its own.
StoreChange(x) ==
    /\ At(x, "submitting")
    /\ Move(x, "pending")
    /\ agent' = "waiting_user"
    /\ UNCHANGED <<inline, graph, tick, asked>>

\* applyDecisionState once x is decided.
DecisionState(x) ==
    agent' = IF \E y \in Change \ {x} : At(y, "pending") THEN "waiting_user"
             ELSE IF agent = "waiting_user" THEN "running" ELSE agent

DecideChange(x) ==
    /\ At(x, "pending")
    /\ \E answer \in {"denied", "approved"} : Move(x, answer)
    /\ DecisionState(x)
    /\ UNCHANGED <<inline, graph, tick, asked>>

\* replanRunningGraph reads the graph, ...
ReadForReplan(x) ==
    /\ At(x, "approved")
    /\ IF nodes = {} \/ GraphStatus = "cancelled" \/ ReplanNodes = <<>>
       THEN Move(x, "done")
       ELSE change' = [change EXCEPT ![x] = [state |-> "replan", new |-> ReplanNodes]]
    /\ UNCHANGED <<inline, graph, agent, tick, asked>>

\* ... appends what it computed from that reading (approveChange swallows a
\* refusal), ...
AppendReplan(x) ==
    /\ At(x, "replan")
    /\ IF CanExpand(change[x].new)
       THEN Append(change[x].new) /\ Move(x, "replanned")
       ELSE Unexpanded /\ Move(x, "done")
    /\ UNCHANGED <<inline, evidence, agent, tick, asked>>

\* ... and puts the agent back to work, a completed one included.
ResumeAfterReplan(x) ==
    /\ At(x, "replanned")
    /\ Move(x, "done")
    /\ agent' = IF agent \in {"waiting_user", "completed"} THEN "running" ELSE agent
    /\ UNCHANGED <<inline, graph, tick, asked>>

\* What waits again once the failed node k is reopened: k, and nodes that were
\* skipped because of it.  A node notes one of the dependencies that doomed it;
\* which of several is left open here.
Reopened(k) ==
    IF status[k] # "failed" THEN {status}
    ELSE LET casualties == {m \in nodes : status[m] = "skipped"
                                          /\ k \in D(dependsOn)!Causes(status, m)}
         IN  {Readied([m \in Key |-> IF m \in revived \cup {k} THEN "pending" ELSE status[m]]) :
                 revived \in SUBSET casualties}

\* resolvePermissionAction: an approval reopens the node that stopped there;
\* either answer puts the agent back to work once nothing else is asked.
AnswerPermission(k) ==
    /\ k \in asked
    /\ asked' = asked \ {k}
    /\ agent' = IF agent = "waiting_user" /\ asked' = {} THEN "running" ELSE agent
    /\ status' \in {status} \cup Reopened(k)
    /\ UNCHANGED <<inline, nodes, dependsOn, output, evidence, tick, change>>

User ==
    \/ CancelTask
    \/ \E x \in Change :
           \/ SubmitChange(x) \/ StoreChange(x) \/ DecideChange(x)
           \/ ReadForReplan(x) \/ AppendReplan(x) \/ ResumeAfterReplan(x)
    \/ \E k \in asked : AnswerPermission(k)

Next == Tick \/ WorkerClaim \/ WorkerSettle \/ User

Spec == Init /\ [][Next]_vars

-----------------------------------------------------------------------------
(* Properties *)

\* A cycle's review starts when every step of the cycle has run and whatever
\* the steps waited for was finished: no expansion, replan, skipped step or
\* reopened node in between lets it judge an intention.
ReviewSeesFinishedWork ==
    [][\A c \in CyclesOf("review") :
          /\ status[<<"review", c>>] = "ready"
          /\ status'[<<"review", c>>] = "running"
          => \A s \in Step : <<s, c>> \in nodes =>
                /\ status[<<s, c>>] \in {"succeeded", "failed"}
                /\ \A k \in dependsOn[<<s, c>>] : Succeeded(k)]_vars

\* The loop completes a task only on a passing review whose verification node
\* carries a passing objective record, and no later review has given a verdict
\* by then, whatever workers, replans and permissions did since the tick read
\* the graph.  A later cycle whose review failed or was skipped has given none,
\* and does not keep the task from completing.
CompletedOnEvidence ==
    [][agent # "completed" /\ agent' = "completed" =>
          \E c \in CyclesOf("verify") :
              /\ output[<<"review", c>>] = "pass"
              /\ Succeeded(<<"verify", c>>)
              /\ evidence[c] = "passed"
              /\ \A d \in CyclesOf("review") : d > c => ~Succeeded(<<"review", d>>)]_vars

Quiescent ==
    /\ agent = "running" /\ tick.pc = "idle"
    /\ nodes # {} /\ \A k \in nodes : status[k] \notin {"ready", "running"}
    /\ \A x \in Change : change[x].state \in {"none", "denied", "done"}

NextTickActs == NextModelGraphAction # None \/ GraphStatus = "failed"

\* A running task that nobody replanned is never left idling without a
\* claimable node: whatever failed, passed or was refused, the next tick grows
\* the graph, completes or reports a failure.
NeverSilentlyIdle == Quiescent /\ CyclesOf("replan") = {} => NextTickActs
=============================================================================
