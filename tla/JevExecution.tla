----------------------------- MODULE JevExecution -----------------------------
(***************************************************************************)
(* Running a claimed node against the agent's budget: executeNextNode and  *)
(* executeModelNodeThroughGraph of src/src/jev-executor.js, the model      *)
(* executor, jev-budget.js, and the ledger operations of billing.js and    *)
(* agent-manager.js they call.                                             *)
(*                                                                         *)
(* The executor is a chain of awaits: each action below is one transaction *)
(* of it, or one loadDb() whose answer is used in a later one, and the     *)
(* other workers, the sweep and crashes run in between.  The graph part of *)
(* every action is an action of JevGraph.                                  *)
(*                                                                         *)
(* One agent, so one budget.  Money is a number of minor units; the        *)
(* tenant's hourly limit is a refusal that may come at any time.           *)
(***************************************************************************)
EXTENDS JevGraph

CONSTANTS
    Model,        \* the nodes whose work is a call of a model provider
    Price,        \* Price[n]: node.budgetMinor
    Cost,         \* Cost[n]: what the work may report it cost, NoUsage for null
    BudgetLimit,  \* agent.budgetLimit
    Resolver      \* who settle the records of calls with an unknown outcome

NoUsage == -1

ASSUME ExecutionAssumption ==
    /\ Model \subseteq Node
    /\ Price \in [Node -> Nat]
    /\ Cost \in [Node -> SUBSET (Nat \cup {NoUsage})]
    /\ BudgetLimit \in Nat

VARIABLES
    used,       \* agent.budgetUsed
    reserved,   \* keys of the reservations with status "reserved"
    captured,   \* keys of the reservations with status "captured"
    run,        \* run[w]: where the executor of w is, and what it remembers
    overran,    \* history: the money charged above reservations
    late,       \* history: the holds taken under a claim already lost
    calls,      \* history: the provider calls that may have been served
    records,    \* keys of the reconciliation records that are pending
    settling    \* settling[x]: the record resolver x has read, and what is left to do

execVars == <<used, reserved, captured, run, overran, late, calls, records, settling>>
allVars == <<vars, execVars>>

Step == {"idle", "claimed", "reserved", "calling", "overrun", "charging",
         "unrecorded", "settled"}
Outcome == {"ok", "retryable", "fatal"}
Idle == [step |-> "idle", outcome |-> "ok", over |-> 0]
AtRest == [step |-> "idle", record |-> <<>>]

-----------------------------------------------------------------------------
(* The ledger *)

\* The idempotency key "jev:<node>:attempt:<attempt>" of the claim w works on.
Key(w) == <<work[w].node, work[w].lease>>

\* The money under open reservations, as a set of units.
Units(k) == {k} \X (1..Price[k[1]])
Held == Cardinality(UNION {Units(k) : k \in reserved})

\* A faulty variant: the holds of other nodes are not counted.
AdmitsAlone(n) == used + Price[n] <= BudgetLimit

\* reserveSpend of the price; without a price, only the headroom is looked at.
Admits(n) == IF Price[n] = 0 THEN used < BudgetLimit
             ELSE used + Held + Price[n] <= BudgetLimit

\* captureSpend of the amount c of the hold k: it throws when the hold is not
\* open any more or the money left does not cover the other holds.
Capturable(k, c) ==
    /\ k \in reserved
    /\ used + c + (Held - Price[k[1]]) <= BudgetLimit

\* The settlement's catch block: a capture that throws changes nothing.
Capture(k, c) ==
    IF Capturable(k, c)
    THEN /\ used' = used + c
         /\ captured' = captured \cup {k}
         /\ reserved' = reserved \ {k}
    ELSE UNCHANGED <<used, reserved, captured>>

\* releaseSpend; a hold that is not open is left as it is.
Release(k) == reserved' = reserved \ {k} /\ UNCHANGED <<used, captured>>

\* What a success with the reported cost m takes from the hold of node n.
Charged(n, m) == IF m = NoUsage \/ m > Price[n] THEN Price[n] ELSE m

-----------------------------------------------------------------------------
(* The executor of worker w *)

At(w, step) == run[w].step = step

Goto(w, step, outcome, over) ==
    run' = [run EXCEPT ![w] = [step |-> step, outcome |-> outcome, over |-> over]]

Leave(w) == run' = [run EXCEPT ![w] = Idle]

Claim(w) ==
    /\ ClaimNextNode(w)
    /\ Goto(w, "claimed", "ok", 0)
    /\ UNCHANGED <<used, reserved, captured, overran, late, calls, records, settling>>

\* A price may meet the tenant's hourly limit; a model node may find no registry
\* or no session.
MayBeRefused(n) == ~Admits(n) \/ Price[n] > 0 \/ n \in Model

\* A refusal is not retryable.
Reserve(w) ==
    LET n == work[w].node
    IN  /\ At(w, "claimed")
        /\ \/ /\ Admits(n)
              /\ reserved' = IF Price[n] = 0 THEN reserved ELSE reserved \cup {Key(w)}
              /\ late' = IF LeaseCurrent(w) THEN late ELSE late \cup {Key(w)}
              /\ Goto(w, "reserved", "ok", 0)
           \/ /\ MayBeRefused(n)
              /\ Goto(w, "settled", "fatal", 0)
              /\ UNCHANGED <<reserved, late>>
        /\ UNCHANGED <<vars, used, captured, overran, calls, records, settling>>

\* The runtime of a workspace node returned (a reported cost or none) or threw.
SettleNode(w) ==
    LET n == work[w].node
    IN  /\ At(w, "reserved")
        /\ n \notin Model
        /\ \/ \E m \in Cost[n] : Capture(Key(w), Charged(n, m)) /\ Goto(w, "settled", "ok", 0)
           \/ \E outcome \in {"retryable", "fatal"} :
                 Release(Key(w)) /\ Goto(w, "settled", outcome, 0)
        /\ UNCHANGED <<vars, overran, calls, late, records, settling>>

\* The request is sent; or the session rows around it cannot be written, which
\* fails the node and leaves the hold.
CallProvider(w) ==
    /\ At(w, "reserved")
    /\ work[w].node \in Model
    /\ \/ calls' = calls \cup {Key(w)} /\ Goto(w, "calling", "ok", 0)
       \/ UNCHANGED calls /\ Goto(w, "settled", "fatal", 0)
    /\ UNCHANGED <<vars, used, reserved, captured, overran, late, records, settling>>

\* The answer reported the cost m.  An error while it is stored fails the node.
SettleAnswer(w) ==
    LET n == work[w].node
    IN  /\ At(w, "calling")
        /\ \E m \in Cost[n] :
              /\ Capture(Key(w), Charged(n, m))
              /\ IF m > Price[n] /\ (Price[n] = 0 \/ Capturable(Key(w), Price[n]))
                 THEN Goto(w, "overrun", "ok", m - Price[n])
                 ELSE \E outcome \in {"ok", "fatal"} : Goto(w, "settled", outcome, 0)
        /\ UNCHANGED <<vars, overran, calls, late, records, settling>>

\* An error that is neither flagged as transmitted nor worded as a timeout: the
\* hold is given back.  The provider may have refused the request; or it served
\* it, and an aborted fetch, a truncated or an unreadable answer hides it, since
\* no adapter of src/ sets the flag (isTransmitted).
SettleRefusal(w) ==
    /\ At(w, "calling")
    /\ Release(Key(w))
    /\ calls' \in {calls, calls \ {Key(w)}}
    /\ \E outcome \in {"retryable", "fatal"} : Goto(w, "settled", outcome, 0)
    /\ UNCHANGED <<vars, overran, late, records, settling>>

\* An error known to be transmitted: the whole hold is captured.
SettleUnknown(w) ==
    /\ At(w, "calling")
    /\ Capture(Key(w), Price[work[w].node])
    /\ Goto(w, "unrecorded", "fatal", 0)
    /\ UNCHANGED <<vars, overran, calls, late, records, settling>>

\* recordUnknownModelOutcome; a failure to write it fails the node all the same.
RecordUnknown(w) ==
    /\ At(w, "unrecorded")
    /\ records' \in {records, records \cup {Key(w)}}
    /\ Goto(w, "settled", "fatal", 0)
    /\ UNCHANGED <<vars, used, reserved, captured, overran, late, calls, settling>>

\* checkBudget: how much of the overrun the budget can hold at this moment.
ReadHeadroom(w) ==
    LET headroom == BudgetLimit - used
        affordable == IF run[w].over < headroom THEN run[w].over ELSE headroom
    IN  /\ At(w, "overrun")
        /\ IF affordable > 0 THEN Goto(w, "charging", "ok", affordable)
           ELSE \E outcome \in {"ok", "fatal"} : Goto(w, "settled", outcome, 0)
        /\ UNCHANGED <<vars, used, reserved, captured, overran, calls, late, records, settling>>

\* recordSpend asks the limit again, but not the holds of other nodes.
ChargeOverrun(w) ==
    /\ At(w, "charging")
    /\ \/ /\ used + run[w].over <= BudgetLimit
          /\ used' = used + run[w].over
          /\ overran' = overran + run[w].over
       \/ UNCHANGED <<used, overran>>
    /\ \E outcome \in {"ok", "fatal"} : Goto(w, "settled", outcome, 0)
    /\ UNCHANGED <<vars, reserved, captured, calls, late, records, settling>>

\* A faulty variant: a report under a lost lease is tried again and again.
ReportUnderLease(w) ==
    /\ At(w, "settled")
    /\ \/ run[w].outcome = "ok" /\ CompleteNode(w)
       \/ run[w].outcome # "ok" /\ FailNode(w, run[w].outcome = "retryable")
    /\ work'[w] = NoWork
    /\ Leave(w)
    /\ UNCHANGED <<used, reserved, captured, overran, calls, late, records, settling>>

\* completeNode or failNode under the claim, whatever became of it meanwhile.
Report(w) ==
    /\ At(w, "settled")
    /\ \/ run[w].outcome = "ok" /\ CompleteNode(w)
       \/ run[w].outcome # "ok" /\ FailNode(w, run[w].outcome = "retryable")
       \/ ReportRefused(w)
    /\ work'[w] = NoWork
    /\ Leave(w)
    /\ UNCHANGED <<used, reserved, captured, overran, calls, late, records, settling>>

Crash(w) ==
    /\ WorkerCrash(w)
    /\ Leave(w)
    /\ UNCHANGED <<used, reserved, captured, overran, calls, late, records, settling>>

\* What is awaited between the claim and finish() may throw, except in the
\* provider call and the settlement, which catch.
Throw(w) ==
    /\ run[w].step \in {"claimed", "reserved", "settled"}
    /\ ExecutorThrows(w)
    /\ Leave(w)
    /\ UNCHANGED <<used, reserved, captured, overran, calls, late, records, settling>>

-----------------------------------------------------------------------------
(* The others *)

\* A faulty variant: the holds of every running node are given back.
SweepEveryHold ==
    /\ SweepStalledNodes
    /\ reserved' = {k \in reserved : status[k[1]] # "running"}
    /\ UNCHANGED <<used, captured, run, overran, calls, late, records, settling>>

\* The holds of the swept nodes, of whichever attempt, are given back.
Sweep ==
    /\ SweepStalledNodes
    /\ reserved' = {k \in reserved : k[1] \notin Stalled}
    /\ UNCHANGED <<used, captured, run, overran, calls, late, records, settling>>

\* attemptProviderReconciliation and resolveReconciliation: a record was read as
\* pending, and the provider or a person says whether the call was served.
ReadRecord(x) ==
    /\ settling[x] = AtRest
    /\ \E k \in records, step \in {"reopening", "closing"} :
          settling' = [settling EXCEPT ![x] = [step |-> step, record |-> k]]
    /\ UNCHANGED <<vars, used, reserved, captured, run, overran, late, calls, records>>

\* A call that was not served may be repeated: its node gets another attempt, if
\* it is one that failed and its graph is open.  Nobody looks at the record again.
ReopenUnserved(x) ==
    /\ settling[x].step = "reopening"
    /\ \E n \in Node :
          /\ n = settling[x].record[1]
          /\ \/ ReopenNode(n)
             \/ ~Reopenable(n) /\ UNCHANGED vars
    /\ settling' = [settling EXCEPT ![x].step = "closing"]
    /\ UNCHANGED <<used, reserved, captured, run, overran, late, calls, records>>

\* The record is resolved.  The money stays as it was settled.
CloseRecord(x) ==
    /\ settling[x].step = "closing"
    /\ records' = records \ {settling[x].record}
    /\ settling' = [settling EXCEPT ![x] = AtRest]
    /\ UNCHANGED <<vars, used, reserved, captured, run, overran, late, calls>>

\* A resolver that dies leaves the record pending, with the node reopened or not.
ResolverDies(x) ==
    /\ settling[x] # AtRest
    /\ settling' = [settling EXCEPT ![x] = AtRest]
    /\ UNCHANGED <<vars, used, reserved, captured, run, overran, late, calls, records>>

Reconciles(x) == ReadRecord(x) \/ ReopenUnserved(x) \/ CloseRecord(x) \/ ResolverDies(x)

\* Planning, renewal, the operator and the clock touch no money.
Elsewhere ==
    /\ \/ Planner
       \/ \E w \in Worker : RenewNodeLease(w)
       \/ Operator
       \/ Tick
    /\ UNCHANGED execVars

Executor(w) ==
    \/ Claim(w)
    \/ Reserve(w)
    \/ SettleNode(w)
    \/ CallProvider(w)
    \/ SettleAnswer(w)
    \/ SettleRefusal(w)
    \/ SettleUnknown(w)
    \/ RecordUnknown(w)
    \/ ReadHeadroom(w)
    \/ ChargeOverrun(w)
    \/ Report(w)

ExecInit ==
    /\ Init
    /\ used = 0
    /\ reserved = {}
    /\ captured = {}
    /\ run = [w \in Worker |-> Idle]
    /\ overran = 0
    /\ late = {}
    /\ calls = {}
    /\ records = {}
    /\ settling = [x \in Resolver |-> AtRest]

ExecNext ==
    \/ \E w \in Worker : Executor(w) \/ Crash(w) \/ Throw(w)
    \/ Sweep
    \/ \E x \in Resolver : Reconciles(x)
    \/ Elsewhere

ExecSpec == ExecInit /\ [][ExecNext]_allVars

\* An executor's awaits all settle and its loop goes on; so does the clock, and
\* some worker's loop sweeps.
ExecFairSpec ==
    /\ ExecSpec
    /\ \A w \in Worker : WF_allVars(Executor(w))
    /\ WF_allVars(Sweep)
    /\ WF_allVars(Elsewhere /\ Tick)

-----------------------------------------------------------------------------
(* Properties *)

\* The types of the ledger and of the executors, which hold a claim exactly
\* while they are not idle.
ExecTypeOK ==
    /\ TypeOK
    /\ used \in Nat
    /\ overran \in Nat
    /\ reserved \subseteq Node \X Nat
    /\ captured \subseteq Node \X Nat
    /\ late \subseteq Node \X Nat
    /\ calls \subseteq Model \X Nat
    /\ records \subseteq Node \X Nat
    /\ settling \in [Resolver ->
           {AtRest} \cup [step : {"reopening", "closing"}, record : Node \X Nat]]
    /\ run \in [Worker -> [step : Step, outcome : Outcome, over : Nat]]
    /\ \A w \in Worker : At(w, "idle") <=> work[w] = NoWork

\* The hard limit holds whatever two executors do between reading the headroom
\* and charging it (captureSpend, recordSpend).
SpentWithinLimit == used <= BudgetLimit

\* Spent and held money together fit the budget, except for what was charged
\* above reservations: no two nodes are ever promised the same money
\* (reserveSpend counts the other holds, a capture only lowers the sum).
HoldsFitBudget == used + Held <= BudgetLimit + overran

\* The result of a node with a price is never had for nothing: its hold was
\* captured or is still open, though the sweep gives back the holds of other
\* attempts and other nodes while the executor is between its awaits.
ResultNeverFree ==
    \A p \in accepted : Price[p[1]] > 0 => p \in captured \cup reserved

\* The executor, refusals, overruns and swallowed errors included, is the fair
\* worker loop JevGraph assumes: whatever the money does, a claim is reported.
GraphFairSpec == FairSpec
=============================================================================
