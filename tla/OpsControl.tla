----------------------------- MODULE OpsControl -----------------------------
(***************************************************************************)
(* One of the two 24/7 systems: its task queue, the control requests the   *)
(* administrator files, the emergency stop and the supervisor processes    *)
(* that obey them (src/src/ops-state.js, ops-supervisor.js and the routes  *)
(* of admin-ops-api.js).                                                   *)
(*                                                                         *)
(* A supervisor is two activities over one memory: its loop, which renews  *)
(* the process lease, applies controls, reads the emergency stop and       *)
(* claims, and the run of the task it claimed, with a timer that renews    *)
(* the task's lease.  Every transaction is a step, and so is the code      *)
(* between two awaits.  A time has come or has not: a parked task, a       *)
(* retry, a request and the lease of a task may be found due or expired,   *)
(* or not, by whoever looks.  The two statuses of a parked task are one    *)
(* here, and so are the three reasons for an abort that send a task back   *)
(* to the queue: a pause, the emergency stop and a shutdown.               *)
(***************************************************************************)
EXTENDS Integers, Sequences, FiniteSets

CONSTANTS
    Proc,         \* the processes started for the system
    NoProc,       \* null
    Task, NoTask,
    MaxAttempts,  \* task.maxAttempts
    MaxRequests   \* bound: control requests filed

ASSUME OpsAssumption ==
    /\ NoProc \notin Proc
    /\ NoTask \notin Task
    /\ MaxAttempts \in Nat \ {0}
    /\ MaxRequests \in Nat

Terminal == {"completed", "failed", "dead_letter", "cancelled"}
Claimable == {"queued", "waiting"}
Held == {"leased", "running"}

VARIABLES
    system,     \* the stored mode and process lease of the system
    emergency,  \* the emergency stop is engaged
    task,       \* status, attempts, leaseOwner
    req,        \* the control requests, in the order they were filed
    proc        \* the memory of the processes

vars == <<system, emergency, task, req, proc>>

Off == [pc |-> "off", mode |-> "running", inbox |-> <<>>, run |-> "none", task |-> NoTask,
        abort |-> "none", outcome |-> "none", pending |-> {}]

Init ==
    /\ system = [mode |-> "running", owner |-> NoProc, expired |-> FALSE]
    /\ emergency = FALSE
    /\ task = [t \in Task |-> [status |-> "absent", attempts |-> 0, owner |-> NoProc]]
    /\ req = <<>>
    /\ proc = [p \in Proc |-> Off]

-----------------------------------------------------------------------------
(* The administrator *)

EnqueueTask(t) ==
    /\ task[t].status = "absent"
    /\ task' = [task EXCEPT ![t].status = "queued"]
    /\ UNCHANGED <<system, emergency, req, proc>>

CreateControlRequest(action, t) ==
    /\ Len(req) < MaxRequests
    /\ req' = Append(req, [action |-> action, task |-> t, status |-> "requested"])
    /\ UNCHANGED <<system, emergency, task, proc>>

EmergencyStop(engaged) ==
    /\ emergency' = engaged
    /\ UNCHANGED <<system, task, req, proc>>

\* cancelTask
Cancelled(r) ==
    IF r.status \in Terminal THEN r
    ELSE [r EXCEPT !.status = "cancelled", !.owner = NoProc]

\* The route refuses a task that runs, but on a snapshot, which may be as old
\* as the task by the time it cancels.
CancelRoute(t) ==
    /\ task[t].status # "absent"
    /\ task' = [task EXCEPT ![t] = Cancelled(@)]
    /\ UNCHANGED <<system, emergency, req, proc>>

-----------------------------------------------------------------------------
(* A process: its life *)

\* boot: the mode is read once.
Boot(p) ==
    /\ proc[p].pc = "off"
    /\ proc' = [proc EXCEPT ![p].pc = "loop", ![p].mode = system.mode]
    /\ UNCHANGED <<system, emergency, task, req>>

\* abortCurrent: the first reason counts, and none that comes after the end.
Aborted(m, why) ==
    IF m.run \in {"marking", "working", "complete"} /\ m.abort = "none"
    THEN [m EXCEPT !.abort = why] ELSE m

\* shutdown: the run is told, and waited for, but not for ever.
Shutdown(p) ==
    /\ proc[p].pc = "loop"
    /\ proc' = [proc EXCEPT ![p] = [Aborted(@, "interrupt") EXCEPT !.pc = "stopping"]]
    /\ UNCHANGED <<system, emergency, task, req>>

Exit(p) ==
    /\ proc[p].pc = "stopping"
    /\ proc' = [proc EXCEPT ![p] = Off]
    /\ system' = IF system.owner = p THEN [system EXCEPT !.owner = NoProc, !.expired = FALSE]
                 ELSE system
    /\ UNCHANGED <<emergency, task, req>>

\* Killed, by the system or by its own watchdog.
Crash(p) ==
    /\ proc[p].pc # "off"
    /\ proc' = [proc EXCEPT ![p] = Off]
    /\ UNCHANGED <<system, emergency, task, req>>

-----------------------------------------------------------------------------
(* A process: its loop *)

\* acquireProcessLease
LeaseIsFree(p) == system.owner \in {NoProc, p} \/ system.expired

\* ensureLease: a standby does nothing else in its tick.
EnsureLease(p) ==
    /\ proc[p].pc = "loop"
    /\ LeaseIsFree(p)
    /\ system' = [system EXCEPT !.owner = p, !.expired = FALSE]
    /\ proc' = [proc EXCEPT ![p].pc = "controls"]
    /\ UNCHANGED <<emergency, task, req>>

Requested == {r \in DOMAIN req : req[r].status = "requested"}
InOrder(S) == [i \in 1..Cardinality(S) |-> CHOOSE r \in S : Cardinality({s \in S : s < r}) = i - 1]

\* acceptControlRequests: all that wait are accepted, those too old expire.
AcceptControlRequests(p) ==
    /\ proc[p].pc = "controls"
    /\ \E late \in SUBSET Requested :
           /\ req' = [r \in DOMAIN req |->
                         IF r \in late THEN [req[r] EXCEPT !.status = "expired"]
                         ELSE IF r \in Requested THEN [req[r] EXCEPT !.status = "accepted"]
                         ELSE req[r]]
           /\ proc' = [proc EXCEPT ![p].pc = "apply", ![p].inbox = InOrder(Requested \ late)]
    /\ UNCHANGED <<system, emergency, task>>

Request(p) == req[Head(proc[p].inbox)]

ApplyResume(p) ==
    /\ proc[p].pc = "apply" /\ proc[p].inbox # <<>>
    /\ Request(p).action = "resume"
    /\ system' = [system EXCEPT !.mode = "running"]
    /\ proc' = [proc EXCEPT ![p].mode = "running", ![p].pc = "answer"]
    /\ UNCHANGED <<emergency, task, req>>

\* A request the run will answer when it is over.
Entrusted(m) == [m EXCEPT !.pending = @ \cup {Head(m.inbox)}, !.inbox = Tail(@)]

\* A faulty variant: a request is answered at once, with a task still running.
PauseEffectAtOnce(m) == [Aborted(m, "interrupt") EXCEPT !.pc = "answer"]

PauseEffect(m) ==
    IF m.run # "none" THEN Aborted(Entrusted(m), "interrupt") ELSE [m EXCEPT !.pc = "answer"]

ApplyPause(p) ==
    /\ proc[p].pc = "apply" /\ proc[p].inbox # <<>>
    /\ Request(p).action = "pause"
    /\ system' = [system EXCEPT !.mode = "paused"]
    /\ proc' = [proc EXCEPT ![p] = PauseEffect([@ EXCEPT !.mode = "paused"])]
    /\ UNCHANGED <<emergency, task, req>>

ApplyStopTask(p) ==
    /\ proc[p].pc = "apply" /\ proc[p].inbox # <<>>
    /\ Request(p).action = "stop_task"
    /\ LET t == Request(p).task
       IN  IF proc[p].run # "none" /\ proc[p].task = t
           THEN /\ proc' = [proc EXCEPT ![p] = Aborted(Entrusted(@), "stop")]
                /\ UNCHANGED task
           ELSE /\ task' = [task EXCEPT ![t] = Cancelled(@)]
                /\ proc' = [proc EXCEPT ![p].pc = "answer"]
    /\ UNCHANGED <<system, emergency, req>>

\* resolveControlRequest, by the loop.
AnswerControl(p) ==
    /\ proc[p].pc = "answer"
    /\ req' = [req EXCEPT ![Head(proc[p].inbox)].status = "completed"]
    /\ proc' = [proc EXCEPT ![p].pc = "apply", ![p].inbox = Tail(@)]
    /\ UNCHANGED <<system, emergency, task>>

Told(p) == IF emergency THEN Aborted(proc[p], "interrupt") ELSE proc[p]

\* The emergency stop is read once the controls are applied.
ReadEmergency(p) ==
    /\ proc[p].pc = "apply" /\ proc[p].inbox = <<>>
    /\ LET claims == ~emergency /\ proc[p].mode = "running" /\ proc[p].run = "none"
       IN  proc' = [proc EXCEPT ![p] = [Told(p) EXCEPT !.pc = IF claims THEN "claim" ELSE "loop"]]
    /\ UNCHANGED <<system, emergency, task, req>>

\* recoverExpired
Recovered(r) ==
    [r EXCEPT !.owner = NoProc,
              !.status = IF r.attempts >= MaxAttempts THEN "dead_letter" ELSE "queued"]

\* A parked task whose recheck time has come (claimTask, requeueParked).
Unparked(t) == [task[t] EXCEPT !.status = "queued"]

\* What claimTask finds once it has taken back what expired and what was
\* parked, of the tasks whose time has come.
Swept(come) ==
    [t \in Task |->
        CASE t \in come /\ task[t].status \in Held    -> Recovered(task[t])
          [] t \in come /\ task[t].status = "waiting" -> Unparked(t)
          [] OTHER -> task[t]]

\* claimTask and the start of runTask.
ClaimTask(p) ==
    /\ proc[p].pc = "claim"
    /\ \E come \in SUBSET Task :
           LET due == {t \in come : Swept(come)[t].status = "queued"}
           IN  \/ \E t \in due :
                      /\ task' = [Swept(come) EXCEPT ![t].status = "leased", ![t].attempts = @ + 1,
                                                     ![t].owner = p]
                      /\ proc' = [proc EXCEPT ![p].pc = "loop", ![p].run = "marking", ![p].task = t]
               \/ /\ due = {}
                  /\ task' = Swept(come)
                  /\ proc' = [proc EXCEPT ![p].pc = "loop"]
    /\ UNCHANGED <<system, emergency, req>>

-----------------------------------------------------------------------------
(* A process: the run of its task *)

Owns(p) == task[proc[p].task].owner = p

\* The catch block decides by the reason of the abort, at once.
Thrown(m, outcome) ==
    [m EXCEPT !.run = "caught",
              !.outcome = CASE m.abort = "stop"          -> "cancel"
                            [] m.abort = "lease_lost"    -> "abandon"
                            [] m.abort = "interrupt"     -> "requeue"
                            [] m.abort = "timeout" /\ outcome = "waiting" -> "retryable"
                            [] OTHER                     -> outcome]

\* markTaskRunning; a task that is not this process's any more throws.
MarkRunning(p) ==
    /\ proc[p].run = "marking"
    /\ IF Owns(p)
       THEN /\ task' = [task EXCEPT ![proc[p].task].status = "running"]
            /\ proc' = [proc EXCEPT ![p].run = "working"]
       ELSE /\ proc' = [proc EXCEPT ![p] = Thrown(@, "retryable")]
            /\ UNCHANGED task
    /\ UNCHANGED <<system, emergency, req>>

\* The handler returns, throws, or asks to be parked; a result that comes
\* after an abort is thrown away.
HandlerEnds(p) ==
    /\ proc[p].run = "working"
    /\ \/ /\ proc[p].abort = "none"
          /\ proc' = [proc EXCEPT ![p].run = "complete"]
       \/ \E o \in {"waiting", "retryable", "fatal"} :
              proc' = [proc EXCEPT ![p] = Thrown(@, o)]
    /\ UNCHANGED <<system, emergency, task, req>>

\* completeTask
CompleteTask(p) ==
    /\ proc[p].run = "complete"
    /\ IF Owns(p)
       THEN /\ task' = [task EXCEPT ![proc[p].task].status = "completed",
                                    ![proc[p].task].owner = NoProc]
            /\ proc' = [proc EXCEPT ![p].run = "closing", ![p].abort = "none"]
       ELSE /\ proc' = [proc EXCEPT ![p] = Thrown(@, "retryable")]
            /\ UNCHANGED task
    /\ UNCHANGED <<system, emergency, req>>

Free(r) == [r EXCEPT !.owner = NoProc]

LastAttempt(r) == r.attempts >= MaxAttempts

\* failTask
FailedTask(r, retryable) ==
    IF retryable /\ ~LastAttempt(r)
    THEN [Free(r) EXCEPT !.status = "queued"]
    ELSE [Free(r) EXCEPT !.status = IF retryable THEN "dead_letter" ELSE "failed"]

\* What the catch block leaves of the task.  A stop cancels whoever owns it;
\* the rest asks for the lease, and an interruption refunds the attempt.
Left(r, outcome, owned) ==
    CASE outcome = "cancel"               -> Cancelled(r)
      [] outcome = "abandon" \/ ~owned    -> r
      [] outcome = "requeue"              -> [Free(r) EXCEPT !.status = "queued", !.attempts = @ - 1]
      [] outcome = "waiting"              -> [Free(r) EXCEPT !.status = "waiting", !.attempts = @ - 1]
      [] OTHER                            -> FailedTask(r, outcome # "fatal")

CatchRun(p) ==
    /\ proc[p].run = "caught"
    /\ task' = [task EXCEPT ![proc[p].task] = Left(@, proc[p].outcome, Owns(p))]
    /\ proc' = [proc EXCEPT ![p].run = "closing", ![p].abort = "none", ![p].outcome = "none"]
    /\ UNCHANGED <<system, emergency, req>>

\* The finally block answers the requests that waited for the run, one by one.
AnswerPending(p) ==
    /\ proc[p].run = "closing"
    /\ \E r \in proc[p].pending :
           /\ req' = [req EXCEPT ![r].status = "completed"]
           /\ proc' = [proc EXCEPT ![p].pending = @ \ {r}]
    /\ UNCHANGED <<system, emergency, task>>

EndRun(p) ==
    /\ proc[p].run = "closing" /\ proc[p].pending = {}
    /\ proc' = [proc EXCEPT ![p].run = "none", ![p].task = NoTask]
    /\ UNCHANGED <<system, emergency, task, req>>

\* The renewal timer finds the lease gone; renewTaskLease asks for the owner,
\* not for the time.
LoseTaskLease(p) ==
    /\ proc[p].run # "none" /\ ~Owns(p)
    /\ proc' = [proc EXCEPT ![p] = Aborted(@, "lease_lost")]
    /\ UNCHANGED <<system, emergency, task, req>>

TaskTimeout(p) ==
    /\ proc' = [proc EXCEPT ![p] = Aborted(@, "timeout")]
    /\ UNCHANGED <<system, emergency, task, req>>

ProcessLeaseExpires ==
    /\ system.owner # NoProc /\ ~system.expired
    /\ system' = [system EXCEPT !.expired = TRUE]
    /\ UNCHANGED <<emergency, task, req, proc>>

Tick(p) ==
    \/ EnsureLease(p) \/ AcceptControlRequests(p) \/ ApplyResume(p) \/ ApplyPause(p)
    \/ ApplyStopTask(p) \/ AnswerControl(p) \/ ReadEmergency(p) \/ ClaimTask(p)

RunStep(p) ==
    MarkRunning(p) \/ CompleteTask(p) \/ CatchRun(p) \/ AnswerPending(p) \/ EndRun(p)

Next ==
    \/ \E t \in Task :
           \/ EnqueueTask(t) \/ CancelRoute(t) \/ CreateControlRequest("stop_task", t)
    \/ \E a \in {"pause", "resume"} : CreateControlRequest(a, NoTask)
    \/ \E e \in BOOLEAN : EmergencyStop(e)
    \/ ProcessLeaseExpires
    \/ \E p \in Proc :
           \/ Boot(p) \/ Shutdown(p) \/ Exit(p) \/ Crash(p) \/ Tick(p) \/ RunStep(p)
           \/ HandlerEnds(p) \/ LoseTaskLease(p) \/ TaskTimeout(p)

Spec == Init /\ [][Next]_vars

-----------------------------------------------------------------------------
(* Properties *)

HeldBy(p) == proc[p].pending \cup {proc[p].inbox[i] : i \in DOMAIN proc[p].inbox}

\* A pause is reported done only when the process that accepted it has stopped
\* working on its task.
PauseDoneMeansStopped ==
    [][\A r \in DOMAIN req :
          (req[r].action = "pause" /\ req[r].status = "accepted" /\ req'[r].status = "completed") =>
             \E p \in Proc : /\ r \in HeldBy(p)
                             /\ proc[p].run \in {"none", "closing"}]_vars
=============================================================================
