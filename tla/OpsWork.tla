------------------------------ MODULE OpsWork ------------------------------
(***************************************************************************)
(* What the two 24/7 systems do with their tasks.  System A, the builder,  *)
(* changes the code of the platform: it asks a model for a plan, an        *)
(* implementation and a review, runs the test suite itself and opens a     *)
(* draft pull request (src/src/ops-builder.js).  System B, the auditor,    *)
(* turns a failure that repeats into a finding and the finding into a task *)
(* for the builder (src/src/ops-auditor.js).                               *)
(*                                                                         *)
(* The questions to the models wait in the queue of the inference gateway, *)
(* which may be away for hours: the builder then parks its task, and finds *)
(* the questions it has asked in the task's checkpoint when it comes back. *)
(* One process of each system works at a time; what two of them do when a  *)
(* lease is lost is in OpsControl, how the gateway answers in              *)
(* InferenceGateway.  A time has come or has not, as there.                *)
(***************************************************************************)
EXTENDS Integers, Sequences, FiniteSets, SequencesExt

CONSTANTS
    Failure,      \* the failures that repeat, as the auditor groups them
    MaxRepair,    \* repair rounds after the first implementation
    MaxAttempts,  \* task.maxAttempts
    MaxAsks,      \* bound: the questions of each task, in the order of the tasks
    MaxFindings,  \* bound: findings recorded
    MaxFaults     \* bound: crashes, of either process

ASSUME OpsWorkAssumption ==
    /\ IsFiniteSet(Failure)
    /\ MaxRepair \in Nat
    /\ MaxAttempts \in Nat \ {0}
    /\ MaxAsks \in Seq(Nat) /\ {MaxFindings, MaxFaults} \subseteq Nat

Question == ({"plan"} \X {0}) \cup ({"implement", "review"} \X (0..MaxRepair))

VARIABLES
    task,      \* the builder's tasks, each with its latest checkpoint
    request,   \* the questions in the inference queue
    builder,   \* the memory and the working tree of the builder
    branch,    \* the branches on GitHub, by task: what was pushed to them last
    pull,      \* the tasks with an open draft pull request, which shows their branch
    finding,   \* the findings, each with the task that was filed for it
    auditor,   \* the memory of the auditor
    faults     \* crashes so far: of the builder, of the auditor

workVars == <<task, request, builder, branch, pull, finding, auditor, faults>>
builderVars == <<task, request, builder, branch, pull>>
auditorVars == <<finding, auditor>>

NoProgress == [round |-> 0, asked |-> [q \in Question |-> 0]]
IdleBuilder == [pc |-> "idle", task |-> 0, state |-> NoProgress, saved |-> TRUE, tree |-> {},
                passed |-> FALSE, tested |-> {}, outcome |-> "none"]
IdleAuditor == [pc |-> "idle", todo |-> {}, filed |-> 0, link |-> 0]

WorkInit ==
    /\ task = <<>> /\ request = <<>> /\ branch = <<>> /\ pull = {}
    /\ builder = IdleBuilder
    /\ finding = <<>>
    /\ auditor = IdleAuditor
    /\ faults = [builder |-> 0, auditor |-> 0]

-----------------------------------------------------------------------------
(* The queue of the builder *)

\* A faulty variant: a parked task does not count as one in progress.
ActiveButParked == {"queued", "running"}

Active == {"queued", "running", "waiting"}

NewTask(kind, of) == [kind |-> kind, finding |-> of, status |-> "queued", attempts |-> 0,
                      checkpoint |-> NoProgress]

\* The tasks that a key of a finding stands for while one of them is live.
LiveFor(i) == {n \in DOMAIN task : task[n].finding = i /\ task[n].status \in Active}

\* The administrator's route.
AdminEnqueues(kind) ==
    /\ Len(task) < Len(MaxAsks)
    /\ task' = Append(task, NewTask(kind, 0))
    /\ UNCHANGED <<request, builder, branch, pull, auditorVars, faults>>

\* recoverExpired and failTask: another attempt, when one is left.
Retried(n) == IF task[n].attempts >= MaxAttempts THEN "dead_letter" ELSE "queued"

\* A run that ended without a word left its task running: the lease expires.
RecoverExpired(n) ==
    /\ builder.pc = "idle" /\ task[n].status = "running"
    /\ task' = [task EXCEPT ![n].status = Retried(n)]
    /\ UNCHANGED <<request, builder, branch, pull, auditorVars, faults>>

\* What a run starts with: the state of the latest checkpoint, or none.
Resumed(n) == task[n].checkpoint

Claim(n) ==
    /\ builder.pc = "idle" /\ task[n].status \in {"queued", "waiting"}
    /\ task' = [task EXCEPT ![n].status = "running", ![n].attempts = @ + 1]
    /\ builder' = [IdleBuilder EXCEPT !.pc = "prepare", !.task = n, !.state = Resumed(n)]
    /\ UNCHANGED <<request, branch, pull, auditorVars, faults>>

-----------------------------------------------------------------------------
(* A run of the builder *)

Kind == task[builder.task].kind
Throw(b, outcome) == [b EXCEPT !.pc = "caught", !.outcome = outcome]

\* The clone is reset to the base branch; git may fail, and a change is refused
\* where its scope is unknown or the code of a model would run in no sandbox.
PrepareRepo ==
    /\ builder.pc = "prepare"
    /\ builder' \in {Throw(builder, "retryable"), Throw(builder, "fatal"),
                     [builder EXCEPT !.tree = {}, !.pc = IF Kind = "change" THEN "plan" ELSE "test"]}
    /\ UNCHANGED <<task, request, branch, pull, auditorVars, faults>>

Current == <<builder.pc, IF builder.pc = "plan" THEN 0 ELSE builder.state.round>>
Asking == builder.pc \in {"plan", "implement", "review"}
Asked == builder.state.asked[Current]

\* infer, first part: the question is put, and remembered, in two transactions.
Ask ==
    /\ Asking /\ builder.saved /\ Asked = 0
    /\ Cardinality({r \in DOMAIN request : request[r].task = builder.task}) < MaxAsks[builder.task]
    /\ request' = Append(request, [task |-> builder.task, of |-> Current, status |-> "queued",
                                   answer |-> "none"])
    /\ builder' = [builder EXCEPT !.state.asked[Current] = Len(request) + 1, !.saved = FALSE]
    /\ UNCHANGED <<task, branch, pull, auditorVars, faults>>

\* checkpointWrite
SaveQuestion ==
    /\ Asking /\ ~builder.saved
    /\ task' = [task EXCEPT ![builder.task].checkpoint = builder.state]
    /\ builder' = [builder EXCEPT !.saved = TRUE]
    /\ UNCHANGED <<request, branch, pull, auditorVars, faults>>

Answered(status) == Asking /\ builder.saved /\ Asked # 0 /\ request[Asked].status = status
Answer == request[Asked].answer

Parked(b) == Throw(b, "parked")

\* infer: no answer before the deadline.
Park ==
    /\ Answered("queued")
    /\ builder' = Parked(builder)
    /\ task' = [task EXCEPT ![builder.task].checkpoint = builder'.state]
    /\ UNCHANGED <<request, branch, pull, auditorVars, faults>>

\* infer: a question that failed is forgotten, so that the retry asks it again.
QuestionFailed ==
    /\ Answered("failed")
    /\ builder' = Throw([builder EXCEPT !.state.asked[Current] = 0], "retryable")
    /\ task' = [task EXCEPT ![builder.task].checkpoint = builder'.state]
    /\ UNCHANGED <<request, branch, pull, auditorVars, faults>>

\* A plan that names no file of the scope ends the task for good, one that does
\* not parse is read again by the retry.
ReadPlan ==
    /\ builder.pc = "plan" /\ Answered("completed")
    /\ builder' = CASE Answer = "good"    -> [builder EXCEPT !.pc = "implement"]
                    [] Answer = "outside" -> Throw(builder, "fatal")
                    [] Answer = "garbled" -> Throw(builder, "retryable")
    /\ UNCHANGED <<task, request, branch, pull, auditorVars, faults>>

\* The edits are written over what the tree holds, unless one is out of scope:
\* those before it are written, and the run is over.
ApplyEdits ==
    /\ builder.pc = "implement" /\ Answered("completed")
    /\ builder' = CASE Answer \in {"good", "beyond"} -> [builder EXCEPT !.tree = @ \cup {Asked}, !.pc = "test"]
                    [] Answer = "outside" -> Throw(builder, "fatal")
                    [] Answer = "garbled" -> Throw(builder, "retryable")
    /\ UNCHANGED <<task, request, branch, pull, auditorVars, faults>>

\* What a run of the suite says is what it says of this tree.
Verdict(tree, green) == [builder EXCEPT !.passed = green, !.tested = tree]

\* An inspection is over with them.
AfterTests == IF Kind = "change" THEN "review" ELSE "complete"

\* The suite runs, and a checkpoint is written after it.
RunTests ==
    /\ builder.pc = "test"
    /\ \E green \in BOOLEAN :
           builder' = [Verdict(builder.tree, green) EXCEPT !.pc = AfterTests]
    /\ task' = [task EXCEPT ![builder.task].checkpoint = builder.state]
    /\ UNCHANGED <<request, branch, pull, auditorVars, faults>>

\* A faulty variant: the reviewer's word is enough.
ApprovedAlone(verdict) == verdict = "approve"

Approved(verdict) == builder.passed /\ verdict = "approve"

\* The review ends the round: with a pull request, without one, or with a
\* repair round that starts from the tree as it is.
ReadReview ==
    /\ builder.pc = "review" /\ Answered("completed")
    /\ builder' =
           CASE Answer = "garbled" -> Throw(builder, "retryable")
             [] Approved(Answer)   -> [builder EXCEPT !.pc = "commit"]
             [] ~Approved(Answer) /\ Answer \in {"approve", "revise"}
                    /\ builder.state.round < MaxRepair ->
                    [builder EXCEPT !.state.round = @ + 1, !.pc = "implement"]
             [] OTHER -> [builder EXCEPT !.pc = "complete"]
    /\ UNCHANGED <<task, request, branch, pull, auditorVars, faults>>

\* The answers that also edit files of the scope which the plan does not name.
Beyond == {r \in DOMAIN request : request[r].answer = "beyond"}

\* What a commit holds of the tree: git adds the files of the plan and no other,
\* so of an answer that goes beyond them a part, or nothing.  A commit that fails
\* is not noticed, and leaves the branch at its base.
Committed(tree) == {{}} \cup {c \in SUBSET tree : tree \ Beyond \subseteq c}

\* Commit and checkpoint; without a token the task then fails for good.
CommitEdits ==
    /\ builder.pc = "commit"
    /\ \/ /\ \E c \in Committed(builder.tree) :
                 LET b == [builder EXCEPT !.tree = c, !.pc = "push"]
                 IN  builder' \in {b, Throw(b, "fatal")}
          /\ task' = [task EXCEPT ![builder.task].checkpoint = builder.state]
       \/ /\ builder' = Throw(builder, "retryable")
          /\ UNCHANGED task
    /\ UNCHANGED <<request, branch, pull, auditorVars, faults>>

Pushed == [edits |-> builder.tree, passed |-> builder.passed, tested |-> builder.tested]

\* The branch is replaced by force, also where a pull request of an earlier run
\* of the task shows it; what git then says may be lost.
Push ==
    /\ builder.pc = "push"
    /\ \/ /\ branch' = [n \in DOMAIN branch \cup {builder.task} |->
                            IF n = builder.task THEN Pushed ELSE branch[n]]
          /\ builder' \in {[builder EXCEPT !.pc = "pull"], Throw(builder, "retryable")}
       \/ /\ builder' = Throw(builder, "retryable")
          /\ UNCHANGED branch
    /\ UNCHANGED <<task, request, pull, auditorVars, faults>>

\* GitHub opens one pull request for a branch, if there is a commit on it; its
\* answer may come too late.
OpenPullRequest ==
    /\ builder.pc = "pull"
    /\ \/ /\ builder.task \notin pull /\ builder.tree # {}
          /\ pull' = pull \cup {builder.task}
          /\ builder' \in {[builder EXCEPT !.pc = "complete"], Throw(builder, "retryable")}
       \/ /\ builder' = Throw(builder, "retryable")
          /\ UNCHANGED pull
    /\ UNCHANGED <<task, request, branch, auditorVars, faults>>

CompleteTask ==
    /\ builder.pc = "complete"
    /\ task' = [task EXCEPT ![builder.task].status = "completed"]
    /\ builder' = IdleBuilder
    /\ UNCHANGED <<request, branch, pull, auditorVars, faults>>

\* The catch block of the supervisor.
CatchRun ==
    /\ builder.pc = "caught"
    /\ task' = [task EXCEPT
           ![builder.task].status = CASE builder.outcome = "parked" -> "waiting"
                                      [] builder.outcome = "fatal"  -> "failed"
                                      [] OTHER                      -> Retried(builder.task),
           ![builder.task].attempts = IF builder.outcome = "parked" THEN @ - 1 ELSE @]
    /\ builder' = IdleBuilder
    /\ UNCHANGED <<request, branch, pull, auditorVars, faults>>

\* A pause or a stop: the handler ends at its next command, and a question that
\* was put is saved before.
Interrupt ==
    /\ builder.pc \notin {"idle", "caught"} /\ builder.saved
    /\ \E left \in {"queued", "cancelled"} :
           task' = [task EXCEPT ![builder.task].status = left,
                                ![builder.task].attempts = IF left = "queued" THEN @ - 1 ELSE @]
    /\ builder' = IdleBuilder
    /\ UNCHANGED <<request, branch, pull, auditorVars, faults>>

BuilderCrash ==
    /\ builder.pc # "idle" /\ faults.builder + faults.auditor < MaxFaults
    /\ builder' = IdleBuilder
    /\ faults' = [faults EXCEPT !.builder = @ + 1]
    /\ UNCHANGED <<task, request, branch, pull, auditorVars>>

\* What a model may say: usable, not of the form that was asked for, or naming
\* files the task must not touch, or files that the plan does not name.
AnswersTo(q) ==
    CASE q[1] = "plan"      -> {"good", "outside", "garbled"}
      [] q[1] = "implement" -> {"good", "beyond", "outside", "garbled"}
      [] q[1] = "review"    -> {"approve", "revise", "reject", "garbled"}

\* finishInference
GatewayFinishes(r) ==
    /\ request[r].status = "queued"
    /\ \/ \E a \in AnswersTo(request[r].of) :
              request' = [request EXCEPT ![r].status = "completed", ![r].answer = a]
       \/ request' = [request EXCEPT ![r].status = "failed"]
    /\ UNCHANGED <<task, builder, branch, pull, auditorVars, faults>>

-----------------------------------------------------------------------------
(* The auditor *)

OpenFor(f) == {i \in DOMAIN finding : finding[i].open /\ finding[i].of = f}

\* upsertFinding, for every fingerprint that was seen.
Upserted(seen) ==
    finding \o [i \in 1..Cardinality({f \in seen : OpenFor(f) = {}}) |->
                   [of |-> SetToSeq({f \in seen : OpenFor(f) = {}})[i], open |-> TRUE, task |-> 0]]

\* resolveMissingFindings
MissingResolved(fs, seen) == [i \in DOMAIN fs |-> [fs[i] EXCEPT !.open = @ /\ fs[i].of \in seen]]

\* runAudit up to its transaction: of the failures some are found to repeat, in
\* a snapshot; one transaction opens what was seen and resolves what was not.
RecordFindings ==
    /\ auditor.pc = "idle"
    /\ \E seen \in SUBSET Failure :
           /\ Len(Upserted(seen)) <= MaxFindings
           /\ finding' = MissingResolved(Upserted(seen), seen)
    /\ auditor' = [auditor EXCEPT !.pc = "file",
                       !.todo = {i \in DOMAIN finding' : finding'[i].open /\ finding'[i].task = 0}]
    /\ UNCHANGED <<builderVars, faults>>

\* enqueueTask, with the finding for its key: the live task of the key, or one more.
FileTask ==
    /\ auditor.pc = "file" /\ auditor.filed = 0
    /\ \E i \in auditor.todo :
           \/ \E n \in LiveFor(i) :
                  /\ auditor' = [auditor EXCEPT !.filed = i, !.link = n]
                  /\ UNCHANGED task
           \/ /\ LiveFor(i) = {}
              /\ Len(task) < Len(MaxAsks)
              /\ task' = Append(task, NewTask("change", i))
              /\ auditor' = [auditor EXCEPT !.filed = i, !.link = Len(task) + 1]
    /\ UNCHANGED <<request, builder, branch, pull, finding, faults>>

LinkTask ==
    /\ auditor.pc = "file" /\ auditor.filed # 0
    /\ finding' = [finding EXCEPT ![auditor.filed].task = auditor.link]
    /\ auditor' = [auditor EXCEPT !.todo = @ \ {auditor.filed}, !.filed = 0, !.link = 0]
    /\ UNCHANGED <<builderVars, faults>>

EndAudit ==
    /\ auditor.pc = "file" /\ auditor.todo = {}
    /\ auditor' = IdleAuditor
    /\ UNCHANGED <<builderVars, finding, faults>>

AuditorCrash ==
    /\ auditor.pc # "idle" /\ faults.builder + faults.auditor < MaxFaults
    /\ auditor' = IdleAuditor
    /\ faults' = [faults EXCEPT !.auditor = @ + 1]
    /\ UNCHANGED <<builderVars, finding>>

-----------------------------------------------------------------------------

BuilderStep ==
    \/ PrepareRepo \/ Ask \/ SaveQuestion \/ Park \/ QuestionFailed \/ ReadPlan \/ ApplyEdits
    \/ RunTests \/ ReadReview \/ CommitEdits \/ Push \/ OpenPullRequest \/ CompleteTask \/ CatchRun

AuditorStep == RecordFindings \/ FileTask \/ LinkTask \/ EndAudit

WorkNext ==
    \/ \E kind \in {"change", "inspect"} : AdminEnqueues(kind)
    \/ \E n \in DOMAIN task : RecoverExpired(n) \/ Claim(n)
    \/ BuilderStep \/ Interrupt \/ BuilderCrash
    \/ \E r \in DOMAIN request : GatewayFinishes(r)
    \/ AuditorStep \/ AuditorCrash

WorkSpec == WorkInit /\ [][WorkNext]_workVars

-----------------------------------------------------------------------------
(* Properties *)

\* What a pull request shows, also after a later run of the task has pushed over
\* it, is from a tree with which the test suite passed in the run that pushed it.
\* It is that tree, or nothing of it (the commit failed), or a part of it, which
\* the suite never saw alone: then an answer went beyond the files of the plan.
PullRequestPassed ==
    \A n \in pull :
        LET head == branch[n]
        IN  /\ head.passed /\ head.edits \subseteq head.tested
            /\ head.edits \in {{}, head.tested} \/ head.tested \cap Beyond # {}

\* No finding has two tasks in progress that would fix it, even when the
\* auditor dies between filing a task and noting that it did.
OneFixAtATime ==
    \A i \in DOMAIN finding :
        Cardinality({n \in DOMAIN task : /\ task[n].finding = i
                                         /\ task[n].status \in {"queued", "running", "waiting"}}) <= 1
=============================================================================
