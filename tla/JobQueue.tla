------------------------------ MODULE JobQueue ------------------------------
(***************************************************************************)
(* The jobs of src/src/reliability.js and the two ways to work on them:    *)
(* directly under a lease, and through the worker pool of                  *)
(* src/src/production-runtime.js, with the recovery the coordinator runs   *)
(* over both (src/src/runtime-coordinator.js).                             *)
(*                                                                         *)
(* Every change is a transaction of its own under the store's one lock, but *)
(* for the direct claim on Postgres (claimJob), which locks only the row it *)
(* takes.  A pool claim reads all rows first and writes them later: a      *)
(* direct claim may come between, and is then overwritten.                 *)
(*                                                                         *)
(* A lease id is fresh on every claim.  A claim raises the attempts, which *)
(* nothing resets: their number and the way of claiming stand for the id.  *)
(* Times are abstracted to whether they have come: a lease ran out, a      *)
(* retry is due, a heartbeat is too old.  A report of a pool worker names  *)
(* the worker only; it reads the assignment, reports under the lease the   *)
(* job has by then, and gives the capacity back, in three transactions.    *)
(***************************************************************************)
EXTENDS Integers, FiniteSets

CONSTANTS
    Job,          \* the jobs that may be created, all of the pool's class
    NoJob,        \* null
    Owner,        \* who claims jobs directly
    Worker,       \* the machines that may register with the pool
    MaxAttempts,  \* job.maxAttempts
    Capacities,   \* the capacities an operator may give the pool
    PoolStatus,   \* the statuses an operator may give it
    RowClaims     \* does a direct claim lock its row alone, as on Postgres?

ASSUME JobAssumption ==
    /\ NoJob \notin Job
    /\ MaxAttempts \in Nat \ {0}
    /\ IsFiniteSet(Worker)
    /\ Capacities \subseteq Nat \ {0}
    /\ PoolStatus \subseteq {"active", "draining", "offline"}
    /\ RowClaims \in BOOLEAN

Settled == {"completed", "dead_letter", "blocked"}
NoLease == [attempt |-> 0, by |-> "nobody"]
NoClaim == [job |-> NoJob, lease |-> NoLease]

VARIABLES
    job,      \* status, attempts, leaseId; expired and due tell the time;
              \* takers counts whom the present attempt was given to
    reading,  \* the jobs as a pool claim under way read them, in a set
    claim,    \* what a direct owner remembers of its claim
    pool,     \* status, capacity, activeWorkers, healthyWorkers
    worker,   \* status, activeJobId; stale: its heartbeat is too old
    report    \* the report of a worker that is in flight

vars == <<job, reading, claim, pool, worker, report>>

Kinds == {"complete", "retry", "block"}
Quiet == [pc |-> "idle", job |-> NoJob, lease |-> NoLease]

Init ==
    /\ job = [j \in Job |-> [status |-> "absent", attempts |-> 0, lease |-> NoLease,
                             takers |-> 0, expired |-> FALSE, due |-> TRUE]]
    /\ reading = {}
    /\ claim = [o \in Owner |-> NoClaim]
    /\ pool \in [status : {"active"}, capacity : Capacities, active : {0}, healthy : {0}]
    /\ worker = [w \in Worker |-> [status |-> "absent", job |-> NoJob, stale |-> FALSE]]
    /\ report = [w \in Worker |-> Quiet]

-----------------------------------------------------------------------------
(* Jobs *)

\* The store's lock is not taken.
Free == reading = {}

CreateJob(j) ==
    /\ Free
    /\ job[j].status = "absent"
    /\ job' = [job EXCEPT ![j].status = "queued"]
    /\ UNCHANGED <<reading, claim, pool, worker, report>>

Available(r) == r.status \in {"queued", "retrying"} /\ r.due

Claimed(r, way) ==
    [r EXCEPT !.status = "running", !.attempts = @ + 1, !.takers = 1, !.expired = FALSE,
              !.lease = [attempt |-> r.attempts + 1, by |-> way]]

\* claimNextJob: a transaction of the document store, a row's lock on Postgres.
ClaimNextJob(o) ==
    /\ RowClaims \/ Free
    /\ claim[o] = NoClaim
    /\ \E j \in Job :
           /\ Available(job[j])
           /\ job' = [job EXCEPT ![j] = Claimed(@, "owner")]
           /\ claim' = [claim EXCEPT ![o] = [job |-> j, lease |-> job'[j].lease]]
    /\ UNCHANGED <<reading, pool, worker, report>>

\* A faulty variant: null is compared like any other lease id.
HoldsLeaseOrNull(j, l) == job[j].lease = l /\ ~job[j].expired

\* assertJobLease
HoldsLease(j, l) == l # NoLease /\ job[j].lease = l /\ ~job[j].expired

\* What is left of an attempt that did not settle its job.
TryAgain(r) ==
    IF r.attempts >= MaxAttempts
    THEN [r EXCEPT !.lease = NoLease, !.expired = FALSE, !.status = "dead_letter"]
    ELSE [r EXCEPT !.lease = NoLease, !.expired = FALSE, !.status = "retrying", !.due = FALSE]

\* completeJob, retryJob, blockJob
Reported(r, kind) ==
    CASE kind = "complete" -> [r EXCEPT !.status = "completed", !.lease = NoLease]
      [] kind = "block"    -> [r EXCEPT !.status = "blocked", !.lease = NoLease]
      [] kind = "retry"    -> TryAgain(r)

\* A direct owner reports under its own lease, or is gone; a refused report
\* throws.
ReportJob(o) ==
    /\ claim[o] # NoClaim
    /\ LET c == claim[o]
       IN  \/ /\ Free
              /\ HoldsLease(c.job, c.lease)
              /\ \E kind \in Kinds : job' = [job EXCEPT ![c.job] = Reported(@, kind)]
           \/ UNCHANGED job
    /\ claim' = [claim EXCEPT ![o] = NoClaim]
    /\ UNCHANGED <<reading, pool, worker, report>>

RecoverExpiredJobs ==
    /\ Free
    /\ \E j \in Job : job[j].expired
    /\ job' = [j \in Job |-> IF job[j].expired THEN TryAgain(job[j]) ELSE job[j]]
    /\ UNCHANGED <<reading, claim, pool, worker, report>>

-----------------------------------------------------------------------------
(* The pool *)

\* registerWorkerPool of a pool that exists.
ResizePool(c) ==
    /\ Free
    /\ pool.active <= c
    /\ pool' = [pool EXCEPT !.capacity = c]
    /\ UNCHANGED <<job, reading, claim, worker, report>>

SetPoolStatus(s) ==
    /\ Free
    /\ s # pool.status
    /\ pool' = [pool EXCEPT !.status = s]
    /\ UNCHANGED <<job, reading, claim, worker, report>>

\* A machine that was registered before keeps its row as it is.
RegisterWorker(w) ==
    /\ Free
    /\ pool.status = "active"
    /\ worker[w].status = "absent"
    /\ worker' = [worker EXCEPT ![w].status = "ready"]
    /\ pool' = [pool EXCEPT !.healthy = @ + 1]
    /\ UNCHANGED <<job, reading, claim, report>>

Heartbeat(w) ==
    /\ Free
    /\ worker[w].stale
    /\ worker[w].status \in {"ready", "busy"}
    /\ worker' = [worker EXCEPT ![w].stale = FALSE]
    /\ UNCHANGED <<job, reading, claim, pool, report>>

Less(n, m) == IF n > m THEN n - m ELSE 0

Unassigned(w) == worker[w].status = "ready" /\ worker[w].job = NoJob
Lost == {w \in Worker : Unassigned(w) /\ worker[w].stale}

MayClaim == pool.status = "active" /\ pool.active < pool.capacity

Idle == {w \in Worker : Unassigned(w) /\ ~worker[w].stale}

\* claimProductionJob: the rows are read under the lock.  A claim that finds
\* nothing to write is left out.
ReadForPool ==
    /\ Free
    /\ MayClaim
    /\ Lost # {} \/ (Idle # {} /\ \E j \in Job : Available(job[j]))
    /\ reading' = {job}
    /\ UNCHANGED <<job, claim, pool, worker, report>>

\* Who works on the attempt the pool's claim is about to overwrite.
TakersBefore(r) == IF r.status = "running" THEN r.takers ELSE 0

\* What the claim made of the rows it read is written.  The idle workers that
\* went silent are taken out of service first, also when there is nothing to
\* claim in the end.
ClaimProductionJob ==
    /\ MayClaim
    /\ \E read \in reading :
         LET seen == [w \in Worker |->
                         IF w \in Lost THEN [worker[w] EXCEPT !.status = "offline"]
                         ELSE worker[w]]
             left == [pool EXCEPT !.healthy = Less(@, Cardinality(Lost))]
         IN  \/ \E w \in Idle, j \in Job :
                    /\ Available(read[j])
                    /\ job' = [job EXCEPT ![j] = [Claimed(read[j], "pool")
                                                   EXCEPT !.takers = TakersBefore(job[j]) + 1]]
                    /\ worker' = [seen EXCEPT ![w].status = "busy", ![w].job = j]
                    /\ pool' = [left EXCEPT !.active = @ + 1]
             \/ /\ Idle = {} \/ \A j \in Job : ~Available(read[j])
                /\ worker' = seen
                /\ pool' = left
                /\ UNCHANGED job
    /\ reading' = {}
    /\ UNCHANGED <<claim, report>>

\* The transaction of a pool claim is rolled back.
DropPoolClaim ==
    /\ ~Free
    /\ reading' = {}
    /\ UNCHANGED <<job, claim, pool, worker, report>>

\* completeProductionJob, retryProductionJob, blockProductionJob: the reading.
StartReport(w) ==
    /\ report[w].pc = "idle"
    /\ worker[w].job # NoJob
    /\ report' = [report EXCEPT ![w] = [pc |-> "report", job |-> worker[w].job,
                                        lease |-> job[worker[w].job].lease]]
    /\ UNCHANGED <<job, reading, claim, pool, worker>>

\* The job is settled under the lease that was read; a refusal ends the report.
FinishReport(w) ==
    /\ Free
    /\ report[w].pc = "report"
    /\ LET r == report[w]
       IN  IF HoldsLease(r.job, r.lease)
           THEN /\ \E kind \in Kinds : job' = [job EXCEPT ![r.job] = Reported(@, kind)]
                /\ report' = [report EXCEPT ![w].pc = "release"]
           ELSE /\ report' = [report EXCEPT ![w] = Quiet]
                /\ UNCHANGED job
    /\ UNCHANGED <<reading, claim, pool, worker>>

\* A faulty variant: the assignment is not looked at again.
StillAssignedUnchecked(w) == TRUE

StillAssigned(w) == worker[w].job = report[w].job

\* releaseWorkerCapacity makes a drained worker ready again.
ReleaseCapacity(w) ==
    /\ Free
    /\ report[w].pc = "release"
    /\ IF StillAssigned(w)
       THEN /\ worker' = [worker EXCEPT ![w].status = "ready", ![w].job = NoJob]
            /\ pool' = [pool EXCEPT !.active = Less(@, 1)]
       ELSE UNCHANGED <<worker, pool>>
    /\ report' = [report EXCEPT ![w] = Quiet]
    /\ UNCHANGED <<job, reading, claim>>

\* The server goes down between two transactions of a report.
CrashReport(w) ==
    /\ report[w].pc # "idle"
    /\ report' = [report EXCEPT ![w] = Quiet]
    /\ UNCHANGED <<job, reading, claim, pool, worker>>

\* A faulty variant: only a job that ended frees its worker.
OrphanedByEndOnly(w) ==
    worker[w].status = "busy" /\ worker[w].job # NoJob /\ job[worker[w].job].status = "completed"

Orphaned(w) ==
    worker[w].status = "busy" /\ worker[w].job # NoJob /\ job[worker[w].job].status # "running"

RecoverAssignments ==
    LET freed == {w \in Worker : Orphaned(w)}
    IN  /\ Free
        /\ freed # {}
        /\ worker' = [w \in Worker |->
                         IF w \in freed THEN [worker[w] EXCEPT !.status = "ready", !.job = NoJob]
                         ELSE worker[w]]
        /\ pool' = [pool EXCEPT !.active = Less(@, Cardinality(freed))]
        /\ UNCHANGED <<job, reading, claim, report>>

Healthy(status) == IF status \in {"ready", "busy"} THEN 1 ELSE 0

SetWorkerStatus(w, s) ==
    /\ Free
    /\ worker[w].status \notin {"absent", s}
    /\ ~(worker[w].job # NoJob /\ s = "offline")
    /\ worker' = [worker EXCEPT ![w].status = s]
    /\ pool' = [pool EXCEPT !.healthy = Less(@ + Healthy(s), Healthy(worker[w].status))]
    /\ UNCHANGED <<job, reading, claim, report>>

-----------------------------------------------------------------------------
(* Time *)

LeaseRunsOut(j) ==
    /\ job[j].status = "running" /\ ~job[j].expired
    /\ job' = [job EXCEPT ![j].expired = TRUE]
    /\ UNCHANGED <<reading, claim, pool, worker, report>>

RetryFallsDue(j) ==
    /\ ~job[j].due
    /\ job' = [job EXCEPT ![j].due = TRUE]
    /\ UNCHANGED <<reading, claim, pool, worker, report>>

\* Whether a heartbeat is too old is settled when the rows are read: what falls
\* silent after that falls silent after the claim.
WorkerFallsSilent(w) ==
    /\ Free
    /\ worker[w].status # "absent" /\ ~worker[w].stale
    /\ worker' = [worker EXCEPT ![w].stale = TRUE]
    /\ UNCHANGED <<job, reading, claim, pool, report>>

Coordinator == RecoverExpiredJobs \/ RecoverAssignments

Next ==
    \/ Coordinator \/ ReadForPool \/ ClaimProductionJob \/ DropPoolClaim
    \/ \E j \in Job : CreateJob(j) \/ LeaseRunsOut(j) \/ RetryFallsDue(j)
    \/ \E o \in Owner : ClaimNextJob(o) \/ ReportJob(o)
    \/ \E c \in Capacities : ResizePool(c)
    \/ \E s \in PoolStatus : SetPoolStatus(s)
    \/ \E w \in Worker :
           \/ RegisterWorker(w) \/ Heartbeat(w) \/ WorkerFallsSilent(w)
           \/ StartReport(w) \/ FinishReport(w) \/ ReleaseCapacity(w) \/ CrashReport(w)
           \/ \E s \in {"ready", "draining", "offline"} : SetWorkerStatus(w, s)

Spec == Init /\ [][Next]_vars

\* The coordinator ticks for ever, the clock moves, a transaction ends and the
\* lock is granted in the order it was asked for, however often it is taken
\* again.  Nobody is assumed to claim, report or beat.
FairSpec ==
    /\ Spec
    /\ SF_vars(RecoverExpiredJobs) /\ SF_vars(RecoverAssignments)
    /\ WF_vars(ClaimProductionJob \/ DropPoolClaim)
    /\ \A j \in Job : WF_vars(LeaseRunsOut(j))

-----------------------------------------------------------------------------
(* Properties *)

\* What the pool counts is what its workers hold, within its capacity, whoever
\* gave the capacity back: the report, the recovery, or both in turn.
CapacityAccounted ==
    /\ pool.active = Cardinality({w \in Worker : worker[w].job # NoJob})
    /\ pool.active <= pool.capacity

Place(j) ==
    CASE job[j].status = "absent" -> "absent"
      [] job[j].status \in {"queued", "retrying"} -> "free"
      [] job[j].status = "running" -> "held"
      [] job[j].status \in Settled -> "settled"

Work == INSTANCE LeasedWork
           WITH Item <- Job, MaxTakes <- MaxAttempts,
                MaxTakers <- IF RowClaims THEN 2 ELSE 1,
                place <- [j \in Job |-> Place(j)],
                takes <- [j \in Job |-> job[j].attempts],
                takers <- [j \in Job |-> job[j].takers]

\* Jobs are leased work: bounded attempts, each given to one taker, or to two
\* where a direct claim locks its row alone and the pool's claim overwrites it,
\* and final once settled, whatever a late worker, a recovery and the pool do
\* to each other.
WorkSpec == Work!Spec

Assigned(w) == worker[w].job # NoJob

\* A worker that is left busy while it has a job is rid of the job in the end,
\* whether it reports, dies, or its job is recovered and done by another, and
\* however often that job is retried.  A worker whose status an operator
\* changes meanwhile is passed over by the recovery.
AssignmentsEnd ==
    \A w \in Worker : <>[](Assigned(w) => worker[w].status = "busy")
                       => (Assigned(w) ~> ~Assigned(w))
=============================================================================
