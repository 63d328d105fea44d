------------------------------ MODULE DevBuild ------------------------------
(***************************************************************************)
(* The archived DEV engine: one build, the workers that claim it under a   *)
(* lease and move it one state per tick, the owner's requests that race    *)
(* them, the build's own spend columns and the owner's development ledger. *)
(*                                                                         *)
(* A tick works on the copy of the row it claimed, and so does a request;  *)
(* every store call, every ledger unit of work and every save is a step of *)
(* its own.  Time is left out: a run that is due may be claimed now or     *)
(* later, and a lease that nobody extends may lapse.  Prompts, files,      *)
(* events and e-mails are left out.                                        *)
(***************************************************************************)
EXTENDS Integers, Sequences, FiniteSets, FiniteSetsExt

CONSTANTS
    Tick,          \* slots in which a worker runs a claimed build
    Request,       \* the owner's approve and deny requests, at any one time
    NoOne,
    Budget,        \* the ceiling the build is created with
    CallCost,      \* what a model call may cost at most
    MaxBudget,     \* the platform's ceiling for one build
    Wallet,        \* [held, credit]: the owner's money at first
    Payment,       \* what one verified payment adds
    MaxImplement, MaxTransient, MaxInvalid,   \* the engine's limits
    MaxChanges, MaxFaults, MaxEdits           \* bounds of the model

ASSUME DevConstants ==
    /\ {Budget, CallCost, MaxBudget, Payment} \subseteq Nat \ {0}
    /\ {MaxImplement, MaxTransient, MaxInvalid, MaxChanges, MaxFaults, MaxEdits} \subseteq Nat
    /\ Wallet \in [{"held", "credit"} -> Nat]
    /\ NoOne \notin Tick

Live == {"planning", "implementing", "executing", "reviewing", "verifying"}
Stop == {"waiting_user", "failed", "cancelled"}
Terminal == {"completed", "failed", "cancelled"}
Runnable == {"queued"} \cup Live

\* Where a build may go from each state.
MayBecome ==
    [s \in {"awaiting_funding", "waiting_user"} \cup Runnable \cup Terminal |->
        CASE s = "awaiting_funding" -> {"queued", "failed", "cancelled"}
          [] s = "queued"           -> {"planning"} \cup Stop
          [] s = "planning"         -> {"implementing"} \cup Stop
          [] s = "implementing"     -> {"executing"} \cup Stop
          [] s = "executing"        -> {"reviewing", "implementing"} \cup Stop
          [] s = "reviewing"        -> {"verifying", "implementing"} \cup Stop
          [] s = "verifying"        -> {"completed", "implementing"} \cup Stop
          [] s = "waiting_user"     -> Runnable \cup {"failed", "cancelled"}
          [] OTHER                  -> {}]

\* Ledger reservations of the build: 0 is its budget, c the raise approved with change c.
ReservationId == 0..MaxChanges

VARIABLES
    row,      \* the build's data columns, with the revision that guards them
    lease,    \* [token, live]
    money,    \* [ceiling, spent, reserved]: columns no save ever writes
    spend,    \* the build's spend records
    changes,  \* change requests and the build's own questions
    ledger,   \* [held, credit, consumed, res, taken, captured, credited, paid]
    tick,     \* what each slot holds of its claim
    request,  \* what each request holds
    creator,  \* how far the creating request came
    faults, edits

vars == <<row, lease, money, spend, changes, ledger, tick, request, creator, faults, edits>>

NoRow == [state |-> "none", resume |-> "none", decision |-> 0, rev |-> 0, due |-> FALSE,
          implement |-> 0, transient |-> 0, invalid |-> 0,
          seen |-> {}, known |-> <<>>, settlement |-> "none"]
IdleTick == [at |-> "idle", task |-> NoRow, next |-> NoRow, read |-> {}, orphans |-> {}, k |-> 0,
             ceiling |-> 0, spent |-> 0]
IdleRequest == [at |-> "idle", task |-> NoRow, change |-> 0, max |-> 0, delta |-> 0]

Init ==
    /\ row = NoRow
    /\ lease = [token |-> NoOne, live |-> FALSE]
    /\ money = [ceiling |-> Budget, spent |-> 0, reserved |-> 0]
    /\ spend = {}
    /\ changes = <<>>
    /\ ledger = [held |-> Wallet.held, credit |-> Wallet.credit, consumed |-> 0,
                 res |-> [i \in ReservationId |-> 0], taken |-> <<>>, captured |-> {}, credited |-> FALSE,
                 paid |-> FALSE]
    /\ tick = [w \in Tick |-> IdleTick]
    /\ request = [q \in Request |-> IdleRequest]
    /\ creator = "none"
    /\ faults = 0
    /\ edits = 0

-----------------------------------------------------------------------------
(* States.                                                                 *)

ResumeTarget(task, to) ==
    IF to = "implementing" /\ task.state \in Live THEN "implementing" ELSE task.state

\* The row moved to state s; scheduling follows from the state.  d is the question a
\* stop asks and r where its answer resumes.
Transition(task, s, d, r) ==
    [task EXCEPT !.state = s,
                 !.resume = IF s = "waiting_user" THEN ResumeTarget(task, r) ELSE "none",
                 !.decision = IF s = "waiting_user" THEN d ELSE 0,
                 !.due = s \in Runnable]

MoveTo(task, s) == Transition(task, s, 0, task.state)

MayMove(task, s) ==
    /\ s \in MayBecome[task.state]
    /\ task.state = "waiting_user" => s \in {task.resume, "failed", "cancelled"}

-----------------------------------------------------------------------------
(* The store: every operator is one statement or one transaction.          *)

\* A faulty variant: the lease alone guards a save.
MaySaveAnyRevision(rev, holder) ==
    holder # NoOne => lease = [token |-> holder, live |-> TRUE]

\* Compare-and-set on the revision; a worker must also hold the lease still.
MaySave(rev, holder) ==
    /\ row.rev = rev
    /\ holder # NoOne => lease = [token |-> holder, live |-> TRUE]

Saved(next) == [next EXCEPT !.rev = row.rev + 1]

SpendOf(rev, k) == {s \in spend : s.rev = rev /\ s.k = k}

\* A faulty variant: what other calls hold is not counted.
ReserveFitsSpent(amount) == money.spent + amount <= money.ceiling

ReserveFits(amount) == money.spent + money.reserved + amount <= money.ceiling

ReserveSpend(rev, k, amount) ==
    /\ spend' = spend \cup {[rev |-> rev, k |-> k, amount |-> amount,
                             status |-> "reserved", charged |-> 0]}
    /\ money' = [money EXCEPT !.reserved = @ + amount]

\* Settles a reservation that is still reserved.  What a call cost above it is an overrun
\* nobody is charged.
SettleSpend(s, status, actual) ==
    LET charged == IF status = "captured" THEN Min({actual, s.amount}) ELSE 0
    IN  /\ spend' = (spend \ {s}) \cup {[s EXCEPT !.status = status, !.charged = charged]}
        /\ money' = [money EXCEPT !.reserved = @ - s.amount, !.spent = @ + charged]

NewChange(kind, status, needed) ==
    changes' = Append(changes, [kind |-> kind, status |-> status, needed |-> needed,
                                within |-> needed <= money.ceiling])

\* What the owner wants in the code; the build's own questions are not.
AppliedChanges ==
    {c \in DOMAIN changes : /\ changes[c].kind # "question"
                            /\ changes[c].status \in {"applied", "approved"}}

-----------------------------------------------------------------------------
(* The ledger: every operator is one unit of work under the owner's lock.  *)

Posted == {i \in ReservationId : ledger.res[i] > 0}

Shortfall(amount) == Max({0, amount - ledger.held})

MayReserveLedger(i, amount) == i \in Posted \/ Shortfall(amount) <= ledger.credit

\* Credit covers what the purchased budget lacks.  A reservation already posted under this
\* id is returned as it is.
ReserveLedger(i, amount) ==
    ledger' = IF i \in Posted THEN ledger
              ELSE [ledger EXCEPT !.credit = @ - Shortfall(amount),
                                  !.held = @ + Shortfall(amount) - amount,
                                  !.res[i] = amount, !.taken = Append(@, i)]

\* The build's own list first, then what only the ledger knows, in the order posted; and
\* the base budget before every raise.
SettledBefore(known, j, i) ==
    LET unknown == SelectSeq(ledger.taken, LAMBDA k : k \notin Range(known))
        order   == known \o unknown
        at(k)   == CHOOSE n \in DOMAIN order : order[n] = k
    IN  j # i /\ i # 0 /\ (j = 0 \/ at(j) < at(i))

\* What reservation i pays of a build that spent so much: in order, each within itself.
Allocation(known, i, spent) ==
    LET earlier == MapThenSumSet(LAMBDA j : ledger.res[j], {j \in Posted : SettledBefore(known, j, i)})
    IN  Min({ledger.res[i], Max({0, spent - earlier})})

\* A faulty variant: captures are not keyed on their reservation.
EveryPosted == Posted

Uncaptured == Posted \ ledger.captured

\* What issueDevelopmentCredit moves from the held to the credit account; the posting is
\* keyed by the build, so credit is issued once.
CreditDue(reserved, spent) == IF ledger.credited THEN 0 ELSE reserved - spent

\* Captures every reservation of a build that is said to have spent so much and turns the
\* unused rest into credit; every posting is keyed, so what was posted before is not posted
\* again.  No balance is looked at.
SettleLedger(known, read) ==
    LET reserved == MapThenSumSet(LAMBDA i : ledger.res[i], Posted)
        spent    == Min({read, reserved})
        new      == Uncaptured
        paid     == MapThenSumSet(LAMBDA i : Allocation(known, i, spent), new)
        back     == MapThenSumSet(LAMBDA i : ledger.res[i] - Allocation(known, i, spent), new)
        unused   == CreditDue(reserved, spent)
    IN  ledger' = [ledger EXCEPT !.captured = Posted,
                                 !.consumed = @ + paid,
                                 !.held = @ + back - unused,
                                 !.credit = @ + unused,
                                 !.credited = @ \/ unused > 0]

\* A verified payment is recorded once, however often it is reported.
RecordPurchase ==
    /\ ~ledger.paid
    /\ ledger' = [ledger EXCEPT !.held = @ + Payment, !.paid = TRUE]
    /\ UNCHANGED <<row, lease, money, spend, changes, tick, request, creator, faults, edits>>

-----------------------------------------------------------------------------
(* Creating a build: insert, reserve the whole budget, queue.              *)

InsertBuild ==
    /\ creator = "none"
    /\ ledger.held + ledger.credit >= Budget
    /\ creator' = "inserted"
    /\ row' = [NoRow EXCEPT !.state = "awaiting_funding", !.due = TRUE]
    /\ UNCHANGED <<lease, money, spend, changes, ledger, tick, request, faults, edits>>

SecureBuild ==
    /\ creator = "inserted"
    /\ IF MayReserveLedger(0, Budget)
       THEN ReserveLedger(0, Budget) /\ creator' = "secured"
       ELSE creator' = "refused" /\ UNCHANGED ledger
    /\ UNCHANGED <<row, lease, money, spend, changes, tick, request, faults, edits>>

\* Saved against the revision that was inserted; a build changed meanwhile is left alone.
QueueBuild ==
    /\ creator \in {"secured", "refused"}
    /\ creator' = "done"
    /\ row' = IF ~MaySave(0, NoOne) THEN row
              ELSE IF creator = "refused" THEN Saved(MoveTo(row, "failed"))
              ELSE Saved(MoveTo([row EXCEPT !.known = <<0>>], "queued"))
    /\ UNCHANGED <<lease, money, spend, changes, ledger, tick, request, faults, edits>>

CreatorDies ==
    /\ creator \in {"inserted", "secured", "refused"} /\ faults < MaxFaults
    /\ creator' = "done" /\ faults' = faults + 1
    /\ UNCHANGED <<row, lease, money, spend, changes, ledger, tick, request, edits>>

-----------------------------------------------------------------------------
(* A tick.                                                                 *)

\* The recovery time of an unfunded build is long past the end of its creating request.
Claim(w) ==
    /\ tick[w].at = "idle" /\ row.due /\ ~lease.live
    /\ row.state = "awaiting_funding" => creator = "done"
    /\ lease' = [token |-> w, live |-> TRUE]
    /\ tick' = [tick EXCEPT ![w] = [IdleTick EXCEPT !.at = "claimed", !.task = row,
                        !.ceiling = IF row.state = "awaiting_funding" THEN money.ceiling ELSE 0]]
    /\ UNCHANGED <<row, money, spend, changes, ledger, request, creator, faults, edits>>

Go(w, at) == tick' = [tick EXCEPT ![w].at = at]
Leave(w) == tick' = [tick EXCEPT ![w] = [IdleTick EXCEPT !.at = "done"]]
\* The tick has computed the row it wants to save.
Propose(w, next) == tick' = [tick EXCEPT ![w].at = "save", ![w].next = next]

\* After the orphans: a finished build is settled, any other worked on.
AfterOrphans(task) == IF task.state \in Terminal THEN "settle" ELSE "work"

\* What earlier ticks left reserved is listed, then released record by record.
ListOrphans(w) ==
    LET task == tick[w].task
        left == {s \in spend : /\ s.status = "reserved"
                               /\ s.rev # task.rev \/ task.state \in Terminal}
    IN  /\ tick[w].at = "claimed"
        /\ tick' = [tick EXCEPT ![w].at = IF left = {} THEN AfterOrphans(task) ELSE "orphans",
                                ![w].orphans = left]
        /\ UNCHANGED <<row, lease, money, spend, changes, ledger, request, creator, faults, edits>>

Pass(w, s) ==
    tick' = [tick EXCEPT ![w].at = IF tick[w].orphans = {s} THEN AfterOrphans(tick[w].task) ELSE "orphans",
                         ![w].orphans = @ \ {s}]

\* One that was settled since it was listed refuses, which is ignored.
ReleaseOrphan(w) ==
    /\ tick[w].at = "orphans"
    /\ \E s \in tick[w].orphans :
          /\ IF s \in spend /\ s.status = "reserved" THEN SettleSpend(s, "released", 0)
             ELSE UNCHANGED <<spend, money>>
          /\ Pass(w, s)
    /\ UNCHANGED <<row, lease, changes, ledger, request, creator, faults, edits>>

\* So is a failing release.
OrphanStays(w) ==
    /\ tick[w].at = "orphans" /\ faults < MaxFaults /\ faults' = faults + 1
    /\ \E s \in tick[w].orphans : Pass(w, s)
    /\ UNCHANGED <<row, lease, money, spend, changes, ledger, request, creator, edits>>

Failed(task) == MoveTo(task, "failed")

\* The rejected answer is asked for again at once, an outside failure after a pause, and
\* neither for ever; everything else ends the build.
AfterFailure(task, kind) ==
    IF kind = "invalid" /\ task.invalid < MaxInvalid
    THEN [task EXCEPT !.invalid = @ + 1, !.due = TRUE]
    ELSE IF kind = "transient" /\ task.transient < MaxTransient
    THEN [task EXCEPT !.transient = @ + 1, !.due = TRUE]
    ELSE Failed(task)

Rework(task) ==
    IF task.implement >= MaxImplement THEN Failed(task) ELSE MoveTo(task, "implementing")

Fresh(task) == [task EXCEPT !.transient = 0, !.invalid = 0]

RecoverFunding(w) ==
    LET task == tick[w].task
    IN  /\ tick[w].at = "work" /\ task.state = "awaiting_funding"
        /\ IF MayReserveLedger(0, tick[w].ceiling)
           THEN /\ ReserveLedger(0, tick[w].ceiling)
                /\ Propose(w, MoveTo([task EXCEPT !.known = <<0>>], "queued"))
           ELSE UNCHANGED ledger /\ Propose(w, Failed(task))
        /\ UNCHANGED <<row, lease, money, spend, changes, request, creator, faults, edits>>

\* Steps that call no model.
Start(w) ==
    /\ tick[w].at = "work" /\ tick[w].task.state = "queued"
    /\ Propose(w, MoveTo(tick[w].task, "planning"))
    /\ UNCHANGED <<row, lease, money, spend, changes, ledger, request, creator, faults, edits>>

Execute(w) ==
    /\ tick[w].at = "work" /\ tick[w].task.state = "executing"
    /\ \E next \in {MoveTo(tick[w].task, "reviewing"), Rework(tick[w].task)} : Propose(w, next)
    /\ UNCHANGED <<row, lease, money, spend, changes, ledger, request, creator, faults, edits>>

\* A change the owner asked for after this code was written is not in it.
Verify(w) ==
    LET task   == Fresh(tick[w].task)
        passed == IF AppliedChanges \subseteq task.seen THEN "completed" ELSE "implementing"
    IN  /\ tick[w].at = "work" /\ task.state = "verifying"
        /\ \E next \in {MoveTo(task, passed), Rework(task)} : Propose(w, next)
        /\ UNCHANGED <<row, lease, money, spend, changes, ledger, request, creator, faults, edits>>

\* Outside failures are faults of the environment.
LocalFails(w) ==
    LET task == tick[w].task
    IN  /\ tick[w].at = "work" /\ task.state \in {"queued", "executing", "verifying"}
        /\ faults < MaxFaults /\ faults' = faults + 1
        /\ \E kind \in {"transient", "refused"} : Propose(w, AfterFailure(task, kind))
        /\ UNCHANGED <<row, lease, money, spend, changes, ledger, request, creator, edits>>

\* Before a model call: the implementer reads what the owner asked for.
Prepare(w) ==
    LET task == tick[w].task
    IN  /\ tick[w].at = "work" /\ task.state \in {"planning", "implementing", "reviewing"}
        /\ IF task.state = "implementing" /\ task.implement >= MaxImplement
           THEN Propose(w, Failed(task))
           ELSE tick' = [tick EXCEPT ![w].at = "reserve",
                                     ![w].read = IF task.state = "implementing" THEN AppliedChanges ELSE {}]
        /\ UNCHANGED <<row, lease, money, spend, changes, ledger, request, creator, faults, edits>>

\* A faulty variant: the step is charged again.
RerunAtFullCost == CallCost

\* A step that had settled and runs again is RazeKit's failure, not the customer's.
RerunAmount == 0

\* Money before work.  The id of the reservation is the build, its revision and the step, so
\* a step that runs again finds it.
Reserve(w) ==
    LET rev  == tick[w].task.rev
        mine == SpendOf(rev, 0)
        next == Cardinality({s \in spend : s.rev = rev})
        use(k) == tick' = [tick EXCEPT ![w].at = "call", ![w].k = k]
    IN  /\ tick[w].at = "reserve"
        /\ \/ /\ mine = {} /\ ReserveFits(CallCost)
              /\ ReserveSpend(rev, 0, CallCost) /\ use(0)
           \/ /\ \E s \in mine : s.status = "reserved"
              /\ use(0) /\ UNCHANGED <<spend, money>>
           \/ /\ \E s \in mine : s.status # "reserved"
              /\ ReserveFits(RerunAmount)
              /\ ReserveSpend(rev, next, RerunAmount) /\ use(next)
           \/ /\ mine = {} /\ ~ReserveFits(CallCost)
              /\ Go(w, "exceeded") /\ UNCHANGED <<spend, money>>
        /\ UNCHANGED <<row, lease, changes, ledger, request, creator, faults, edits>>

\* The store takes a change as long as there is room in the model; then it fails.
Room == Len(changes) < MaxChanges

\* The question is on record before the build stops to wait for its answer.
AskForBudget(w) ==
    LET task == tick[w].task
    IN  /\ tick[w].at = "exceeded"
        /\ \/ /\ Room
              /\ NewChange("question", "pending", money.spent + money.reserved + CallCost)
              /\ Propose(w, Transition(task, "waiting_user", Len(changes) + 1, task.state))
           \/ ~Room /\ Leave(w) /\ UNCHANGED changes
        /\ UNCHANGED <<row, lease, money, spend, ledger, request, creator, faults, edits>>

\* The call answered and its cost is captured, once.
Captured(w) ==
    /\ tick[w].at = "call"
    /\ \E s \in SpendOf(tick[w].task.rev, tick[w].k) :
          \/ s.status = "reserved" /\ SettleSpend(s, "captured", CallCost)
          \/ s.status = "captured" /\ UNCHANGED <<spend, money>>
    /\ UNCHANGED <<row, lease, changes, ledger, request, creator, faults, edits>>

Plan(w) ==
    /\ tick[w].task.state = "planning" /\ Captured(w)
    /\ Propose(w, MoveTo(Fresh(tick[w].task), "implementing"))

Implement(w) ==
    LET after == [Fresh(tick[w].task) EXCEPT !.implement = @ + 1, !.seen = tick[w].read]
    IN  /\ tick[w].task.state = "implementing" /\ Captured(w)
        /\ Propose(w, MoveTo(after, "executing"))

\* The reviewer passes the work, wants it revised or blocks it.
Review(w) ==
    LET after == Fresh(tick[w].task)
    IN  /\ tick[w].task.state = "reviewing" /\ Captured(w)
        /\ \/ Propose(w, MoveTo(after, "verifying"))
           \/ Propose(w, Rework(after))
           \/ Go(w, "blocked")

AskAboutReview(w) ==
    /\ tick[w].at = "blocked"
    /\ \/ /\ Room
          /\ NewChange("question", "pending", money.spent + money.reserved)
          /\ Propose(w, Transition(Fresh(tick[w].task), "waiting_user", Len(changes) + 1, "implementing"))
       \/ ~Room /\ Propose(w, AfterFailure(tick[w].task, "transient")) /\ UNCHANGED changes
    /\ UNCHANGED <<row, lease, money, spend, ledger, request, creator, faults, edits>>

\* The call failed: an unusable answer is charged, no answer is not.  A reservation that
\* another tick of this revision settled the other way refuses, and that is no failure to retry.
CallFails(w) ==
    LET task == tick[w].task
    IN  /\ tick[w].at = "call" /\ faults < MaxFaults /\ faults' = faults + 1
        /\ \E s \in SpendOf(task.rev, tick[w].k), kind \in {"invalid", "transient", "refused"} :
              LET to == IF kind = "invalid" THEN "captured" ELSE "released"
              IN  /\ IF s.status = "reserved" THEN SettleSpend(s, to, CallCost)
                     ELSE UNCHANGED <<spend, money>>
                  /\ Propose(w, IF s.status \in {"reserved", to} THEN AfterFailure(task, kind)
                                ELSE Failed(task))
        /\ UNCHANGED <<row, lease, changes, ledger, request, creator, edits>>

\* The same for an answer whose reservation was released meanwhile.
MeterRefused(w) ==
    LET task == tick[w].task
    IN  /\ tick[w].at = "call"
        /\ \E s \in SpendOf(task.rev, tick[w].k) : s.status = "released"
        /\ Propose(w, Failed(task))
        /\ UNCHANGED <<row, lease, money, spend, changes, ledger, request, creator, faults, edits>>

\* A build that a step of its work, or the failure of one, finished is settled next; one
\* that could not be funded is not.
Save(w) ==
    /\ tick[w].at = "save"
    /\ IF MaySave(tick[w].task.rev, w)
       THEN /\ row' = Saved(tick[w].next)
            /\ IF row'.state \in Terminal /\ tick[w].task.state \in Runnable
               THEN tick' = [tick EXCEPT ![w] = [IdleTick EXCEPT !.at = "settle", !.task = row']]
               ELSE Leave(w)
       ELSE Leave(w) /\ UNCHANGED row
    /\ UNCHANGED <<lease, money, spend, changes, ledger, request, creator, faults, edits>>

\* A finished build is settled on the row as it is when read, what it spent included; the
\* save that records it presents the revision this tick last saw.
ReadToSettle(w) ==
    /\ tick[w].at = "settle"
    /\ IF row.settlement # "settled"
       THEN tick' = [tick EXCEPT ![w].at = "unsettled", ![w].next = row, ![w].spent = money.spent]
       ELSE IF row.due THEN Propose(w, [row EXCEPT !.due = FALSE]) ELSE Leave(w)
    /\ UNCHANGED <<row, lease, money, spend, changes, ledger, request, creator, faults, edits>>

Settle(w) ==
    LET fresh == tick[w].next
    IN  /\ tick[w].at = "unsettled"
        /\ SettleLedger(fresh.known, tick[w].spent)
        /\ Propose(w, [fresh EXCEPT !.settlement = "settled", !.due = FALSE])
        /\ UNCHANGED <<row, lease, money, spend, changes, request, creator, faults, edits>>

SettlementPending(r) == [r EXCEPT !.settlement = "pending", !.due = TRUE]

SettleFails(w) ==
    /\ tick[w].at = "unsettled"
    /\ faults < MaxFaults /\ faults' = faults + 1
    /\ Propose(w, SettlementPending(tick[w].next))
    /\ UNCHANGED <<row, lease, money, spend, changes, ledger, request, creator, edits>>

ReleaseLease(w) ==
    /\ tick[w].at = "done"
    /\ lease' = IF lease.token = w THEN [token |-> NoOne, live |-> FALSE] ELSE lease
    /\ tick' = [tick EXCEPT ![w] = IdleTick]
    /\ UNCHANGED <<row, money, spend, changes, ledger, request, creator, faults, edits>>

\* The process dies; its lease is left to lapse.
Crash(w) ==
    /\ tick[w].at # "idle" /\ faults < MaxFaults /\ faults' = faults + 1
    /\ tick' = [tick EXCEPT ![w] = IdleTick]
    /\ UNCHANGED <<row, lease, money, spend, changes, ledger, request, creator, edits>>

\* A lease nobody extends: its holder is gone, or too stalled to reach the store.
LeaseLapses ==
    /\ lease.live
    /\ lease' = [lease EXCEPT !.live = FALSE]
    /\ IF tick[lease.token].at = "idle" THEN UNCHANGED faults
       ELSE faults < MaxFaults /\ faults' = faults + 1
    /\ UNCHANGED <<row, money, spend, changes, ledger, tick, request, creator, edits>>

-----------------------------------------------------------------------------
(* The owner.                                                              *)

Exists == row.state # "none"

\* A change to the latest version of the row, retried until no worker saves in between.
MutateFresh(next) == row' = Saved(next)

Retitle ==
    /\ Exists /\ edits < MaxEdits /\ edits' = edits + 1
    /\ MutateFresh(row)
    /\ UNCHANGED <<lease, money, spend, changes, ledger, tick, request, creator, faults>>

\* A refinement applies on arrival; anything beyond the build's bounds waits for approval.
Command ==
    /\ Exists /\ row.state \notin Terminal
    /\ Room /\ edits < MaxEdits /\ edits' = edits + 1
    /\ \/ NewChange("refinement", "applied", money.spent + money.reserved)
       \/ NewChange("boundary", "pending", money.spent + money.reserved + CallCost)
    /\ UNCHANGED <<row, lease, money, spend, ledger, tick, request, creator, faults>>

\* The build stopped: what is left is for a worker to settle.
Stopped(r) == SettlementPending(MoveTo(r, "cancelled"))

Cancel ==
    /\ Exists /\ row.state \notin Terminal
    /\ MutateFresh(Stopped(row))
    /\ UNCHANGED <<lease, money, spend, changes, ledger, tick, request, creator, faults, edits>>

Ask(q, new) == request' = [request EXCEPT ![q] = new]

\* The request reads the build and the change; a higher ceiling has to be offered when the
\* change was found not to fit.
Approve(q, c, max) ==
    LET needed == IF changes[c].within THEN money.ceiling ELSE Max({money.ceiling, changes[c].needed})
    IN  /\ request[q].at = "idle" /\ changes[c].status = "pending"
        /\ ~changes[c].within => max >= needed
        /\ Ask(q, [IdleRequest EXCEPT !.at = IF max > money.ceiling THEN "secure" ELSE "resolve",
                                      !.task = row, !.change = c, !.max = max,
                                      !.delta = max - money.ceiling])
        /\ UNCHANGED <<row, lease, money, spend, changes, ledger, tick, creator, faults, edits>>

\* Money first: the raise is reserved on the ledger under the id of the change.
SecureIncrease(q) ==
    /\ request[q].at = "secure"
    /\ IF MayReserveLedger(request[q].change, request[q].delta)
       THEN /\ ReserveLedger(request[q].change, request[q].delta)
            /\ Ask(q, [request[q] EXCEPT !.at = "raise"])
       ELSE Ask(q, IdleRequest) /\ UNCHANGED ledger
    /\ UNCHANGED <<row, lease, money, spend, changes, tick, creator, faults, edits>>

RaiseBudget(q) ==
    /\ request[q].at = "raise"
    /\ money' = [money EXCEPT !.ceiling = Max({@, request[q].max})]
    /\ Ask(q, [request[q] EXCEPT !.at = "record"])
    /\ UNCHANGED <<row, lease, spend, changes, ledger, tick, creator, faults, edits>>

RecordRaise(q) ==
    /\ request[q].at = "record"
    /\ IF request[q].change \in Range(row.known) THEN UNCHANGED row
       ELSE MutateFresh([row EXCEPT !.known = Append(@, request[q].change)])
    /\ Ask(q, [request[q] EXCEPT !.at = "resolve", !.task = row'])
    /\ UNCHANGED <<lease, money, spend, changes, ledger, tick, creator, faults, edits>>

\* Exactly one request decides a change; a build this request saw waiting for it resumes.
ResolveChange(q) ==
    LET c == request[q].change
        t == request[q].task
    IN  /\ request[q].at = "resolve"
        /\ IF changes[c].status # "pending" THEN Ask(q, IdleRequest) /\ UNCHANGED changes
           ELSE /\ changes' = [changes EXCEPT ![c].status = "approved"]
                /\ Ask(q, IF t.state = "waiting_user" /\ t.decision = c
                          THEN [request[q] EXCEPT !.at = "resume"] ELSE IdleRequest)
        /\ UNCHANGED <<row, lease, money, spend, ledger, tick, creator, faults, edits>>

Resume(q) ==
    LET t == request[q].task
    IN  /\ request[q].at = "resume"
        /\ IF MaySave(t.rev, NoOne) /\ MayMove(t, t.resume)
           THEN row' = Saved(MoveTo(t, t.resume)) ELSE UNCHANGED row
        /\ Ask(q, IdleRequest)
        /\ UNCHANGED <<lease, money, spend, changes, ledger, tick, creator, faults, edits>>

\* Declining the question a build stopped for stops the build.
Deny(q, c) ==
    /\ request[q].at = "idle" /\ changes[c].status = "pending"
    /\ changes' = [changes EXCEPT ![c].status = "denied"]
    /\ Ask(q, IF row.state = "waiting_user" /\ row.decision = c
              THEN [IdleRequest EXCEPT !.at = "finish"] ELSE IdleRequest)
    /\ UNCHANGED <<row, lease, money, spend, ledger, tick, creator, faults, edits>>

Finish(q) ==
    /\ request[q].at = "finish"
    /\ IF row.state \in Terminal THEN UNCHANGED row ELSE MutateFresh(Stopped(row))
    /\ Ask(q, IdleRequest)
    /\ UNCHANGED <<lease, money, spend, changes, ledger, tick, creator, faults, edits>>

RequestDies(q) ==
    /\ request[q].at # "idle" /\ faults < MaxFaults /\ faults' = faults + 1
    /\ Ask(q, IdleRequest)
    /\ UNCHANGED <<row, lease, money, spend, changes, ledger, tick, creator, edits>>

-----------------------------------------------------------------------------
Step(w) ==
    \/ Claim(w) \/ ListOrphans(w) \/ ReleaseOrphan(w) \/ RecoverFunding(w) \/ Start(w) \/ Prepare(w)
    \/ Reserve(w) \/ AskForBudget(w) \/ Plan(w) \/ Implement(w) \/ Review(w)
    \/ AskAboutReview(w) \/ Execute(w) \/ Verify(w) \/ MeterRefused(w)
    \/ Save(w) \/ ReadToSettle(w) \/ Settle(w) \/ ReleaseLease(w)

Break(w) == OrphanStays(w) \/ LocalFails(w) \/ CallFails(w) \/ SettleFails(w) \/ Crash(w)

Handle(q) ==
    \/ SecureIncrease(q) \/ RaiseBudget(q) \/ RecordRaise(q) \/ ResolveChange(q)
    \/ Resume(q) \/ Finish(q)

Owner ==
    \/ RecordPurchase \/ Retitle \/ Command \/ Cancel
    \/ \E q \in Request, c \in DOMAIN changes :
          Deny(q, c) \/ \E max \in {0} \cup Budget..MaxBudget : Approve(q, c, max)
    \/ \E q \in Request : Handle(q) \/ RequestDies(q)

Create == InsertBuild \/ SecureBuild \/ QueueBuild \/ CreatorDies

Next == Create \/ LeaseLapses \/ Owner \/ \E w \in Tick : Step(w) \/ Break(w)

Spec == Init /\ [][Next]_vars

-----------------------------------------------------------------------------
(* Properties.                                                             *)

(* The columns the governor checks are what the records say, and however many ticks,      *)
(* stalled ones included, reserve, capture and release, they never pass the ceiling.      *)
BudgetColumnsAgree ==
    /\ money.reserved = MapThenSumSet(LAMBDA s : s.amount, {s \in spend : s.status = "reserved"})
    /\ money.spent = MapThenSumSet(LAMBDA s : s.charged, spend)
    /\ money.spent + money.reserved <= money.ceiling

(* The customer pays once for one attempt at one step: a run of it that settled before its *)
(* worker died, or that a stalled worker repeats, is on RazeKit's account.                 *)
StepChargedOnce ==
    \A s, t \in spend : s.rev = t.rev /\ s.charged > 0 /\ t.charged > 0 => s = t

\* Whatever is posted moves money and makes none: what the owner holds, is owed, has spent
\* and has reserved is what there was and what was paid.
NothingIsLost ==
    ledger.held + ledger.credit + ledger.consumed
        + MapThenSumSet(LAMBDA i : ledger.res[i], {i \in ReservationId : i \notin ledger.captured})
    = Wallet.held + Wallet.credit + (IF ledger.paid THEN Payment ELSE 0)

(* The ledger consumes no more than the build spent, however often it is settled: funding  *)
(* allocates the spend "to reservations in the order they were taken, so each capture      *)
(* stays within its own reservation", so that "settling twice posts nothing the second     *)
(* time".                                                                                  *)
SettledWithinSpend == ledger.consumed <= money.spent

(* Settling a build more than once, by workers that died, lost their save or settle on   *)
(* what they read long ago, with a raise taken in between, neither makes nor loses money: *)
(* the owner's credit and what it can spend of budget and credit together never fall      *)
(* below zero and, as long as the build took one raise at most, the ledger consumes no    *)
(* more than the build spent. (With two raises SettledWithinSpend fails; the purchased    *)
(* budget alone may fall below zero, because a stale settlement turns into credit what    *)
(* another one consumed.)                                                                 *)
LedgerBalances ==
    /\ NothingIsLost
    /\ ledger.credit >= 0 /\ ledger.held + ledger.credit >= 0
    /\ Len(ledger.taken) <= 2 => SettledWithinSpend

(* A finished build stays as it finished: no worker that lost its lease, no late answer   *)
(* to a question and no failing step of the creating request revives or relabels it.      *)
TerminalIsFinal == [][row.state \in Terminal => row'.state = row.state]_vars
=============================================================================
