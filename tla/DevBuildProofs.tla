---------------------------- MODULE DevBuildProofs ----------------------------
(***************************************************************************)
(* Theorems about the builds of DevBuild, for any number of workers and    *)
(* requests, any budget, any limits and any number of faults.              *)
(***************************************************************************)
EXTENDS DevBuild, FiniteSetTheorems, WellFoundedInduction, TLAPS

-----------------------------------------------------------------------------
(* Rows and what is remembered of them                                     *)

\* A row of a build, with its columns.
Column == {"state", "resume", "decision", "rev", "due", "implement", "transient", "invalid",
           "seen", "known", "settlement"}
IsRow(r) == r = [c \in Column |-> r[c]] /\ r.rev \in Nat

\* A copy of a row is older, or tells its state.
IsCopyOf(copy, r) ==
    copy.rev <= r.rev /\ (copy.rev = r.rev => copy.state = r.state)

Working == {"work", "reserve", "exceeded", "call", "blocked"}

\* What a tick holds of its claim, while the row is r: it works on builds that
\* go on, and what it would save relabels no finished build.
TickOK(x, r) ==
    /\ x = [f \in {"at", "task", "next", "read", "orphans", "k", "ceiling", "spent"} |-> x[f]]
    /\ IsRow(x.task) /\ IsRow(x.next)
    /\ x.at \in {"idle", "done", "claimed", "orphans", "settle", "unsettled", "save"} \cup Working
    /\ x.at \notin {"idle", "done"} => IsCopyOf(x.task, r)
    /\ x.at \in Working => x.task.state \notin Terminal
    /\ x.at \in {"unsettled", "save"} /\ x.task.rev = r.rev /\ r.state \in Terminal
          => x.next.state = r.state

\* What a request holds: what it resumes was waiting.
RequestOK(x, r) ==
    /\ x = [f \in {"at", "task", "change", "max", "delta"} |-> x[f]]
    /\ IsRow(x.task)
    /\ x.at \notin {"idle", "finish"} => IsCopyOf(x.task, r)
    /\ x.at = "resume" => x.task.state = "waiting_user"

\* Before its creating request has inserted the build there is nothing.
Unborn ==
    /\ row = NoRow /\ changes = <<>>
    /\ \A w \in Tick : tick[w].at = "idle"
    /\ \A q \in Request : request[q].at = "idle"

BuildInv ==
    /\ IsRow(row) /\ (row.rev = 0 => row.state \in {"none", "awaiting_funding"})
    /\ tick = [w \in Tick |-> tick[w]] /\ \A w \in Tick : TickOK(tick[w], row)
    /\ request = [q \in Request |-> request[q]] /\ \A q \in Request : RequestOK(request[q], row)
    /\ creator = "none" => Unborn

-----------------------------------------------------------------------------
(* What is done to a row                                                    *)

LEMMA NoRowIsRow == IsRow(NoRow) /\ NoRow.rev = 0 /\ NoRow.state = "none" /\ NoRow.due = FALSE
BY DEF IsRow, NoRow, Column

LEMMA TransitionIsRow ==
    ASSUME NEW r, IsRow(r), NEW s, NEW d, NEW to
    PROVE  IsRow(Transition(r, s, d, to)) /\ Transition(r, s, d, to).state = s
           /\ Transition(r, s, d, to).rev = r.rev
<1> DEFINE a == IF s = "waiting_user" THEN ResumeTarget(r, to) ELSE "none"
           b == IF s = "waiting_user" THEN d ELSE 0
           c == s \in Runnable
           n == [r EXCEPT !.state = s, !.resume = a, !.decision = b, !.due = c]
<1>1. Transition(r, s, d, to) = n
  BY DEF Transition
<1> HIDE DEF a, b, c
<1>2. IsRow(n) /\ n.state = s /\ n.rev = r.rev
  BY DEF IsRow, Column
<1> QED BY <1>1, <1>2

LEMMA MoveIsRow ==
    ASSUME NEW r, IsRow(r), NEW s
    PROVE  IsRow(MoveTo(r, s)) /\ MoveTo(r, s).state = s /\ MoveTo(r, s).rev = r.rev
BY TransitionIsRow DEF MoveTo

\* Columns that are written leave state and revision.
Alike(n, r) == IsRow(n) /\ n.state = r.state /\ n.rev = r.rev

LEMMA ColumnsOfRow ==
    ASSUME NEW r, IsRow(r), NEW u, NEW v
    PROVE  /\ Alike([r EXCEPT !.transient = u, !.invalid = v], r)
           /\ Alike([r EXCEPT !.transient = u, !.due = v], r)
           /\ Alike([r EXCEPT !.invalid = u, !.due = v], r)
           /\ Alike([r EXCEPT !.implement = u, !.seen = v], r)
           /\ Alike([r EXCEPT !.settlement = u, !.due = v], r)
           /\ Alike([r EXCEPT !.known = u], r)
           /\ Alike([r EXCEPT !.due = u], r)
<1>1. Alike([r EXCEPT !.transient = u, !.invalid = v], r)
  BY DEF IsRow, Alike, Column
<1>2. Alike([r EXCEPT !.transient = u, !.due = v], r)
  BY DEF IsRow, Alike, Column
<1>3. Alike([r EXCEPT !.invalid = u, !.due = v], r)
  BY DEF IsRow, Alike, Column
<1>4. Alike([r EXCEPT !.implement = u, !.seen = v], r)
  BY DEF IsRow, Alike, Column
<1>5. Alike([r EXCEPT !.settlement = u, !.due = v], r)
  BY DEF IsRow, Alike, Column
<1>6. Alike([r EXCEPT !.known = u], r)
  BY DEF IsRow, Alike, Column
<1>7. Alike([r EXCEPT !.due = u], r)
  BY DEF IsRow, Alike, Column
<1> QED BY <1>1, <1>2, <1>3, <1>4, <1>5, <1>6, <1>7

LEMMA FreshIsRow == ASSUME NEW r, IsRow(r) PROVE Alike(Fresh(r), r)
BY ColumnsOfRow DEF Fresh

LEMMA FailedIsRow == ASSUME NEW r, IsRow(r) PROVE IsRow(Failed(r))
BY MoveIsRow DEF Failed

LEMMA AfterFailureIsRow == ASSUME NEW r, IsRow(r), NEW sort PROVE IsRow(AfterFailure(r, sort))
<1>1. IsRow([r EXCEPT !.invalid = @ + 1, !.due = TRUE]) /\ IsRow([r EXCEPT !.transient = @ + 1, !.due = TRUE])
  BY ColumnsOfRow DEF Alike
<1> QED BY <1>1, FailedIsRow DEF AfterFailure

LEMMA ReworkIsRow == ASSUME NEW r, IsRow(r) PROVE IsRow(Rework(r))
BY MoveIsRow, FailedIsRow DEF Rework

LEMMA PendingIsRow ==
    ASSUME NEW r, IsRow(r)
    PROVE  Alike(SettlementPending(r), r)
BY ColumnsOfRow DEF SettlementPending

\* A save is the next revision.
LEMMA SavedIsRow ==
    ASSUME IsRow(row), NEW next, IsRow(next)
    PROVE  IsRow(Saved(next)) /\ Saved(next).rev = row.rev + 1 /\ Saved(next).state = next.state
<1> DEFINE v == row.rev + 1
<1>1. v \in Nat
  BY DEF IsRow
<1> HIDE DEF v
<1>2. /\ IsRow([next EXCEPT !.rev = v]) /\ [next EXCEPT !.rev = v].rev = v
      /\ [next EXCEPT !.rev = v].state = next.state
  BY <1>1 DEF IsRow, Column
<1> QED BY <1>2 DEF Saved, v

-----------------------------------------------------------------------------
(* A copy grows old                                                         *)

RowStays == row' = row
RowIsNext ==
    /\ IsRow(row') /\ row'.rev = row.rev + 1
    /\ row.state \in Terminal => row'.state = row.state

\* What each step has to show.
BuildKept == BuildInv' /\ (row.state \in Terminal => row'.state = row.state)

LEMMA CopiesAge ==
    ASSUME IsRow(row), RowStays \/ RowIsNext
    PROVE  /\ \A x : TickOK(x, row) => TickOK(x, row')
           /\ \A x : RequestOK(x, row) => RequestOK(x, row')
<1>1. CASE RowStays
  BY <1>1 DEF RowStays
<1>2. CASE RowIsNext
  <2>1. \A copy : IsRow(copy) /\ IsCopyOf(copy, row) => IsCopyOf(copy, row')
    BY <1>2 DEF RowIsNext, IsRow, IsCopyOf
  <2>2. \A x : TickOK(x, row) => TickOK(x, row')
    <3> SUFFICES ASSUME NEW x, TickOK(x, row) PROVE TickOK(x, row')
      OBVIOUS
    <3>1. x.at \in {"unsettled", "save"} => x.task.rev # row'.rev
      <4>1. x.at \in {"unsettled", "save"} => IsCopyOf(x.task, row) /\ IsRow(x.task)
        BY DEF TickOK
      <4> QED BY <1>2, <4>1 DEF IsRow, IsCopyOf, RowIsNext
    <3> QED BY <2>1, <3>1 DEF TickOK
  <2>3. \A x : RequestOK(x, row) => RequestOK(x, row')
    BY <2>1 DEF RequestOK
  <2> QED BY <2>2, <2>3
<1> QED BY <1>1, <1>2

\* What is left of a step, once what it writes is known to be sound.
LEMMA BuildGoesOn ==
    ASSUME BuildInv, RowStays \/ RowIsNext, creator' # "none",
           tick' = [w \in Tick |-> tick'[w]], request' = [q \in Request |-> request'[q]],
           \A w \in Tick : tick'[w] = tick[w] \/ TickOK(tick'[w], row'),
           \A q \in Request : request'[q] = request[q] \/ RequestOK(request'[q], row')
    PROVE  BuildKept
<1>1. IsRow(row') /\ (row'.rev = 0 => row'.state \in {"none", "awaiting_funding"})
  BY DEF BuildInv, RowStays, RowIsNext, IsRow
<1>2. /\ \A w \in Tick : TickOK(tick'[w], row')
      /\ \A q \in Request : RequestOK(request'[q], row')
  BY CopiesAge DEF BuildInv
<1> QED BY <1>1, <1>2 DEF BuildInv, BuildKept, RowStays, RowIsNext

SetTick(w, x) == tick' = [tick EXCEPT ![w] = x]
SetRequest(q, x) == request' = [request EXCEPT ![q] = x]

\* Nothing happens to a build before it is there.
LEMMA BuildIsBorn ==
    ASSUME BuildInv
    PROVE  /\ \A w \in Tick : tick[w].at # "idle" => creator # "none"
           /\ \A q \in Request : request[q].at # "idle" => creator # "none"
           /\ row.due => creator # "none"
           /\ Exists => creator # "none"
           /\ \A c \in DOMAIN changes : creator # "none"
BY NoRowIsRow DEF BuildInv, Unborn, Exists

\* A step of a tick.
LEMMA TickMoves ==
    ASSUME BuildInv, NEW w \in Tick, NEW x, SetTick(w, x), creator # "none",
           RowStays \/ RowIsNext, TickOK(x, row'), UNCHANGED <<request, creator>>
    PROVE  BuildKept
<1>1. /\ tick' = [v \in Tick |-> tick'[v]]
      /\ \A v \in Tick : tick'[v] = IF v = w THEN x ELSE tick[v]
  BY DEF BuildInv, SetTick
<1>2. request' = [q \in Request |-> request'[q]] /\ \A q \in Request : request'[q] = request[q]
  BY DEF BuildInv
<1>3. creator' # "none"
  OBVIOUS
<1>4. \A v \in Tick : tick'[v] = tick[v] \/ TickOK(tick'[v], row')
  BY <1>1
<1> QED BY <1>1, <1>2, <1>3, <1>4, BuildGoesOn

\* A step of a request.
LEMMA RequestMoves ==
    ASSUME BuildInv, NEW q \in Request, NEW x, SetRequest(q, x), creator # "none",
           RowStays \/ RowIsNext, RequestOK(x, row'), UNCHANGED <<tick, creator>>
    PROVE  BuildKept
<1>1. /\ request' = [v \in Request |-> request'[v]]
      /\ \A v \in Request : request'[v] = IF v = q THEN x ELSE request[v]
  BY DEF BuildInv, SetRequest
<1>2. tick' = [w \in Tick |-> tick'[w]] /\ \A w \in Tick : tick'[w] = tick[w]
  BY DEF BuildInv
<1>3. creator' # "none"
  OBVIOUS
<1>4. \A v \in Request : request'[v] = request[v] \/ RequestOK(request'[v], row')
  BY <1>1
<1> QED BY <1>1, <1>2, <1>3, <1>4, BuildGoesOn

\* A step that moves neither.
LEMMA OthersMove ==
    ASSUME BuildInv, creator' # "none", RowStays \/ RowIsNext, UNCHANGED <<tick, request>>
    PROVE  BuildKept
BY BuildGoesOn DEF BuildInv

-----------------------------------------------------------------------------
(* The steps of a tick                                                      *)

\* Nothing a tick holds once it has left.
LEMMA IdleTicks ==
    ASSUME NEW r
    PROVE  TickOK(IdleTick, r) /\ TickOK([IdleTick EXCEPT !.at = "done"], r)
<1>1. IsRow(NoRow)
  BY NoRowIsRow
<1> QED BY <1>1 DEF TickOK, IdleTick, Working

\* A tick that changes its place keeps its claim.
LEMMA GoesTo ==
    ASSUME NEW x, NEW r, TickOK(x, r), x.at \notin {"idle", "done"},
           NEW at \in {"orphans", "settle"} \cup Working,
           at \in Working => x.task.state \notin Terminal
    PROVE  /\ TickOK([x EXCEPT !.at = at], r)
           /\ \A v : /\ TickOK([x EXCEPT !.at = at, !.read = v], r)
                    /\ TickOK([x EXCEPT !.at = at, !.k = v], r)
                    /\ TickOK([x EXCEPT !.at = at, !.orphans = v], r)
<1>1. TickOK([x EXCEPT !.at = at], r)
  BY DEF TickOK, Working
<1>2. \A v : TickOK([x EXCEPT !.at = at, !.read = v], r)
  BY DEF TickOK, Working
<1>3. \A v : TickOK([x EXCEPT !.at = at, !.k = v], r)
  BY DEF TickOK, Working
<1>4. \A v : TickOK([x EXCEPT !.at = at, !.orphans = v], r)
  BY DEF TickOK, Working
<1> QED BY <1>1, <1>2, <1>3, <1>4

LEMMA Proposes ==
    ASSUME NEW x, NEW r, TickOK(x, r), x.at \notin {"idle", "done"}, NEW next, IsRow(next),
           x.task.rev = r.rev /\ r.state \in Terminal => next.state = r.state
    PROVE  /\ TickOK([x EXCEPT !.at = "save", !.next = next], r)
           /\ \A v : TickOK([x EXCEPT !.at = "unsettled", !.next = next, !.spent = v], r)
<1>1. TickOK([x EXCEPT !.at = "save", !.next = next], r)
  BY DEF TickOK, Working
<1>2. \A v : TickOK([x EXCEPT !.at = "unsettled", !.next = next, !.spent = v], r)
  BY DEF TickOK, Working
<1> QED BY <1>1, <1>2

\* While a tick works, its copy is stale or the build goes on.
LEMMA WorksOnLive ==
    ASSUME NEW x, NEW r, TickOK(x, r), x.at \in Working
    PROVE  x.at \notin {"idle", "done"} /\ ~(x.task.rev = r.rev /\ r.state \in Terminal) /\ IsRow(x.task)
           /\ x.task.state \notin Terminal
BY DEF TickOK, Working, IsCopyOf

Quiet == UNCHANGED <<row, request, creator>>

LEMMA GoIs ==
    ASSUME BuildInv, NEW w \in Tick, tick[w].at \notin {"idle", "done"}, Quiet,
           NEW at \in {"orphans", "settle"} \cup Working, at \in Working => tick[w].task.state \notin Terminal,
           \/ Go(w, at)
           \/ \E v : tick' = [tick EXCEPT ![w].at = at, ![w].read = v]
           \/ \E v : tick' = [tick EXCEPT ![w].at = at, ![w].k = v]
           \/ \E v : tick' = [tick EXCEPT ![w].at = at, ![w].orphans = v]
    PROVE  BuildKept
<1> DEFINE x == tick[w]
<1>1. TickOK(x, row) /\ x.at \notin {"idle", "done"} /\ creator # "none" /\ tick = [v \in Tick |-> tick[v]]
  BY BuildIsBorn DEF BuildInv
<1>2. at \in Working => x.task.state \notin Terminal
  OBVIOUS
<1>3. PICK y : TickOK(y, row) /\ SetTick(w, y)
  <2>1. CASE Go(w, at)
    <3>1. SetTick(w, [x EXCEPT !.at = at])
      BY <2>1 DEF Go, SetTick
    <3> HIDE DEF x
    <3> QED BY <1>1, <1>2, <3>1, GoesTo
  <2>2. ASSUME NEW v, tick' = [tick EXCEPT ![w].at = at, ![w].read = v]
        PROVE  \E y : TickOK(y, row) /\ SetTick(w, y)
    <3>1. SetTick(w, [x EXCEPT !.at = at, !.read = v])
      BY <1>1, <2>2 DEF SetTick
    <3> HIDE DEF x
    <3> QED BY <1>1, <1>2, <3>1, GoesTo
  <2>3. ASSUME NEW v, tick' = [tick EXCEPT ![w].at = at, ![w].k = v]
        PROVE  \E y : TickOK(y, row) /\ SetTick(w, y)
    <3>1. SetTick(w, [x EXCEPT !.at = at, !.k = v])
      BY <1>1, <2>3 DEF SetTick
    <3> HIDE DEF x
    <3> QED BY <1>1, <1>2, <3>1, GoesTo
  <2>4. ASSUME NEW v, tick' = [tick EXCEPT ![w].at = at, ![w].orphans = v]
        PROVE  \E y : TickOK(y, row) /\ SetTick(w, y)
    <3>1. SetTick(w, [x EXCEPT !.at = at, !.orphans = v])
      BY <1>1, <2>4 DEF SetTick
    <3> HIDE DEF x
    <3> QED BY <1>1, <1>2, <3>1, GoesTo
  <2> QED BY <2>1, <2>2, <2>3, <2>4
<1>4. RowStays /\ UNCHANGED <<request, creator>> /\ TickOK(y, row')
  BY <1>3 DEF Quiet, RowStays
<1> QED BY <1>1, <1>3, <1>4, TickMoves

\* A tick has read a finished build to settle it.
Reads(w, next, v) == tick' = [tick EXCEPT ![w].at = "unsettled", ![w].next = next, ![w].spent = v]

LEMMA ProposeIs ==
    ASSUME BuildInv, NEW w \in Tick, tick[w].at \notin {"idle", "done"}, Quiet,
           NEW next, IsRow(next), Propose(w, next) \/ \E v : Reads(w, next, v),
           tick[w].task.rev = row.rev /\ row.state \in Terminal => next.state = row.state
    PROVE  BuildKept
<1> DEFINE x == tick[w]
<1>1. TickOK(x, row) /\ creator # "none" /\ tick = [v \in Tick |-> tick[v]]
  BY BuildIsBorn DEF BuildInv
<1>2. /\ TickOK([x EXCEPT !.at = "save", !.next = next], row)
      /\ \A v : TickOK([x EXCEPT !.at = "unsettled", !.next = next, !.spent = v], row)
  BY <1>1, Proposes
<1>3. PICK y : TickOK(y, row) /\ SetTick(w, y)
  <2>1. CASE Propose(w, next)
    <3>1. SetTick(w, [x EXCEPT !.at = "save", !.next = next])
      BY <1>1, <2>1 DEF Propose, SetTick
    <3> QED BY <1>2, <3>1
  <2>2. CASE \E v : Reads(w, next, v)
    <3>1. PICK v : SetTick(w, [x EXCEPT !.at = "unsettled", !.next = next, !.spent = v])
      BY <1>1, <2>2 DEF Reads, SetTick
    <3> QED BY <1>2, <3>1
  <2> QED BY <2>1, <2>2
<1>4. RowStays /\ UNCHANGED <<request, creator>> /\ TickOK(y, row')
  BY <1>3 DEF Quiet, RowStays
<1> QED BY <1>1, <1>3, <1>4, TickMoves

\* The same while the tick works.
LEMMA WorkProposes ==
    ASSUME BuildInv, NEW w \in Tick, tick[w].at \in Working, Quiet,
           NEW next, IsRow(next), Propose(w, next)
    PROVE  BuildKept
<1>1. TickOK(tick[w], row)
  BY DEF BuildInv
<1>2. /\ tick[w].at \notin {"idle", "done"}
      /\ tick[w].task.rev = row.rev /\ row.state \in Terminal => next.state = row.state
  BY <1>1, WorksOnLive
<1> QED BY <1>2, ProposeIs

LEMMA WorkGoes ==
    ASSUME BuildInv, NEW w \in Tick, tick[w].at \in Working, Quiet, NEW at \in Working,
           \/ Go(w, at)
           \/ \E v : tick' = [tick EXCEPT ![w].at = at, ![w].read = v]
           \/ \E v : tick' = [tick EXCEPT ![w].at = at, ![w].k = v]
    PROVE  BuildKept
<1>1. TickOK(tick[w], row)
  BY DEF BuildInv
<1>2. tick[w].at \notin {"idle", "done"} /\ tick[w].task.state \notin Terminal
  BY <1>1, WorksOnLive
<1> QED BY <1>2, GoIs

LEMMA LeaveIs ==
    ASSUME BuildInv, NEW w \in Tick, tick[w].at # "idle", Quiet,
           Leave(w) \/ tick' = [tick EXCEPT ![w] = IdleTick]
    PROVE  BuildKept
<1>1. creator # "none"
  BY BuildIsBorn
<1>2. PICK y : TickOK(y, row) /\ SetTick(w, y)
  BY IdleTicks DEF Leave, SetTick
<1>3. RowStays /\ UNCHANGED <<request, creator>> /\ TickOK(y, row')
  BY <1>2 DEF Quiet, RowStays
<1> QED BY <1>1, <1>2, <1>3, TickMoves

LEMMA ClaimIsKept == ASSUME BuildInv, NEW w \in Tick, Claim(w) PROVE BuildKept
<1> DEFINE c == IF row.state = "awaiting_funding" THEN money.ceiling ELSE 0
           y == [IdleTick EXCEPT !.at = "claimed", !.task = row, !.ceiling = c]
<1>1. creator # "none" /\ SetTick(w, y) /\ RowStays /\ UNCHANGED <<request, creator>>
  BY BuildIsBorn DEF Claim, SetTick, RowStays
<1> HIDE DEF c
<1>2. TickOK(y, row)
  <2>1. IsRow(NoRow) /\ IsRow(row) /\ IsCopyOf(row, row)
    BY NoRowIsRow DEF BuildInv, IsCopyOf, IsRow
  <2> QED BY <2>1 DEF TickOK, IdleTick, Working
<1> HIDE DEF y
<1>3. TickOK(y, row')
  BY <1>1, <1>2 DEF RowStays
<1> QED BY <1>1, <1>3, TickMoves

\* What listing and releasing orphans does to the tick.
LEMMA OrphansPass ==
    ASSUME BuildInv, NEW w \in Tick, ListOrphans(w) \/ ReleaseOrphan(w) \/ OrphanStays(w)
    PROVE  \E at \in {"orphans", AfterOrphans(tick[w].task)} :
              \E v : /\ tick' = [tick EXCEPT ![w].at = at, ![w].orphans = v]
                     /\ SetTick(w, [tick[w] EXCEPT !.at = at, !.orphans = v])
<1>1. PICK at \in {"orphans", AfterOrphans(tick[w].task)} :
         \E v : tick' = [tick EXCEPT ![w].at = at, ![w].orphans = v]
  <2>1. CASE ListOrphans(w)
    BY <2>1 DEF ListOrphans
  <2>2. CASE \E s : Pass(w, s)
    <3>1. PICK s : Pass(w, s)
      BY <2>2
    <3> DEFINE at == IF tick[w].orphans = {s} THEN AfterOrphans(tick[w].task) ELSE "orphans"
               v  == tick[w].orphans \ {s}
    <3>2. tick' = [tick EXCEPT ![w].at = at, ![w].orphans = v]
      BY <3>1 DEF Pass, BuildInv
    <3> QED BY <3>2
  <2> QED BY <2>1, <2>2 DEF ReleaseOrphan, OrphanStays
<1>2. PICK v : tick' = [tick EXCEPT ![w].at = at, ![w].orphans = v]
  BY <1>1
<1>3. SetTick(w, [tick[w] EXCEPT !.at = at, !.orphans = v])
  BY <1>2 DEF SetTick, BuildInv
<1> QED BY <1>2, <1>3

LEMMA OrphansAreKept ==
    ASSUME BuildInv, NEW w \in Tick, ListOrphans(w) \/ ReleaseOrphan(w) \/ OrphanStays(w)
    PROVE  BuildKept
<1>1. tick[w].at \notin {"idle", "done"} /\ Quiet
  BY DEF ListOrphans, ReleaseOrphan, OrphanStays, Quiet
<1>2. PICK at \in {"orphans", AfterOrphans(tick[w].task)} :
         \E v : tick' = [tick EXCEPT ![w].at = at, ![w].orphans = v]
  BY OrphansPass
<1>3. at \in {"orphans", "settle"} \cup Working /\ (at \in Working => tick[w].task.state \notin Terminal)
  BY DEF Working, AfterOrphans
<1> QED BY <1>1, <1>2, <1>3, GoIs

LEMMA WorkIsRow ==
    ASSUME BuildInv, NEW w \in Tick
    PROVE  IsRow(tick[w].task) /\ IsRow(Fresh(tick[w].task))
           /\ Fresh(tick[w].task).state = tick[w].task.state
<1>1. IsRow(tick[w].task)
  BY DEF BuildInv, TickOK
<1> QED BY <1>1, FreshIsRow DEF Alike

LEMMA LocalStepsAreKept ==
    ASSUME BuildInv, NEW w \in Tick,
           RecoverFunding(w) \/ Start(w) \/ Execute(w) \/ Verify(w) \/ LocalFails(w) \/ Prepare(w)
    PROVE  BuildKept
<1> DEFINE t == tick[w].task
<1>1. tick[w].at \in Working /\ Quiet
  BY DEF RecoverFunding, Start, Execute, Verify, LocalFails, Prepare, Working, Quiet
<1>2. IsRow(t) /\ IsRow(Fresh(t))
  BY WorkIsRow
<1>3. CASE RecoverFunding(w)
  <2>1. IsRow(MoveTo([t EXCEPT !.known = <<0>>], "queued")) /\ IsRow(Failed(t))
    BY <1>2, ColumnsOfRow, MoveIsRow, FailedIsRow DEF Alike
  <2>2. Propose(w, MoveTo([t EXCEPT !.known = <<0>>], "queued")) \/ Propose(w, Failed(t))
    BY <1>3 DEF RecoverFunding
  <2> QED BY <1>1, <2>1, <2>2, WorkProposes
<1>4. CASE Start(w)
  <2>1. IsRow(MoveTo(t, "planning")) /\ Propose(w, MoveTo(t, "planning"))
    BY <1>2, <1>4, MoveIsRow DEF Start
  <2> QED BY <1>1, <2>1, WorkProposes
<1>5. CASE Execute(w)
  <2>1. IsRow(MoveTo(t, "reviewing")) /\ IsRow(Rework(t))
    BY <1>2, MoveIsRow, ReworkIsRow
  <2>2. Propose(w, MoveTo(t, "reviewing")) \/ Propose(w, Rework(t))
    BY <1>5 DEF Execute
  <2> QED BY <1>1, <2>1, <2>2, WorkProposes
<1>6. CASE Verify(w)
  <2> DEFINE s == IF AppliedChanges \subseteq Fresh(t).seen THEN "completed" ELSE "implementing"
  <2>1. Propose(w, MoveTo(Fresh(t), s)) \/ Propose(w, Rework(Fresh(t)))
    BY <1>6 DEF Verify
  <2> HIDE DEF s
  <2>2. IsRow(MoveTo(Fresh(t), s)) /\ IsRow(Rework(Fresh(t)))
    BY <1>2, MoveIsRow, ReworkIsRow
  <2> QED BY <1>1, <2>1, <2>2, WorkProposes
<1>7. CASE LocalFails(w)
  <2>1. PICK sort \in {"transient", "refused"} : Propose(w, AfterFailure(t, sort))
    BY <1>7 DEF LocalFails
  <2>2. IsRow(AfterFailure(t, sort))
    BY <1>2, AfterFailureIsRow
  <2> QED BY <1>1, <2>1, <2>2, WorkProposes
<1>8. CASE Prepare(w)
  <2>1. IsRow(Failed(t)) /\ "reserve" \in Working
    BY <1>2, FailedIsRow DEF Working
  <2>2. Propose(w, Failed(t)) \/ \E v : tick' = [tick EXCEPT ![w].at = "reserve", ![w].read = v]
    BY <1>8 DEF Prepare
  <2> QED BY <1>1, <2>1, <2>2, WorkProposes, WorkGoes
<1> QED BY <1>3, <1>4, <1>5, <1>6, <1>7, <1>8

LEMMA CallStepsAreKept ==
    ASSUME BuildInv, NEW w \in Tick,
           \/ Reserve(w) \/ AskForBudget(w) \/ Plan(w) \/ Implement(w) \/ Review(w)
           \/ AskAboutReview(w) \/ CallFails(w) \/ MeterRefused(w)
    PROVE  BuildKept
<1> DEFINE t == tick[w].task
<1>1. tick[w].at \in Working
  BY DEF Reserve, AskForBudget, Plan, Implement, Review, Captured, AskAboutReview, CallFails,
         MeterRefused, Working
<1>2. Quiet
  BY DEF Reserve, AskForBudget, Plan, Implement, Review, Captured, AskAboutReview, CallFails,
         MeterRefused, Quiet
<1>3. IsRow(t) /\ IsRow(Fresh(t)) /\ IsRow(Failed(t))
  BY WorkIsRow, FailedIsRow
<1>4. CASE Reserve(w)
  <2>1. \/ Go(w, "exceeded")
        \/ \E v : tick' = [tick EXCEPT ![w].at = "call", ![w].k = v]
    BY <1>4 DEF Reserve
  <2>2. "exceeded" \in Working /\ "call" \in Working
    BY DEF Working
  <2> QED BY <1>1, <1>2, <2>1, <2>2, WorkGoes
<1>5. CASE AskForBudget(w)
  <2>1. PICK d : Leave(w) \/ Propose(w, Transition(t, "waiting_user", d, t.state))
    BY <1>5 DEF AskForBudget
  <2>2. IsRow(Transition(t, "waiting_user", d, t.state))
    BY <1>3, TransitionIsRow
  <2>3. tick[w].at # "idle"
    BY <1>1 DEF Working
  <2> QED BY <1>1, <1>2, <2>1, <2>2, <2>3, WorkProposes, LeaveIs
<1>6. CASE Plan(w)
  <2>1. Propose(w, MoveTo(Fresh(t), "implementing")) /\ IsRow(MoveTo(Fresh(t), "implementing"))
    BY <1>3, <1>6, MoveIsRow DEF Plan
  <2> QED BY <1>1, <1>2, <2>1, WorkProposes
<1>7. CASE Implement(w)
  <2> DEFINE u == Fresh(t).implement + 1
             v == tick[w].read
             a == [Fresh(t) EXCEPT !.implement = u, !.seen = v]
  <2>1. Propose(w, MoveTo(a, "executing"))
    BY <1>7 DEF Implement
  <2> HIDE DEF u, v
  <2>2. IsRow(a)
    BY <1>3, ColumnsOfRow DEF Alike
  <2> HIDE DEF a
  <2>3. IsRow(MoveTo(a, "executing"))
    BY <2>2, MoveIsRow
  <2> QED BY <1>1, <1>2, <2>1, <2>3, WorkProposes
<1>8. CASE Review(w)
  <2>1. \/ Propose(w, MoveTo(Fresh(t), "verifying")) \/ Propose(w, Rework(Fresh(t)))
        \/ Go(w, "blocked")
    BY <1>8 DEF Review
  <2>2. IsRow(MoveTo(Fresh(t), "verifying")) /\ IsRow(Rework(Fresh(t))) /\ "blocked" \in Working
    BY <1>3, MoveIsRow, ReworkIsRow DEF Working
  <2> QED BY <1>1, <1>2, <2>1, <2>2, WorkProposes, WorkGoes
<1>9. CASE AskAboutReview(w)
  <2>1. PICK d : \/ Propose(w, Transition(Fresh(t), "waiting_user", d, "implementing"))
                 \/ Propose(w, AfterFailure(t, "transient"))
    BY <1>9 DEF AskAboutReview
  <2>2. IsRow(Transition(Fresh(t), "waiting_user", d, "implementing")) /\ IsRow(AfterFailure(t, "transient"))
    BY <1>3, TransitionIsRow, AfterFailureIsRow
  <2> QED BY <1>1, <1>2, <2>1, <2>2, WorkProposes
<1>10. CASE CallFails(w)
  <2>1. PICK sort : Propose(w, AfterFailure(t, sort)) \/ Propose(w, Failed(t))
    BY <1>10 DEF CallFails
  <2>2. IsRow(AfterFailure(t, sort))
    BY <1>3, AfterFailureIsRow
  <2> QED BY <1>1, <1>2, <1>3, <2>1, <2>2, WorkProposes
<1>11. CASE MeterRefused(w)
  <2>1. Propose(w, Failed(t))
    BY <1>11 DEF MeterRefused
  <2> QED BY <1>1, <1>2, <1>3, <2>1, WorkProposes
<1> QED BY <1>4, <1>5, <1>6, <1>7, <1>8, <1>9, <1>10, <1>11

\* The save finds the revision the tick claimed, so its copy tells the state.
LEMMA SaveIsKept == ASSUME BuildInv, NEW w \in Tick, Save(w) PROVE BuildKept
<1> DEFINE x == tick[w]
<1>1. /\ TickOK(x, row) /\ x.at = "save" /\ creator # "none" /\ IsRow(row)
      /\ UNCHANGED <<request, creator>>
  BY BuildIsBorn DEF BuildInv, Save
<1>2. CASE MaySave(x.task.rev, w)
  <2>1. row' = Saved(x.next) /\ x.task.rev = row.rev /\ IsRow(x.next)
    BY <1>1, <1>2 DEF Save, MaySave, TickOK
  <2>2. IsRow(row') /\ row'.rev = row.rev + 1 /\ row'.state = x.next.state
    BY <1>1, <2>1, SavedIsRow
  <2>3. RowIsNext
    BY <1>1, <2>1, <2>2 DEF RowIsNext, TickOK
  <2>4. PICK y : TickOK(y, row') /\ SetTick(w, y)
    <3>1. SetTick(w, [IdleTick EXCEPT !.at = "settle", !.task = row']) \/ Leave(w)
      BY <1>2 DEF Save, SetTick
    <3>2. CASE SetTick(w, [IdleTick EXCEPT !.at = "settle", !.task = row'])
      <4> DEFINE r == row'
      <4>1. IsRow(r) /\ IsRow(NoRow) /\ IsCopyOf(r, r)
        BY <2>2, NoRowIsRow DEF IsCopyOf, IsRow
      <4> HIDE DEF r
      <4>2. TickOK([IdleTick EXCEPT !.at = "settle", !.task = r], r)
        BY <4>1 DEF TickOK, IdleTick, Working
      <4> QED BY <3>2, <4>2 DEF r
    <3>3. CASE Leave(w)
      BY <3>3, IdleTicks DEF Leave, SetTick
    <3> QED BY <3>1, <3>2, <3>3
  <2> QED BY <1>1, <2>3, <2>4, TickMoves
<1>3. CASE ~MaySave(x.task.rev, w)
  <2>1. Leave(w) /\ Quiet /\ x.at # "idle"
    BY <1>1, <1>3 DEF Save, Quiet
  <2> QED BY <2>1, LeaveIs
<1> QED BY <1>2, <1>3

\* A finished build is settled on the row as it was read; what the settlement proposes tells
\* the state that was read.
LEMMA SettleIsKept ==
    ASSUME BuildInv, NEW w \in Tick, ReadToSettle(w) \/ Settle(w) \/ SettleFails(w)
    PROVE  BuildKept
<1>1. Quiet /\ tick[w].at \notin {"idle", "done"} /\ IsRow(row) /\ TickOK(tick[w], row)
  BY DEF BuildInv, ReadToSettle, Settle, SettleFails, Quiet
<1>2. CASE ReadToSettle(w)
  <2>1. Alike(row, row) /\ Alike([row EXCEPT !.due = FALSE], row)
    BY <1>1, ColumnsOfRow DEF Alike
  <2>2. PICK next : Leave(w) \/ ((Propose(w, next) \/ \E v : Reads(w, next, v)) /\ Alike(next, row))
    BY <1>2, <2>1 DEF ReadToSettle, Reads
  <2>3. Alike(next, row) => IsRow(next) /\ next.state = row.state
    BY DEF Alike
  <2> QED BY <1>1, <2>2, <2>3, ProposeIs, LeaveIs
<1>3. CASE Settle(w) \/ SettleFails(w)
  <2> DEFINE n == tick[w].next
  <2>1. IsRow(n) /\ (tick[w].task.rev = row.rev /\ row.state \in Terminal => n.state = row.state)
    BY <1>1, <1>3 DEF TickOK, Settle, SettleFails
  <2>2. /\ Alike(SettlementPending(n), n)
        /\ Alike([n EXCEPT !.settlement = "settled", !.due = FALSE], n)
    BY <2>1, ColumnsOfRow, PendingIsRow
  <2>3. PICK next : Propose(w, next) /\ Alike(next, n)
    BY <1>3, <2>2 DEF Settle, SettleFails
  <2>4. IsRow(next) /\ next.state = n.state
    BY <2>3 DEF Alike
  <2> QED BY <1>1, <2>1, <2>3, <2>4, ProposeIs
<1> QED BY <1>2, <1>3

LEMMA StepIsKept == ASSUME BuildInv, NEW w \in Tick, Step(w) \/ Break(w) PROVE BuildKept
<1>1. ASSUME ReleaseLease(w) \/ Crash(w) PROVE BuildKept
  <2>1. tick' = [tick EXCEPT ![w] = IdleTick] /\ tick[w].at # "idle" /\ Quiet
    BY <1>1 DEF ReleaseLease, Crash, Quiet
  <2> QED BY <2>1, LeaveIs
<1> QED BY <1>1, ClaimIsKept, OrphansAreKept, LocalStepsAreKept, CallStepsAreKept, SaveIsKept,
           SettleIsKept DEF Step, Break

-----------------------------------------------------------------------------
(* The creating request and the owner                                       *)

LEMMA CreateIsKept == ASSUME BuildInv, Create PROVE BuildKept
<1>1. CASE InsertBuild
  <2> DEFINE new == [NoRow EXCEPT !.state = "awaiting_funding", !.due = TRUE]
  <2>1. row' = new /\ Unborn /\ creator' = "inserted" /\ UNCHANGED <<tick, request>>
    BY <1>1 DEF BuildInv, InsertBuild
  <2>2. IsRow(new) /\ new.rev = 0 /\ new.state = "awaiting_funding"
    BY DEF IsRow, NoRow, Column
  <2>3. row.state = "none" /\ row.rev = 0
    BY <2>1, NoRowIsRow DEF Unborn
  <2> HIDE DEF new
  <2>4. \A w \in Tick : TickOK(tick[w], new)
    BY <2>1 DEF BuildInv, Unborn, TickOK, Working
  <2>5. \A q \in Request : RequestOK(request[q], new)
    BY <2>1 DEF BuildInv, Unborn, RequestOK
  <2>6. row.state \notin Terminal
    BY <2>3 DEF Terminal
  <2> QED BY <2>1, <2>2, <2>4, <2>5, <2>6 DEF BuildInv, BuildKept
<1>2. CASE SecureBuild \/ CreatorDies
  <2>1. RowStays /\ creator' # "none" /\ UNCHANGED <<tick, request>>
    BY <1>2 DEF SecureBuild, CreatorDies, RowStays
  <2> QED BY <2>1, OthersMove
<1>3. CASE QueueBuild
  <2>1. creator' # "none" /\ UNCHANGED <<tick, request>> /\ IsRow(row)
    BY <1>3 DEF QueueBuild, BuildInv
  <2>2. RowStays \/ RowIsNext
    <3>1. CASE ~MaySave(0, NoOne)
      BY <1>3, <3>1 DEF QueueBuild, RowStays
    <3>2. CASE MaySave(0, NoOne)
      <4>1. row.state \notin Terminal
        BY <3>2 DEF MaySave, BuildInv, Terminal
      <4>2. row' = Saved(MoveTo(row, "failed")) \/ row' = Saved(MoveTo([row EXCEPT !.known = <<0>>], "queued"))
        BY <1>3, <3>2 DEF QueueBuild
      <4>3. IsRow(MoveTo(row, "failed")) /\ IsRow(MoveTo([row EXCEPT !.known = <<0>>], "queued"))
        BY <2>1, ColumnsOfRow, MoveIsRow DEF Alike
      <4>4. IsRow(row') /\ row'.rev = row.rev + 1
        BY <2>1, <4>2, <4>3, SavedIsRow
      <4> QED BY <4>1, <4>4 DEF RowIsNext
    <3> QED BY <3>1, <3>2
  <2> QED BY <2>1, <2>2, OthersMove
<1> QED BY <1>1, <1>2, <1>3 DEF Create

LEMMA StoppedIsRow == ASSUME NEW r, IsRow(r) PROVE IsRow(Stopped(r))
BY MoveIsRow, PendingIsRow DEF Stopped, Alike

\* A change to the latest version is the next revision.
LEMMA MutateIsNext ==
    ASSUME IsRow(row), NEW next, IsRow(next), MutateFresh(next),
           row.state \in Terminal => next.state = row.state
    PROVE  RowIsNext
BY SavedIsRow DEF MutateFresh, RowIsNext

LEMMA OwnerActsAreKept ==
    ASSUME BuildInv, RecordPurchase \/ Retitle \/ Command \/ Cancel \/ LeaseLapses
    PROVE  BuildKept
<1>1. UNCHANGED <<tick, request, creator>> /\ IsRow(row)
  BY DEF BuildInv, RecordPurchase, Retitle, Command, Cancel, LeaseLapses
<1>2. CASE Retitle
  <2>1. creator' # "none" /\ MutateFresh(row)
    BY <1>1, <1>2, BuildIsBorn DEF Retitle
  <2>2. RowIsNext
    BY <1>1, <2>1, MutateIsNext
  <2> QED BY <1>1, <2>1, <2>2, OthersMove
<1>3. CASE Cancel
  <2>1. creator' # "none" /\ MutateFresh(Stopped(row)) /\ row.state \notin Terminal
    BY <1>1, <1>3, BuildIsBorn DEF Cancel
  <2>2. RowIsNext
    BY <1>1, <2>1, StoppedIsRow, MutateIsNext
  <2> QED BY <1>1, <2>1, <2>2, OthersMove
<1>4. CASE Command
  <2>1. creator' # "none" /\ RowStays
    BY <1>1, <1>4, BuildIsBorn DEF Command, RowStays
  <2> QED BY <1>1, <2>1, OthersMove
<1>5. CASE (RecordPurchase \/ LeaseLapses) /\ creator # "none"
  <2>1. creator' # "none" /\ RowStays
    BY <1>1, <1>5 DEF RecordPurchase, LeaseLapses, RowStays
  <2> QED BY <1>1, <2>1, OthersMove
<1>6. CASE (RecordPurchase \/ LeaseLapses) /\ creator = "none"
  <2>1. UNCHANGED <<row, changes, tick, request, creator>>
    BY <1>6 DEF RecordPurchase, LeaseLapses
  <2> QED BY <2>1 DEF BuildInv, Unborn, BuildKept
<1> QED BY <1>2, <1>3, <1>4, <1>5, <1>6

\* Nothing a request holds once it has answered.
LEMMA IdleRequests ==
    ASSUME NEW r
    PROVE  RequestOK(IdleRequest, r) /\ RequestOK([IdleRequest EXCEPT !.at = "finish"], r)
<1>1. IsRow(NoRow)
  BY NoRowIsRow
<1> QED BY <1>1 DEF RequestOK, IdleRequest

LEMMA RequestGoesTo ==
    ASSUME NEW x, NEW r, RequestOK(x, r), x.at \notin {"idle", "finish"},
           NEW at \in {"raise", "record", "resolve", "resume"},
           at = "resume" => x.task.state = "waiting_user"
    PROVE  RequestOK([x EXCEPT !.at = at], r)
BY DEF RequestOK

\* A request that leaves the row alone.
LEMMA AskIs ==
    ASSUME BuildInv, NEW q \in Request, creator # "none", UNCHANGED <<row, tick, creator>>,
           NEW x, Ask(q, x), RequestOK(x, row)
    PROVE  BuildKept
<1>1. RowStays /\ SetRequest(q, x) /\ RequestOK(x, row')
  BY DEF Ask, RowStays, SetRequest
<1> QED BY <1>1, RequestMoves

LEMMA DecisionsAreKept ==
    ASSUME BuildInv, NEW q \in Request, NEW c \in DOMAIN changes,
           Deny(q, c) \/ \E max : Approve(q, c, max)
    PROVE  BuildKept
<1>1. creator # "none" /\ UNCHANGED <<row, tick, creator>> /\ IsRow(row)
  BY BuildIsBorn DEF BuildInv, Deny, Approve
<1>2. CASE Deny(q, c)
  <2>1. Ask(q, IdleRequest) \/ Ask(q, [IdleRequest EXCEPT !.at = "finish"])
    BY <1>2 DEF Deny
  <2> QED BY <1>1, <2>1, IdleRequests, AskIs
<1>3. CASE \E max : Approve(q, c, max)
  <2>1. PICK max : Approve(q, c, max)
    BY <1>3
  <2> DEFINE at == IF max > money.ceiling THEN "secure" ELSE "resolve"
             delta == max - money.ceiling
             x == [IdleRequest EXCEPT !.at = at, !.task = row, !.change = c, !.max = max, !.delta = delta]
  <2>2. Ask(q, x)
    BY <2>1 DEF Approve
  <2>3. IsCopyOf(row, row)
    BY <1>1 DEF IsCopyOf, IsRow
  <2>4. at \in {"secure", "resolve"}
    OBVIOUS
  <2> HIDE DEF at, delta
  <2>5. RequestOK(x, row)
    <3>1. /\ x = [f \in {"at", "task", "change", "max", "delta"} |-> x[f]]
          /\ x.at = at /\ x.task = row
      BY DEF IdleRequest
    <3> HIDE DEF x
    <3> QED BY <1>1, <2>3, <2>4, <3>1 DEF RequestOK
  <2> HIDE DEF x
  <2> QED BY <1>1, <2>2, <2>5, AskIs
<1> QED BY <1>2, <1>3

LEMMA HandlingIsKept ==
    ASSUME BuildInv, NEW q \in Request, Handle(q) \/ RequestDies(q)
    PROVE  BuildKept
<1> DEFINE x == request[q]
<1>1. /\ RequestOK(x, row) /\ IsRow(row) /\ IsRow(x.task) /\ x.at # "idle" /\ creator # "none"
      /\ UNCHANGED <<tick, creator>>
  <2>1. x.at # "idle" /\ UNCHANGED <<tick, creator>>
    BY DEF Handle, RequestDies, SecureIncrease, RaiseBudget, RecordRaise, ResolveChange, Resume, Finish
  <2> QED BY <2>1, BuildIsBorn DEF BuildInv, RequestOK
<1>2. CASE SecureIncrease(q)
  <2>1. Ask(q, [x EXCEPT !.at = "raise"]) \/ Ask(q, IdleRequest)
    BY <1>2 DEF SecureIncrease
  <2>2. RequestOK([x EXCEPT !.at = "raise"], row)
    BY <1>1, <1>2, RequestGoesTo DEF SecureIncrease
  <2>3. UNCHANGED row
    BY <1>2 DEF SecureIncrease
  <2> QED BY <1>1, <2>1, <2>2, <2>3, IdleRequests, AskIs
<1>3. CASE RaiseBudget(q)
  <2>1. Ask(q, [x EXCEPT !.at = "record"]) /\ UNCHANGED row
    BY <1>3 DEF RaiseBudget
  <2>2. RequestOK([x EXCEPT !.at = "record"], row)
    BY <1>1, <1>3, RequestGoesTo DEF RaiseBudget
  <2> QED BY <1>1, <2>1, <2>2, AskIs
<1>4. CASE RecordRaise(q)
  <2> DEFINE r == row'
             y == [x EXCEPT !.at = "resolve", !.task = r]
             known == Append(row.known, x.change)
  <2>1. RowStays \/ MutateFresh([row EXCEPT !.known = known])
    BY <1>4 DEF RecordRaise, RowStays
  <2>2. SetRequest(q, y)
    BY <1>4 DEF RecordRaise, Ask, SetRequest
  <2> HIDE DEF known
  <2>3. RowStays \/ RowIsNext
    BY <1>1, <2>1, ColumnsOfRow, MutateIsNext DEF Alike
  <2>4. IsRow(r) /\ IsCopyOf(r, r)
    BY <1>1, <2>3 DEF RowStays, RowIsNext, IsRow, IsCopyOf
  <2> HIDE DEF r
  <2>5. RequestOK(y, r)
    BY <1>1, <2>4 DEF RequestOK
  <2>6. RequestOK(y, row')
    BY <2>5 DEF r
  <2> HIDE DEF y
  <2> QED BY <1>1, <2>2, <2>3, <2>6, RequestMoves
<1>5. CASE ResolveChange(q)
  <2>1. /\ Ask(q, IdleRequest) \/ (Ask(q, [x EXCEPT !.at = "resume"]) /\ x.task.state = "waiting_user")
        /\ UNCHANGED row /\ x.at = "resolve"
    BY <1>5 DEF ResolveChange
  <2>2. x.task.state = "waiting_user" => RequestOK([x EXCEPT !.at = "resume"], row)
    BY <1>1, <2>1, RequestGoesTo
  <2> QED BY <1>1, <2>1, <2>2, IdleRequests, AskIs
<1>6. CASE Resume(q)
  <2>1. SetRequest(q, IdleRequest) /\ x.at = "resume"
    BY <1>6 DEF Resume, Ask, SetRequest
  <2>2. RowStays \/ RowIsNext
    <3>1. CASE UNCHANGED row
      BY <3>1 DEF RowStays
    <3>2. CASE MaySave(x.task.rev, NoOne) /\ row' = Saved(MoveTo(x.task, x.task.resume))
      <4>1. row.state = "waiting_user"
        BY <1>1, <2>1, <3>2 DEF RequestOK, IsCopyOf, MaySave
      <4>2. IsRow(row') /\ row'.rev = row.rev + 1
        BY <1>1, <3>2, MoveIsRow, SavedIsRow
      <4> QED BY <4>1, <4>2 DEF RowIsNext, Terminal
    <3> QED BY <1>6, <3>1, <3>2 DEF Resume
  <2>3. RequestOK(IdleRequest, row')
    BY IdleRequests
  <2> QED BY <1>1, <2>1, <2>2, <2>3, RequestMoves
<1>7. CASE Finish(q)
  <2>1. SetRequest(q, IdleRequest)
    BY <1>7 DEF Finish, Ask, SetRequest
  <2>2. RowStays \/ RowIsNext
    BY <1>1, <1>7, StoppedIsRow, MutateIsNext DEF Finish, RowStays
  <2>3. RequestOK(IdleRequest, row')
    BY IdleRequests
  <2> QED BY <1>1, <2>1, <2>2, <2>3, RequestMoves
<1>8. CASE RequestDies(q)
  <2>1. Ask(q, IdleRequest) /\ UNCHANGED row
    BY <1>8 DEF RequestDies
  <2> QED BY <1>1, <2>1, IdleRequests, AskIs
<1> QED BY <1>2, <1>3, <1>4, <1>5, <1>6, <1>7, <1>8 DEF Handle

-----------------------------------------------------------------------------
(* The theorems about a build                                               *)

LEMMA BuildStep ==
    ASSUME BuildInv, [Next]_vars
    PROVE  BuildKept
<1>1. CASE Next
  BY <1>1, CreateIsKept, OwnerActsAreKept, DecisionsAreKept, HandlingIsKept, StepIsKept
  DEF Next, Owner
<1>2. CASE UNCHANGED vars
  <2>1. UNCHANGED <<row, changes, tick, request, creator>>
    BY <1>2 DEF vars
  <2> QED BY <2>1 DEF BuildInv, Unborn, BuildKept
<1> QED BY <1>1, <1>2

\* Whatever a worker or a request of the owner holds of a build is older than
\* the row or tells its state, and what a worker would save relabels no finished
\* build (Orchestrator.tick, DevelopmentService and saveTask of the store).
THEOREM CopiesAreHonest == Spec => []BuildInv
<1>1. Init => BuildInv
  <2> SUFFICES ASSUME Init
               PROVE  BuildInv
    OBVIOUS
  <2>1. Unborn
    BY DEF Init, Unborn, IdleTick, IdleRequest
  <2>2. /\ IsRow(row) /\ row.rev = 0 /\ row.state = "none"
    BY NoRowIsRow DEF Init
  <2>3. \A w \in Tick : TickOK(tick[w], row)
    BY IdleTicks DEF Init
  <2>4. \A q \in Request : RequestOK(request[q], row)
    BY IdleRequests DEF Init
  <2>5. tick = [w \in Tick |-> tick[w]] /\ request = [q \in Request |-> request[q]]
    BY DEF Init
  <2> QED BY <2>1, <2>2, <2>3, <2>4, <2>5 DEF BuildInv
<1>2. BuildInv /\ [Next]_vars => BuildInv'
  BY BuildStep DEF BuildKept
<1> QED BY <1>1, <1>2, PTL DEF Spec

\* A finished build stays as it finished: no worker that lost its lease, no late
\* answer to a question and no failing step of the creating request revives or
\* relabels it (saveTask, mutateFresh, states.ts).
THEOREM FinishedStaysFinished == Spec => TerminalIsFinal
<1>1. BuildInv /\ [Next]_vars => [row.state \in Terminal => row'.state = row.state]_vars
  BY BuildStep DEF BuildKept
<1> QED BY <1>1, CopiesAreHonest, PTL DEF Spec, TerminalIsFinal

-----------------------------------------------------------------------------
(* What a step is charged                                                  *)

\* A spend record.  Only the first of a step reserves money.
SpendOK(s) ==
    /\ s = [f \in {"rev", "k", "amount", "status", "charged"} |-> s[f]]
    /\ s.k \in Nat /\ s.amount \in Nat /\ s.charged \in Nat
    /\ s.charged <= s.amount
    /\ s.k # 0 => s.amount = 0

\* One record of a step is its first.
SpendInv ==
    /\ IsFiniteSet(spend) /\ \A s \in spend : SpendOK(s)
    /\ \A s, t \in spend : s.rev = t.rev /\ s.k = 0 /\ t.k = 0 => s = t

LEMMA LesserOfTwo == \A a, b \in Nat : Min({a, b}) \in Nat /\ Min({a, b}) <= b
<1> SUFFICES ASSUME NEW a \in Nat, NEW b \in Nat PROVE Min({a, b}) \in Nat /\ Min({a, b}) <= b
  OBVIOUS
<1>1. \E x \in {a, b} : \A y \in {a, b} : x <= y
  <2>1. CASE a <= b
    BY <2>1
  <2>2. CASE ~(a <= b)
    BY <2>2
  <2> QED BY <2>1, <2>2
<1> DEFINE m == CHOOSE x \in {a, b} : \A y \in {a, b} : x <= y
<1>2. m \in {a, b} /\ \A y \in {a, b} : m <= y
  BY <1>1
<1>3. Min({a, b}) = m
  BY DEF Min
<1> HIDE DEF m
<1> QED BY <1>2, <1>3

\* Records that are rewritten stay records of their step.
Rewrites(A, G) ==
    /\ A \subseteq spend /\ spend' = (spend \ A) \cup {G[s] : s \in A}
    /\ \A s \in A : SpendOK(G[s]) /\ G[s].rev = s.rev /\ G[s].k = s.k

LEMMA RecordsRewritten == ASSUME SpendInv, NEW A, NEW G, Rewrites(A, G) PROVE SpendInv'
<1>0. /\ A \subseteq spend /\ spend' = (spend \ A) \cup {G[s] : s \in A}
      /\ \A s \in A : SpendOK(G[s]) /\ G[s].rev = s.rev /\ G[s].k = s.k
  BY DEF Rewrites
<1>1. IsFiniteSet(spend')
  <2>1. IsFiniteSet(A) /\ IsFiniteSet(spend \ A)
    BY <1>0, FS_Subset DEF SpendInv
  <2> DEFINE g == [s \in A |-> G[s]]
  <2>2. {G[s] : s \in A} = {g[s] : s \in A}
    OBVIOUS
  <2> HIDE DEF g
  <2>3. IsFiniteSet({G[s] : s \in A})
    <3>1. g \in [A -> {g[s] : s \in A}] /\ \A u \in {g[s] : s \in A} : \E s \in A : g[s] = u
      BY DEF g
    <3>2. g \in Surjection(A, {g[s] : s \in A})
      BY <3>1 DEF Surjection
    <3> QED BY <2>1, <2>2, <3>2, FS_Surjection
  <2> QED BY <1>0, <2>1, <2>3, FS_Union
<1>2. \A u \in spend' : \E s \in spend : /\ u.rev = s.rev /\ u.k = s.k /\ SpendOK(u)
                                         /\ u = IF s \in A THEN G[s] ELSE s
  BY <1>0 DEF SpendInv
<1>3. \A s, t \in spend : s.rev = t.rev /\ s.k = 0 /\ t.k = 0 => s = t
  BY DEF SpendInv
<1>4. \A u, v \in spend' : u.rev = v.rev /\ u.k = 0 /\ v.k = 0 => u = v
  <2> SUFFICES ASSUME NEW u \in spend', NEW v \in spend', u.rev = v.rev, u.k = 0, v.k = 0
               PROVE  u = v
    OBVIOUS
  <2>1. PICK s \in spend : u.rev = s.rev /\ u.k = s.k /\ u = IF s \in A THEN G[s] ELSE s
    BY <1>2
  <2>2. PICK t \in spend : v.rev = t.rev /\ v.k = t.k /\ v = IF t \in A THEN G[t] ELSE t
    BY <1>2
  <2>3. s.rev = t.rev /\ s.k = 0 /\ t.k = 0
    BY <2>1, <2>2
  <2>4. s = t
    BY <1>3, <2>3
  <2> QED BY <2>1, <2>2, <2>4
<1>5. \A u \in spend' : SpendOK(u)
  BY <1>2
<1> QED BY <1>1, <1>4, <1>5 DEF SpendInv, SpendOK

LEMMA RecordAdded ==
    ASSUME SpendInv, NEW rev, NEW k \in Nat, NEW amount \in Nat, k # 0 => amount = 0,
           k = 0 => SpendOf(rev, 0) = {}, ReserveSpend(rev, k, amount)
    PROVE  SpendInv'
<1> DEFINE new == [rev |-> rev, k |-> k, amount |-> amount, status |-> "reserved", charged |-> 0]
<1>1. spend' = spend \cup {new}
  BY DEF ReserveSpend
<1>2. SpendOK(new) /\ new.rev = rev /\ new.k = k
  BY DEF SpendOK
<1> HIDE DEF new
<1>3. IsFiniteSet(spend')
  BY <1>1, FS_AddElement DEF SpendInv
<1>4. \A s \in spend : ~(s.rev = rev /\ s.k = 0 /\ k = 0)
  BY DEF SpendOf
<1>5. \A s, t \in spend' : s.rev = t.rev /\ s.k = 0 /\ t.k = 0 => s = t
  BY <1>1, <1>2, <1>4 DEF SpendInv
<1>6. \A s \in spend' : SpendOK(s)
  BY <1>1, <1>2 DEF SpendInv
<1> QED BY <1>3, <1>5, <1>6 DEF SpendInv, SpendOK

\* What a step was reserved bounds what it is charged.
LEMMA RecordSettled ==
    ASSUME SpendInv, NEW s \in spend, NEW status, NEW actual \in Nat, SettleSpend(s, status, actual)
    PROVE  SpendInv'
<1> DEFINE c == IF status = "captured" THEN Min({actual, s.amount}) ELSE 0
           new == [s EXCEPT !.status = status, !.charged = c]
           G == [r \in {s} |-> new]
<1>1. SpendOK(s) /\ s.amount \in Nat
  BY DEF SpendInv, SpendOK
<1>2. c \in Nat /\ c <= s.amount
  BY <1>1, LesserOfTwo
<1>3. spend' = (spend \ {s}) \cup {new}
  BY DEF SettleSpend
<1> HIDE DEF c
<1>4. SpendOK(new) /\ new.rev = s.rev /\ new.k = s.k
  BY <1>1, <1>2 DEF SpendOK
<1> HIDE DEF new
<1>5. {s} \in SUBSET spend /\ G[s] = new
  OBVIOUS
<1>6. {G[r] : r \in {s}} = {new}
  OBVIOUS
<1> HIDE DEF G
<1>7. spend' = (spend \ {s}) \cup {G[r] : r \in {s}}
  BY <1>3, <1>6
<1>8. Rewrites({s}, G)
  BY <1>4, <1>5, <1>7 DEF Rewrites
<1> QED BY <1>8, RecordsRewritten

\* An orphan is a record like any other.
OrphanSettled(s) ==
    IF s \in spend /\ s.status = "reserved" THEN SettleSpend(s, "released", 0) ELSE UNCHANGED <<spend, money>>

LEMMA OrphansReleased == ASSUME SpendInv, NEW w \in Tick, ReleaseOrphan(w) PROVE SpendInv'
<1>1. PICK s : OrphanSettled(s)
  BY DEF ReleaseOrphan, OrphanSettled
<1>2. CASE s \in spend /\ SettleSpend(s, "released", 0)
  BY <1>2, RecordSettled
<1>3. CASE spend' = spend
  BY <1>3 DEF SpendInv, SpendOK
<1> QED BY <1>1, <1>2, <1>3 DEF OrphanSettled

LEMMA ReservedOnce == ASSUME SpendInv, NEW w \in Tick, Reserve(w) PROVE SpendInv'
<1> DEFINE rev  == tick[w].task.rev
           mine == SpendOf(rev, 0)
           all  == {s \in spend : s.rev = rev}
           next == Cardinality(all)
<1>1. CallCost \in Nat
  BY DevConstants
<1>2. \/ mine = {} /\ ReserveSpend(rev, 0, CallCost)
      \/ spend' = spend
      \/ mine # {} /\ ReserveSpend(rev, next, RerunAmount)
  BY DEF Reserve
<1>3. CASE mine = {} /\ ReserveSpend(rev, 0, CallCost)
  BY <1>1, <1>3, RecordAdded
<1>4. CASE spend' = spend
  BY <1>4 DEF SpendInv, SpendOK
<1>5. CASE mine # {} /\ ReserveSpend(rev, next, RerunAmount)
  <2>1. IsFiniteSet(all) /\ all # {}
    BY <1>5, FS_Subset DEF SpendInv, SpendOf
  <2>2. next \in Nat /\ next # 0
    BY <2>1, FS_CardinalityType, FS_EmptySet
  <2> HIDE DEF next
  <2> QED BY <1>5, <2>2, RecordAdded DEF RerunAmount
<1> QED BY <1>2, <1>3, <1>4, <1>5

LEMMA CallsSettleOnce ==
    ASSUME SpendInv, NEW w \in Tick, Captured(w) \/ CallFails(w)
    PROVE  SpendInv'
<1>1. CallCost \in Nat
  BY DevConstants
<1>2. spend' = spend \/ \E s \in spend, status \in {"captured", "released"} : SettleSpend(s, status, CallCost)
  <2>1. CASE Captured(w)
    BY <2>1 DEF Captured, SpendOf
  <2>2. CASE CallFails(w)
    <3>1. PICK s, sort : s \in SpendOf(tick[w].task.rev, tick[w].k) /\
             LET to == IF sort = "invalid" THEN "captured" ELSE "released"
             IN  IF s.status = "reserved" THEN SettleSpend(s, to, CallCost) ELSE UNCHANGED <<spend, money>>
      BY <2>2 DEF CallFails
    <3>2. s \in spend
      BY <3>1 DEF SpendOf
    <3> QED BY <3>1, <3>2
  <2> QED BY <2>1, <2>2
<1>3. CASE spend' = spend
  BY <1>3 DEF SpendInv, SpendOK
<1> QED BY <1>1, <1>2, <1>3, RecordSettled

LEMMA SpendIsKept == ASSUME SpendInv, [Next]_vars PROVE SpendInv'
<1>1. ASSUME spend' = spend PROVE SpendInv'
  BY <1>1 DEF SpendInv, SpendOK
<1>2. CASE UNCHANGED vars
  BY <1>1, <1>2 DEF vars
<1>3. CASE Create \/ LeaseLapses
  <2>1. spend' = spend
    BY <1>3 DEF Create, InsertBuild, SecureBuild, QueueBuild, CreatorDies, LeaseLapses
  <2> QED BY <1>1, <2>1
<1>4. CASE Owner
  <2>1. CASE RecordPurchase \/ Retitle \/ Command \/ Cancel
    <3>1. spend' = spend
      BY <2>1 DEF RecordPurchase, Retitle, Command, Cancel
    <3> QED BY <1>1, <3>1
  <2>2. CASE \E q \in Request, c \in DOMAIN changes :
               Deny(q, c) \/ \E max \in {0} \cup Budget..MaxBudget : Approve(q, c, max)
    <3>1. spend' = spend
      BY <2>2 DEF Deny, Approve
    <3> QED BY <1>1, <3>1
  <2>3. CASE \E q \in Request : Handle(q) \/ RequestDies(q)
    <3>1. spend' = spend
      BY <2>3 DEF Handle, SecureIncrease, RaiseBudget, RecordRaise, ResolveChange, Resume, Finish, RequestDies
    <3> QED BY <1>1, <3>1
  <2> QED BY <1>4, <2>1, <2>2, <2>3 DEF Owner
<1>5. ASSUME NEW w \in Tick, Step(w) \/ Break(w) PROVE SpendInv'
  <2>1. CASE Reserve(w)
    BY <2>1, ReservedOnce
  <2>2. CASE ReleaseOrphan(w)
    BY <2>2, OrphansReleased
  <2>3. CASE Plan(w) \/ Implement(w) \/ Review(w) \/ CallFails(w)
    <3>1. Captured(w) \/ CallFails(w)
      BY <2>3 DEF Plan, Implement, Review
    <3> QED BY <3>1, CallsSettleOnce
  <2>4. CASE \/ Claim(w) \/ RecoverFunding(w) \/ Start(w) \/ Prepare(w) \/ AskForBudget(w)
             \/ AskAboutReview(w) \/ Execute(w) \/ Verify(w) \/ MeterRefused(w) \/ Save(w)
             \/ Settle(w) \/ ReleaseLease(w) \/ LocalFails(w) \/ SettleFails(w) \/ Crash(w)
             \/ ListOrphans(w) \/ OrphanStays(w) \/ ReadToSettle(w)
    <3>1. spend' = spend
      BY <2>4 DEF Claim, ListOrphans, OrphanStays, ReadToSettle, RecoverFunding, Start, Prepare, AskForBudget, AskAboutReview, Execute, Verify,
         MeterRefused, Save, Settle, ReleaseLease, LocalFails, SettleFails, Crash
    <3> QED BY <1>1, <3>1
  <2> QED BY <1>5, <2>1, <2>2, <2>3, <2>4 DEF Step, Break
<1> QED BY <1>2, <1>3, <1>4, <1>5 DEF Next

(* However many ticks run a step of the archived engine, stalled ones and ones that     *)
(* repeat what settled before a crash included, one of their records is charged: every  *)
(* later one reserves nothing.                                                          *)
THEOREM StepsAreChargedOnce == Spec => []StepChargedOnce
<1>1. ASSUME Init PROVE SpendInv
  BY <1>1, FS_EmptySet DEF Init, SpendInv
<1>2. SpendInv => StepChargedOnce
  BY DEF SpendInv, SpendOK, StepChargedOnce
<1> QED BY <1>1, <1>2, SpendIsKept, PTL DEF Spec

-----------------------------------------------------------------------------
(* Sums over finite sets.  A statement about all of them is proved from a  *)
(* least set that would refute it.                                         *)

\* The community modules' sum over a set takes one element after another, any
\* one first.
First(s) == CHOOSE x \in s : TRUE
SumsUp(h, S, f) == h = [s \in SUBSET S |-> IF s = {} THEN 0 ELSE f[First(s)] + h[s \ {First(s)}]]
Total(S, f) == (CHOOSE h : SumsUp(h, S, f))[S]

\* A set of numbers has a least one.
LEMMA LeastNumber ==
    ASSUME NEW N \in SUBSET Nat, N # {}
    PROVE  \E n \in N : \A m \in N : n <= m
<1>1. IsWellFoundedOn(OpToRel(<, Nat), Nat)
  BY NatLessThanWellFounded
<1>2. PICK n \in N : \A m \in N : ~(<<m, n>> \in OpToRel(<, Nat))
  BY <1>1, WFMin
<1>3. \A m \in N : ~(m < n)
  BY <1>2 DEF OpToRel
<1> QED BY <1>3

\* Of a set of finite sets that is not empty, one has no smaller one in it.
LEMMA SmallestSet ==
    ASSUME NEW B, B # {}, \A s \in B : IsFiniteSet(s)
    PROVE  \E s \in B : \A t \in B : Cardinality(s) <= Cardinality(t)
<1> DEFINE N == {Cardinality(s) : s \in B}
<1>1. N \in SUBSET Nat /\ N # {}
  BY FS_CardinalityType
<1>2. PICK n \in N : \A m \in N : n <= m
  BY <1>1, LeastNumber
<1> QED BY <1>2

\* Taking one element leaves one fewer.
LEMMA OneLess ==
    ASSUME NEW S, IsFiniteSet(S), NEW x \in S
    PROVE  /\ IsFiniteSet(S \ {x}) /\ Cardinality(S) \in Nat
           /\ Cardinality(S \ {x}) < Cardinality(S) /\ Cardinality(S \ {x}) \in Nat
<1>1. IsFiniteSet(S \ {x}) /\ Cardinality(S \ {x}) = Cardinality(S) - 1
  BY FS_RemoveElement
<1>2. Cardinality(S) \in Nat /\ Cardinality(S \ {x}) \in Nat
  BY <1>1, FS_CardinalityType
<1> QED BY <1>1, <1>2

\* The element taken first is an element.
LEMMA FirstIsIn == \A s : s # {} => First(s) \in s
BY DEF First

\* The recursion has a solution: take it up to any size.
LEMMA SumExists ==
    ASSUME NEW S, IsFiniteSet(S), NEW f
    PROVE  \E h : SumsUp(h, S, f)
<1> DEFINE UpTo(n) == {s \in SUBSET S : Cardinality(s) <= n}
           Solves(h, n) == h = [s \in UpTo(n) |-> IF s = {} THEN 0 ELSE f[First(s)] + h[s \ {First(s)}]]
           Bad == {n \in Nat : ~\E h : Solves(h, n)}
<1>0. \A s \in SUBSET S : IsFiniteSet(s) /\ Cardinality(s) \in Nat
  BY FS_Subset, FS_CardinalityType
<1>1. Bad = {}
  <2> SUFFICES ASSUME Bad # {} PROVE FALSE
    OBVIOUS
  <2>1. PICK n \in Bad : \A m \in Bad : n <= m
    <3>1. Bad \in SUBSET Nat
      OBVIOUS
    <3> HIDE DEF Bad
    <3> QED BY <3>1, LeastNumber
  <2>2. n \in Nat /\ ~\E h : Solves(h, n)
    OBVIOUS
  <2>3. CASE n = 0
    <3>1. \A s \in UpTo(0) : s = {}
      BY <1>0, FS_EmptySet
    <3> DEFINE h == [s \in UpTo(0) |-> 0]
    <3>2. Solves(h, 0)
      BY <3>1
    <3> QED BY <2>2, <2>3, <3>2
  <2>4. CASE n # 0
    <3>1. n - 1 \in Nat /\ ~(n <= n - 1)
      BY <2>2, <2>4
    <3>2. n - 1 \notin Bad
      BY <2>1, <3>1
    <3>3. PICK g : Solves(g, n - 1)
      BY <3>1, <3>2
    <3> DEFINE h == [s \in UpTo(n) |-> IF s = {} THEN 0 ELSE f[First(s)] + g[s \ {First(s)}]]
    <3>4. ASSUME NEW s \in UpTo(n), s # {}
          PROVE  s \ {First(s)} \in UpTo(n - 1)
      BY <1>0, <2>2, <3>4, OneLess, FirstIsIn
    <3>5. UpTo(n - 1) \subseteq UpTo(n)
      BY <1>0, <2>2
    <3>6. ASSUME NEW s \in UpTo(n - 1) PROVE h[s] = g[s]
      <4>1. g[s] = IF s = {} THEN 0 ELSE f[First(s)] + g[s \ {First(s)}]
        BY <3>3
      <4> QED BY <4>1, <3>5
    <3>7. Solves(h, n)
      <4>1. ASSUME NEW s \in UpTo(n)
            PROVE  (IF s = {} THEN 0 ELSE f[First(s)] + g[s \ {First(s)}])
                   = (IF s = {} THEN 0 ELSE f[First(s)] + h[s \ {First(s)}])
        BY <3>4, <3>6
      <4> QED BY <4>1
    <3> QED BY <2>2, <3>7
  <2> QED BY <2>3, <2>4
<1>2. Cardinality(S) \in Nat
  BY <1>0
<1>3. UpTo(Cardinality(S)) = SUBSET S
  BY FS_Subset
<1>4. PICK h : Solves(h, Cardinality(S))
  BY <1>1, <1>2
<1> QED BY <1>3, <1>4 DEF SumsUp

SameOn(s, f, g) == \A x \in s : f[x] = g[x]

\* Two solutions of the recursion agree on a set both are about, if the numbers do.
LEMMA SumsAgree ==
    ASSUME NEW S, NEW T, IsFiniteSet(S), NEW f, NEW g, NEW h, NEW k, SumsUp(h, S, f), SumsUp(k, T, g),
           NEW s, s \subseteq S, s \subseteq T,
           SameOn(s, f, g)
    PROVE  h[s] = k[s]
<1> DEFINE Bad == {t \in SUBSET s : h[t] # k[t]}
<1> SUFFICES ASSUME Bad # {} PROVE FALSE
  OBVIOUS
<1>1. \A t \in Bad : IsFiniteSet(t)
  BY FS_Subset
<1>2. PICK t \in Bad : \A u \in Bad : Cardinality(t) <= Cardinality(u)
  <2> HIDE DEF Bad
  <2> QED BY <1>1, SmallestSet
<1>3. /\ h[t] = IF t = {} THEN 0 ELSE f[First(t)] + h[t \ {First(t)}]
      /\ k[t] = IF t = {} THEN 0 ELSE g[First(t)] + k[t \ {First(t)}]
  BY DEF SumsUp
<1>4. t # {} /\ First(t) \in t
  BY <1>3, FirstIsIn
<1>5. t \ {First(t)} \notin Bad
  <2>1. /\ Cardinality(t) \in Nat /\ Cardinality(t \ {First(t)}) \in Nat
        /\ Cardinality(t \ {First(t)}) < Cardinality(t)
    BY <1>1, <1>4, OneLess
  <2>2. ~(Cardinality(t) <= Cardinality(t \ {First(t)}))
    BY <2>1
  <2> QED BY <1>2, <2>2
<1> QED BY <1>3, <1>4, <1>5 DEF SameOn

\* The recursion, for the sum itself.
LEMMA TotalRecurs ==
    ASSUME NEW S, IsFiniteSet(S), NEW f
    PROVE  /\ S = {} => Total(S, f) = 0
           /\ S # {} => Total(S, f) = f[First(S)] + Total(S \ {First(S)}, f)
<1> DEFINE h == CHOOSE i : SumsUp(i, S, f)
           T == S \ {First(S)}
           k == CHOOSE i : SumsUp(i, T, f)
<1>1. SumsUp(h, S, f)
  BY SumExists
<1>2. SumsUp(k, T, f)
  <2>1. IsFiniteSet(T)
    BY FS_Subset
  <2> HIDE DEF T
  <2> QED BY <2>1, SumExists
<1>3. Total(S, f) = h[S] /\ Total(T, f) = k[T]
  BY DEF Total
<1>4. h[S] = IF S = {} THEN 0 ELSE f[First(S)] + h[T]
  <2> HIDE DEF h
  <2> QED BY <1>1 DEF SumsUp
<1>5. h[T] = k[T]
  <2>1. T \subseteq S /\ SameOn(T, f, f)
    BY DEF SameOn
  <2> HIDE DEF h, k, T
  <2> QED BY <1>1, <1>2, <2>1, SumsAgree
<1> HIDE DEF h, k
<1> QED BY <1>3, <1>4, <1>5

\* Only the numbers of the elements count.
LEMMA TotalDepends ==
    ASSUME NEW S, IsFiniteSet(S), NEW f, NEW g, \A x \in S : f[x] = g[x]
    PROVE  Total(S, f) = Total(S, g)
<1> DEFINE h == CHOOSE i : SumsUp(i, S, f)
           k == CHOOSE i : SumsUp(i, S, g)
<1>1. SumsUp(h, S, f) /\ SumsUp(k, S, g)
  BY SumExists
<1>2. Total(S, f) = h[S] /\ Total(S, g) = k[S]
  BY DEF Total
<1> HIDE DEF h, k
<1>3. S \subseteq S /\ SameOn(S, f, g)
  BY DEF SameOn
<1>4. h[S] = k[S]
  BY <1>1, <1>3, SumsAgree
<1> QED BY <1>2, <1>4

\* In whatever order they are taken.
LEMMA TotalTakes ==
    ASSUME NEW D, IsFiniteSet(D), NEW f, \A x \in D : f[x] \in Int
    PROVE  \A S \in SUBSET D : /\ Total(S, f) \in Int
                               /\ \A x \in S : Total(S, f) = f[x] + Total(S \ {x}, f)
<1> DEFINE OK(S) == /\ Total(S, f) \in Int
                    /\ \A x \in S : Total(S, f) = f[x] + Total(S \ {x}, f)
           Bad == {S \in SUBSET D : ~OK(S)}
<1> SUFFICES ASSUME Bad # {} PROVE FALSE
  OBVIOUS
<1>1. \A S \in SUBSET D : IsFiniteSet(S)
  BY FS_Subset
<1>2. PICK S \in Bad : \A T \in Bad : Cardinality(S) <= Cardinality(T)
  <2>1. \A T \in Bad : IsFiniteSet(T)
    BY <1>1
  <2> HIDE DEF Bad
  <2> QED BY <2>1, SmallestSet
<1>3. S \in SUBSET D /\ ~OK(S) /\ IsFiniteSet(S)
  BY <1>1
<1>4. ASSUME NEW x \in S PROVE OK(S \ {x})
  <2>1. /\ Cardinality(S) \in Nat /\ Cardinality(S \ {x}) \in Nat
        /\ Cardinality(S \ {x}) < Cardinality(S)
    BY <1>3, OneLess
  <2>2. ~(Cardinality(S) <= Cardinality(S \ {x}))
    BY <2>1
  <2>3. S \ {x} \notin Bad /\ S \ {x} \in SUBSET D
    BY <1>2, <1>3, <2>2
  <2> HIDE DEF OK
  <2> QED BY <2>3
<1>5. CASE S = {}
  BY <1>3, <1>5, TotalRecurs
<1>6. CASE S # {}
  <2> DEFINE p == First(S)
  <2>1. p \in S /\ f[p] \in Int
    BY <1>3, <1>6, FirstIsIn
  <2>2. Total(S, f) = f[p] + Total(S \ {p}, f)
    BY <1>3, <1>6, TotalRecurs
  <2> HIDE DEF p
  <2>3. Total(S \ {p}, f) \in Int
    BY <1>4, <2>1
  <2>4. Total(S, f) \in Int
    BY <2>1, <2>2, <2>3
  <2>5. ASSUME NEW x \in S, x # p
        PROVE  Total(S, f) = f[x] + Total(S \ {x}, f)
    <3>1. /\ Total(S \ {p}, f) = f[x] + Total((S \ {p}) \ {x}, f)
          /\ Total(S \ {x}, f) = f[p] + Total((S \ {x}) \ {p}, f)
          /\ Total(S \ {x}, f) \in Int
      BY <1>4, <2>1, <2>5
    <3>2. (S \ {p}) \ {x} = (S \ {x}) \ {p}
      OBVIOUS
    <3>3. f[x] \in Int
      BY <1>3
    <3>4. Total((S \ {p}) \ {x}, f) \in Int
      <4>1. IsFiniteSet(S \ {p}) /\ x \in S \ {p}
        BY <1>3, <2>5, OneLess, <2>1
      <4>2. /\ Cardinality(S) \in Nat /\ Cardinality(S \ {p}) \in Nat
            /\ Cardinality(S \ {p}) < Cardinality(S)
            /\ Cardinality((S \ {p}) \ {x}) \in Nat
            /\ Cardinality((S \ {p}) \ {x}) < Cardinality(S \ {p})
        BY <1>3, <2>1, <4>1, OneLess
      <4>3. ~(Cardinality(S) <= Cardinality((S \ {p}) \ {x}))
        BY <4>2
      <4>4. (S \ {p}) \ {x} \notin Bad /\ (S \ {p}) \ {x} \in SUBSET D
        BY <1>2, <1>3, <4>3
      <4> DEFINE u == (S \ {p}) \ {x}
      <4> HIDE DEF u
      <4>5. OK(u)
        <5> HIDE DEF OK
        <5> QED BY <4>4 DEF u
      <4> QED BY <4>5 DEF u
    <3> DEFINE a == Total((S \ {p}) \ {x}, f)
               b == Total(S \ {x}, f)
               c == Total(S \ {p}, f)
    <3>5. b = f[p] + a /\ c = f[x] + a
      BY <3>1, <3>2
    <3> HIDE DEF a, b, c
    <3>6. a \in Int
      BY <3>4 DEF a
    <3>7. f[p] + c = f[x] + b
      BY <2>1, <3>3, <3>5, <3>6
    <3> QED BY <2>2, <3>7 DEF b, c
  <2>6. OK(S)
    BY <2>2, <2>4, <2>5
  <2> QED BY <1>3, <2>6
<1> QED BY <1>5, <1>6

\* The total of a set is that of any two parts of it.
LEMMA TotalOfParts ==
    ASSUME NEW D, IsFiniteSet(D), NEW f, \A x \in D : f[x] \in Int
    PROVE  \A A \in SUBSET D : Total(D, f) = Total(A, f) + Total(D \ A, f)
<1> DEFINE OK(A) == Total(D, f) = Total(A, f) + Total(D \ A, f)
           Bad == {A \in SUBSET D : ~OK(A)}
<1> SUFFICES ASSUME Bad # {} PROVE FALSE
  OBVIOUS
<1>1. \A A \in SUBSET D : IsFiniteSet(A)
  BY FS_Subset
<1>2. PICK A \in Bad : \A T \in Bad : Cardinality(A) <= Cardinality(T)
  <2>1. \A T \in Bad : IsFiniteSet(T)
    BY <1>1
  <2> HIDE DEF Bad
  <2> QED BY <2>1, SmallestSet
<1>3. A \in SUBSET D /\ ~OK(A) /\ IsFiniteSet(A)
  BY <1>1
<1>4. \A T \in SUBSET D : Total(T, f) \in Int /\ \A x \in T : Total(T, f) = f[x] + Total(T \ {x}, f)
  BY TotalTakes
<1>5. CASE A = {}
  <2>1. Total(A, f) = 0 /\ D \ A = D /\ Total(D, f) \in Int
    BY <1>3, <1>4, <1>5, TotalRecurs
  <2>2. Total(D \ A, f) = Total(D, f)
    BY <2>1
  <2> DEFINE a == Total(A, f)
             c == Total(D \ A, f)
             d == Total(D, f)
  <2>3. a = 0 /\ d = c /\ d \in Int /\ d # a + c
    BY <1>3, <2>1, <2>2
  <2> HIDE DEF a, c, d
  <2> QED BY <2>3
<1>6. ASSUME NEW x \in A PROVE FALSE
  <2> DEFINE B == A \ {x}
             E == D \ B
  <2>1. /\ Cardinality(A) \in Nat /\ Cardinality(B) \in Nat
        /\ Cardinality(B) < Cardinality(A)
    BY <1>3, OneLess
  <2>2. ~(Cardinality(A) <= Cardinality(B))
    BY <2>1
  <2>3. B \notin Bad /\ B \in SUBSET D
    BY <1>2, <1>3, <2>2
  <2>4. x \in E /\ E \in SUBSET D /\ E \ {x} = D \ A /\ D \ A \in SUBSET D /\ x \in D
    BY <1>3
  <2> DEFINE u == B
  <2> HIDE DEF u
  <2>5. OK(u)
    <3> HIDE DEF OK
    <3> QED BY <2>3 DEF u
  <2>6. Total(D, f) = Total(B, f) + Total(E, f)
    BY <2>5 DEF u
  <2> HIDE DEF E, B
  <2>7. Total(A, f) = f[x] + Total(B, f)
    BY <1>3, <1>4 DEF B
  <2>8. Total(E, f) = f[x] + Total(D \ A, f)
    <3>1. Total(E, f) = f[x] + Total(E \ {x}, f)
      BY <1>4, <2>4
    <3> QED BY <2>4, <3>1
  <2>9. Total(B, f) \in Int /\ Total(D \ A, f) \in Int /\ f[x] \in Int
    BY <1>4, <2>3, <2>4
  <2> DEFINE a == Total(A, f)
             b == Total(B, f)
             c == Total(D \ A, f)
             e == Total(E, f)
  <2>10. Total(D, f) = b + e /\ a = f[x] + b /\ e = f[x] + c /\ b \in Int /\ c \in Int /\ f[x] \in Int
    BY <2>6, <2>7, <2>8, <2>9
  <2> HIDE DEF a, b, c, e
  <2>11. b + e = a + c
    BY <2>10
  <2> QED BY <1>3, <2>10, <2>11 DEF a, c
<1> QED BY <1>5, <1>6

\* Zeros add up to zero.
LEMMA TotalOfNothing ==
    ASSUME NEW D, IsFiniteSet(D), NEW f, \A x \in D : f[x] = 0
    PROVE  Total(D, f) = 0
<1> DEFINE Bad == {A \in SUBSET D : Total(A, f) # 0}
<1> SUFFICES ASSUME Bad # {} PROVE FALSE
  OBVIOUS
<1>1. \A A \in SUBSET D : IsFiniteSet(A)
  BY FS_Subset
<1>2. PICK A \in Bad : \A T \in Bad : Cardinality(A) <= Cardinality(T)
  <2>1. \A T \in Bad : IsFiniteSet(T)
    BY <1>1
  <2> HIDE DEF Bad
  <2> QED BY <2>1, SmallestSet
<1>3. IsFiniteSet(A) /\ A # {} /\ First(A) \in A
  BY <1>1, TotalRecurs, FirstIsIn
<1>4. Total(A, f) = f[First(A)] + Total(A \ {First(A)}, f)
  BY <1>3, TotalRecurs
<1>5. A \ {First(A)} \notin Bad
  <2>1. /\ Cardinality(A) \in Nat /\ Cardinality(A \ {First(A)}) \in Nat
        /\ Cardinality(A \ {First(A)}) < Cardinality(A)
    BY <1>3, OneLess
  <2>2. ~(Cardinality(A) <= Cardinality(A \ {First(A)}))
    BY <2>1
  <2> QED BY <1>2, <2>2
<1> QED BY <1>3, <1>4, <1>5

\* Natural numbers add up to one.
LEMMA TotalIsNat ==
    ASSUME NEW D, IsFiniteSet(D), NEW f, \A x \in D : f[x] \in Nat
    PROVE  Total(D, f) \in Nat
<1> DEFINE Bad == {A \in SUBSET D : Total(A, f) \notin Nat}
<1> SUFFICES ASSUME Bad # {} PROVE FALSE
  OBVIOUS
<1>1. \A A \in SUBSET D : IsFiniteSet(A)
  BY FS_Subset
<1>2. PICK A \in Bad : \A T \in Bad : Cardinality(A) <= Cardinality(T)
  <2>1. \A T \in Bad : IsFiniteSet(T)
    BY <1>1
  <2> HIDE DEF Bad
  <2> QED BY <2>1, SmallestSet
<1>3. IsFiniteSet(A) /\ A # {} /\ First(A) \in A /\ f[First(A)] \in Nat
  <2>1. IsFiniteSet(A) /\ A \subseteq D
    BY <1>1
  <2>2. A # {}
    <3>1. Total({}, f) \in Nat /\ Total(A, f) \notin Nat
      BY FS_EmptySet, TotalRecurs
    <3> QED BY <3>1
  <2> QED BY <2>1, <2>2, FirstIsIn
<1>4. Total(A, f) = f[First(A)] + Total(A \ {First(A)}, f)
  BY <1>3, TotalRecurs
<1>5. A \ {First(A)} \notin Bad
  <2>1. /\ Cardinality(A) \in Nat /\ Cardinality(A \ {First(A)}) \in Nat
        /\ Cardinality(A \ {First(A)}) < Cardinality(A)
    BY <1>3, OneLess
  <2>2. ~(Cardinality(A) <= Cardinality(A \ {First(A)}))
    BY <2>1
  <2> QED BY <1>2, <2>2
<1> QED BY <1>3, <1>4, <1>5

-----------------------------------------------------------------------------
(* What the records add up to                                              *)

Amounts(A) == MapThenSumSet(LAMBDA s : s.amount, A)
Charges(A) == MapThenSumSet(LAMBDA s : s.charged, A)
Reserved == {s \in spend : s.status = "reserved"}
Charged(A) == {s \in A : s.charged > 0}

Records(A) ==
    IsFiniteSet(A) /\ \A s \in A : s.amount \in Nat /\ s.charged \in Nat

\* The sums of the model are sums in this sense.
LEMMA AmountsTotal == ASSUME NEW A PROVE Amounts(A) = Total(A, [s \in A |-> s.amount])
BY DEF Amounts, MapThenSumSet, MapThenFoldSet, Total, SumsUp, First

LEMMA ChargesTotal == ASSUME NEW A PROVE Charges(A) = Total(A, [s \in A |-> s.charged])
BY DEF Charges, MapThenSumSet, MapThenFoldSet, Total, SumsUp, First

\* A total over a part of a set, with the numbers of the whole.
LEMMA PartsTotal ==
    ASSUME NEW D, IsFiniteSet(D), NEW A, A \subseteq D
    PROVE  /\ Amounts(A) = Total(A, [s \in D |-> s.amount])
           /\ Charges(A) = Total(A, [s \in D |-> s.charged])
<1>1. IsFiniteSet(A)
  BY FS_Subset
<1>2. Total(A, [s \in A |-> s.amount]) = Total(A, [s \in D |-> s.amount])
  <2> DEFINE f == [s \in A |-> s.amount]
             g == [s \in D |-> s.amount]
  <2>1. \A s \in A : f[s] = g[s]
    OBVIOUS
  <2> HIDE DEF f, g
  <2>2. Total(A, f) = Total(A, g)
    BY <1>1, <2>1, TotalDepends
  <2> QED BY <2>2 DEF f, g
<1>3. Total(A, [s \in A |-> s.charged]) = Total(A, [s \in D |-> s.charged])
  <2> DEFINE f == [s \in A |-> s.charged]
             g == [s \in D |-> s.charged]
  <2>1. \A s \in A : f[s] = g[s]
    OBVIOUS
  <2> HIDE DEF f, g
  <2>2. Total(A, f) = Total(A, g)
    BY <1>1, <2>1, TotalDepends
  <2> QED BY <2>2 DEF f, g
<1> QED BY <1>2, <1>3, AmountsTotal, ChargesTotal

\* The parts of a set add up to it.
LEMMA PartsAddUp ==
    ASSUME NEW D, Records(D), NEW A, A \subseteq D
    PROVE  /\ Amounts(A) \in Int /\ Amounts(D \ A) \in Int /\ Amounts(D) = Amounts(A) + Amounts(D \ A)
           /\ Charges(A) \in Int /\ Charges(D \ A) \in Int /\ Charges(D) = Charges(A) + Charges(D \ A)
<1> DEFINE f == [s \in D |-> s.amount]
           g == [s \in D |-> s.charged]
<1>1. IsFiniteSet(D) /\ (\A s \in D : f[s] \in Int) /\ (\A s \in D : g[s] \in Int)
  BY DEF Records
<1>2. \A B \in SUBSET D : Amounts(B) = Total(B, f) /\ Charges(B) = Total(B, g)
  BY <1>1, PartsTotal
<1> HIDE DEF f, g
<1>3. /\ \A B \in SUBSET D : Total(B, f) \in Int /\ Total(D, f) = Total(B, f) + Total(D \ B, f)
      /\ \A B \in SUBSET D : Total(B, g) \in Int /\ Total(D, g) = Total(B, g) + Total(D \ B, g)
  BY <1>1, TotalTakes, TotalOfParts
<1>4. A \in SUBSET D /\ D \ A \in SUBSET D /\ D \in SUBSET D
  OBVIOUS
<1> QED BY <1>2, <1>3, <1>4

\* A record alone.
LEMMA OneRecord ==
    ASSUME NEW s, s.amount \in Nat, s.charged \in Nat
    PROVE  Amounts({s}) = s.amount /\ Charges({s}) = s.charged
<1> DEFINE f == [t \in {s} |-> t.amount]
           g == [t \in {s} |-> t.charged]
<1>1. f[s] = s.amount /\ g[s] = s.charged /\ s \in {s} /\ IsFiniteSet({s})
  BY FS_Singleton
<1>2. Amounts({s}) = Total({s}, f) /\ Charges({s}) = Total({s}, g)
  BY AmountsTotal, ChargesTotal
<1> HIDE DEF f, g
<1>3. First({s}) = s /\ {s} \ {s} = {} /\ {s} # {}
  BY FirstIsIn
<1>4. IsFiniteSet({}) /\ Total({}, f) = 0 /\ Total({}, g) = 0
  BY FS_EmptySet, TotalRecurs
<1>5. Total({s}, f) = f[s] + Total({}, f) /\ Total({s}, g) = g[s] + Total({}, g)
  BY <1>1, <1>3, TotalRecurs
<1> QED BY <1>1, <1>2, <1>4, <1>5

\* A record that is new to a set adds its own, and so does one that says nothing.
LEMMA OneMore ==
    ASSUME NEW D, Records(D), NEW s, s.amount \in Nat, s.charged \in Nat
    PROVE  /\ s \notin D \/ s.amount = 0 => Amounts(D \cup {s}) = Amounts(D) + s.amount
           /\ s \notin D \/ s.charged = 0 => Charges(D \cup {s}) = Charges(D) + s.charged
<1> DEFINE E == D \cup {s}
           a == Amounts(D)
           c == Charges(D)
<1>1. Records(E) /\ {s} \subseteq E /\ Records(D) /\ D \subseteq D
  BY FS_AddElement DEF Records
<1>2. Amounts({s}) = s.amount /\ Charges({s}) = s.charged
  BY OneRecord
<1>3. a \in Int /\ c \in Int
  BY <1>1, PartsAddUp
<1>4. CASE s \notin D
  <2>1. E \ {s} = D
    BY <1>4
  <2> HIDE DEF E
  <2>2. Amounts(E) = s.amount + a /\ Charges(E) = s.charged + c
    <3>1. /\ Amounts(E) = Amounts({s}) + Amounts(E \ {s})
          /\ Charges(E) = Charges({s}) + Charges(E \ {s})
      BY <1>1, PartsAddUp
    <3> QED BY <1>2, <2>1, <3>1
  <2> HIDE DEF a, c
  <2>3. Amounts(E) = a + s.amount /\ Charges(E) = c + s.charged
    BY <1>3, <2>2
  <2> QED BY <2>3 DEF E, a, c
<1>5. CASE s \in D
  <2>1. E = D
    BY <1>5
  <2>2. Amounts(E) = a /\ Charges(E) = c
    BY <2>1
  <2> HIDE DEF E, a, c
  <2>3. (s.amount = 0 => Amounts(E) = a + s.amount) /\ (s.charged = 0 => Charges(E) = c + s.charged)
    BY <1>3, <2>2
  <2> QED BY <1>5, <2>3 DEF E, a, c
<1> QED BY <1>4, <1>5

\* What is not charged adds nothing.
LEMMA ChargesOfCharged ==
    ASSUME NEW D, Records(D)
    PROVE  Charges(D) = Charges(Charged(D))
<1> DEFINE Z == D \ Charged(D)
           f == [s \in Z |-> s.charged]
<1>1. Charged(D) \subseteq D /\ IsFiniteSet(Z)
  BY FS_Subset DEF Charged, Records
<1>2. \A s \in Z : f[s] = 0
  BY DEF Charged, Records
<1>3. Charges(Z) = Total(Z, f)
  BY ChargesTotal
<1>4. Charges(Z) = 0
  <2> HIDE DEF f, Z
  <2> QED BY <1>1, <1>2, <1>3, TotalOfNothing
<1>5. Charges(D) = Charges(Charged(D)) + Charges(Z) /\ Charges(Charged(D)) \in Int
  <2> HIDE DEF f
  <2> QED BY <1>1, PartsAddUp
<1> HIDE DEF Z
<1> QED BY <1>4, <1>5

\* Amounts are not negative, nor is what they add up to.
LEMMA AmountsAreNat == ASSUME NEW D, Records(D) PROVE Amounts(D) \in Nat
<1> DEFINE f == [s \in D |-> s.amount]
<1>1. IsFiniteSet(D) /\ \A s \in D : f[s] \in Nat
  BY DEF Records
<1>2. Amounts(D) = Total(D, f)
  BY AmountsTotal
<1> HIDE DEF f
<1> QED BY <1>1, <1>2, TotalIsNat

-----------------------------------------------------------------------------
(* The columns and the records                                             *)

\* The columns are what the records add up to; what is reserved is not charged
\* yet, and a request offers a number.
MoneyInv ==
    /\ money = [f \in {"ceiling", "spent", "reserved"} |-> money[f]]
    /\ money.ceiling \in Int
    /\ \A s \in spend : s.status = "reserved" => s.charged = 0
    /\ BudgetColumnsAgree
    /\ \A q \in Request : request[q].max \in Int

\* What the columns are, while they agree with the records.
LEMMA SpendSums ==
    ASSUME SpendInv, MoneyInv
    PROVE  /\ Records(spend) /\ Records(Reserved) /\ Records(Charged(spend))
           /\ money.reserved = Amounts(Reserved) /\ money.spent = Charges(spend)
           /\ money.reserved \in Int /\ money.spent \in Int /\ money.ceiling \in Int
           /\ money.spent + money.reserved <= money.ceiling
<1>1. Records(spend) /\ Records(Reserved) /\ Records(Charged(spend))
  BY FS_Subset DEF SpendInv, SpendOK, Records, Reserved, Charged
<1>2. money.reserved = Amounts(Reserved) /\ money.spent = Charges(spend)
  BY DEF MoneyInv, BudgetColumnsAgree, Amounts, Charges, Reserved
<1>3. Reserved \subseteq Reserved /\ spend \subseteq spend
  OBVIOUS
<1>4. Amounts(Reserved) \in Int /\ Charges(spend) \in Int
  BY <1>1, <1>3, PartsAddUp
<1> QED BY <1>1, <1>2, <1>4 DEF MoneyInv, BudgetColumnsAgree

\* What a step of the columns has to show.
Balanced ==
    /\ money' = [f \in {"ceiling", "spent", "reserved"} |-> money'[f]]
    /\ money'.ceiling \in Int
    /\ \A s \in spend' : s.status = "reserved" => s.charged = 0
    /\ money'.reserved = Amounts(Reserved') /\ money'.spent = Charges(spend')
    /\ money'.spent + money'.reserved <= money'.ceiling

\* A step that balances keeps the invariant.
LEMMA BalancedIsKept ==
    ASSUME Balanced, \A q \in Request : request'[q].max \in Int
    PROVE  MoneyInv'
<1>1. BudgetColumnsAgree'
  BY DEF Balanced, BudgetColumnsAgree, Amounts, Charges, Reserved, MapThenSumSet, MapThenFoldSet
<1> QED BY <1>1 DEF Balanced, MoneyInv

Columns(m, r, p, c) ==
    /\ m = [f \in {"ceiling", "spent", "reserved"} |-> m[f]]
    /\ m.reserved = r /\ m.spent = p /\ m.ceiling = c

\* What an assignment to the columns writes.
LEMMA MoneyWritten ==
    ASSUME MoneyInv, NEW a, NEW b
    PROVE  /\ Columns([money EXCEPT !.reserved = a], a, money.spent, money.ceiling)
           /\ Columns([money EXCEPT !.reserved = a, !.spent = b], a, b, money.ceiling)
           /\ Columns([money EXCEPT !.ceiling = a], money.reserved, money.spent, a)
<1>1. Columns([money EXCEPT !.reserved = a], a, money.spent, money.ceiling)
  BY DEF MoneyInv, Columns
<1>2. Columns([money EXCEPT !.reserved = a, !.spent = b], a, b, money.ceiling)
  BY DEF MoneyInv, Columns
<1>3. Columns([money EXCEPT !.ceiling = a], money.reserved, money.spent, a)
  BY DEF MoneyInv, Columns
<1> QED BY <1>1, <1>2, <1>3

\* A reservation adds a record and its amount.
LEMMA ReservingBalances ==
    ASSUME SpendInv, MoneyInv, NEW rev, NEW k \in Nat, NEW amount \in Nat, k # 0 => amount = 0,
           k = 0 => SpendOf(rev, 0) = {}, ReserveFits(amount), ReserveSpend(rev, k, amount)
    PROVE  Balanced
<1> DEFINE new == [rev |-> rev, k |-> k, amount |-> amount, status |-> "reserved", charged |-> 0]
           r == money.reserved
<1>1. /\ spend' = spend \cup {new} /\ money' = [money EXCEPT !.reserved = r + amount]
      /\ new.status = "reserved" /\ new.amount = amount /\ new.charged = 0
      /\ amount # 0 => new \notin spend
  BY DEF ReserveSpend, SpendOf
<1> HIDE DEF new
<1>2. Reserved' = Reserved \cup {new}
  BY <1>1 DEF Reserved
<1>3. new \notin Reserved \/ new.amount = 0
  BY <1>1 DEF Reserved
<1>4. Amounts(Reserved') = r + amount /\ Charges(spend') = money.spent + 0
  <2>1. Amounts(Reserved \cup {new}) = Amounts(Reserved) + new.amount
    BY <1>1, <1>3, SpendSums, OneMore
  <2>2. Charges(spend \cup {new}) = Charges(spend) + new.charged
    BY <1>1, SpendSums, OneMore
  <2> QED BY <1>1, <1>2, <2>1, <2>2, SpendSums
<1>5. r \in Int /\ money.spent \in Int /\ money.ceiling \in Int /\ money.spent + r + amount <= money.ceiling
  BY SpendSums DEF ReserveFits
<1>6. Columns(money', r + amount, money.spent, money.ceiling)
  BY <1>1, MoneyWritten
<1>7. \A s \in spend' : s.status = "reserved" => s.charged = 0
  BY <1>1 DEF MoneyInv
<1> HIDE DEF r
<1> QED BY <1>4, <1>5, <1>6, <1>7 DEF Balanced, Columns

\* A captured record moves from the one column to the other.
LEMMA SettlingBalances ==
    ASSUME SpendInv, MoneyInv, NEW s \in spend, s.status = "reserved", NEW status \in {"captured", "released"},
           NEW actual \in Nat, SettleSpend(s, status, actual)
    PROVE  Balanced
<1> DEFINE c == IF status = "captured" THEN Min({actual, s.amount}) ELSE 0
           new == [s EXCEPT !.status = status, !.charged = c]
           r == money.reserved
           p == money.spent
           a == s.amount
<1>1. SpendOK(s) /\ a \in Nat
  BY DEF SpendInv, SpendOK
<1>2. c \in Nat /\ c <= a
  BY <1>1, LesserOfTwo
<1>3. spend' = (spend \ {s}) \cup {new} /\ money' = [money EXCEPT !.reserved = r - a, !.spent = p + c]
  BY DEF SettleSpend
<1> HIDE DEF c
<1>4. new.status = status /\ new.charged = c /\ new.amount = a /\ new.rev = s.rev /\ new.k = s.k /\ new # s
  BY <1>1 DEF SpendOK
<1> HIDE DEF new
<1>5. Reserved' = Reserved \ {s} /\ s \in Reserved
  BY <1>3, <1>4 DEF Reserved
<1>6. Amounts(Reserved') = r - a
  <2>1. Amounts(Reserved) = Amounts({s}) + Amounts(Reserved \ {s}) /\ Amounts(Reserved \ {s}) \in Int
    <3>1. {s} \subseteq Reserved
      BY <1>5
    <3> QED BY <3>1, SpendSums, PartsAddUp
  <2>2. Amounts({s}) = a
    BY <1>1, OneRecord DEF SpendOK
  <2> DEFINE b == Amounts(Reserved \ {s})
  <2>3. r = a + b /\ b \in Int /\ Amounts(Reserved') = b
    BY <1>5, <2>1, <2>2, SpendSums
  <2> HIDE DEF r, a, b
  <2> QED BY <1>1, <2>3
<1>7. Charges(spend') = p + c
  <2>1. Records(spend')
    <3>1. SpendInv'
      BY RecordSettled
    <3> QED BY <3>1 DEF SpendInv, SpendOK, Records
  <2>2. s \notin Charged(spend)
    BY DEF MoneyInv, Charged
  <2>3. new.charged \in Nat /\ new.amount \in Nat
    BY <1>1, <1>2, <1>4
  <2>4. Charges(spend') = Charges(Charged(spend')) /\ p = Charges(Charged(spend)) /\ p \in Int
    BY <2>1, SpendSums, ChargesOfCharged
  <2>5. CASE c = 0
    <3>1. Charged(spend') = Charged(spend)
      BY <1>3, <1>4, <2>2, <2>5 DEF Charged
    <3> HIDE DEF p
    <3> QED BY <2>4, <2>5, <3>1
  <2>6. CASE c # 0
    <3>1. Charged(spend') = Charged(spend) \cup {new}
      BY <1>2, <1>3, <1>4, <2>2, <2>6 DEF Charged
    <3>2. s.k = 0
      BY <1>1, <1>2, <2>6 DEF SpendOK
    <3>3. new \notin Charged(spend)
      BY <1>4, <3>2 DEF SpendInv, Charged
    <3>4. Charges(Charged(spend) \cup {new}) = Charges(Charged(spend)) + new.charged
      BY <2>3, <3>3, SpendSums, OneMore
    <3> HIDE DEF p
    <3> QED BY <1>4, <2>4, <3>1, <3>4
  <2> QED BY <2>5, <2>6
<1>8. r \in Int /\ p \in Int /\ money.ceiling \in Int /\ p + r <= money.ceiling
  BY SpendSums
<1>9. Columns(money', r - a, p + c, money.ceiling)
  <2> DEFINE u == r - a
             v == p + c
  <2>1. money' = [money EXCEPT !.reserved = u, !.spent = v]
    BY <1>3
  <2> HIDE DEF u, v
  <2>2. Columns(money', u, v, money.ceiling)
    BY <2>1, MoneyWritten
  <2> QED BY <2>2 DEF u, v
<1>10. \A t \in spend' : t.status = "reserved" => t.charged = 0
  BY <1>3, <1>4 DEF MoneyInv
<1> HIDE DEF r, p, a
<1>11. (p + c) + (r - a) <= money.ceiling
  BY <1>1, <1>2, <1>8
<1> QED BY <1>6, <1>7, <1>8, <1>9, <1>10, <1>11 DEF Balanced, Columns

\* A released record leaves the reserved column.
LEMMA ReleasingBalances ==
    ASSUME SpendInv, MoneyInv, NEW w \in Tick, ReleaseOrphan(w)
    PROVE  Balanced \/ UNCHANGED <<spend, money>>
<1>1. PICK s : OrphanSettled(s)
  BY DEF ReleaseOrphan, OrphanSettled
<1> QED BY <1>1, SettlingBalances DEF OrphanSettled

\* Of the greater of two numbers.
LEMMA GreaterOfTwo == \A a, b \in Int : Max({a, b}) \in Int /\ a <= Max({a, b})
<1> SUFFICES ASSUME NEW a \in Int, NEW b \in Int PROVE Max({a, b}) \in Int /\ a <= Max({a, b})
  OBVIOUS
<1>1. \E x \in {a, b} : \A y \in {a, b} : x >= y
  <2>1. CASE a <= b
    BY <2>1
  <2>2. CASE ~(a <= b)
    BY <2>2
  <2> QED BY <2>1, <2>2
<1> DEFINE m == CHOOSE x \in {a, b} : \A y \in {a, b} : x >= y
<1>2. m \in {a, b} /\ \A y \in {a, b} : m >= y
  BY <1>1
<1>3. Max({a, b}) = m
  BY DEF Max
<1> HIDE DEF m
<1> QED BY <1>2, <1>3

\* A higher ceiling holds what a lower one held.
LEMMA RaisingBalances ==
    ASSUME BuildInv, SpendInv, MoneyInv, NEW q \in Request, RaiseBudget(q)
    PROVE  Balanced
<1> DEFINE c == Max({money.ceiling, request[q].max})
<1>1. money' = [money EXCEPT !.ceiling = c] /\ spend' = spend
  BY DEF RaiseBudget
<1>2. /\ money.reserved \in Int /\ money.spent \in Int /\ money.ceiling \in Int
      /\ money.spent + money.reserved <= money.ceiling
      /\ money.reserved = Amounts(Reserved) /\ money.spent = Charges(spend)
  BY SpendSums
<1>3. c \in Int /\ money.ceiling <= c
  BY <1>2, GreaterOfTwo DEF MoneyInv
<1> HIDE DEF c
<1>4. Columns(money', money.reserved, money.spent, c)
  BY <1>1, MoneyWritten
<1>5. Reserved' = Reserved /\ \A s \in spend' : s.status = "reserved" => s.charged = 0
  BY <1>1 DEF Reserved, MoneyInv
<1>6. money.spent + money.reserved <= c
  BY <1>2, <1>3
<1> QED BY <1>1, <1>2, <1>3, <1>4, <1>5, <1>6 DEF Balanced, Columns

\* A call is let in only where it fits under the ceiling.
LEMMA ReserveBalances ==
    ASSUME SpendInv, MoneyInv, NEW w \in Tick, Reserve(w)
    PROVE  Balanced \/ UNCHANGED <<spend, money>>
<1> DEFINE rev  == tick[w].task.rev
           mine == SpendOf(rev, 0)
           all  == {s \in spend : s.rev = rev}
           next == Cardinality(all)
<1>1. CallCost \in Nat /\ RerunAmount \in Nat
  BY DevConstants DEF RerunAmount
<1>2. \/ mine = {} /\ ReserveFits(CallCost) /\ ReserveSpend(rev, 0, CallCost)
      \/ UNCHANGED <<spend, money>>
      \/ mine # {} /\ ReserveFits(RerunAmount) /\ ReserveSpend(rev, next, RerunAmount)
  BY DEF Reserve
<1>3. CASE mine = {} /\ ReserveFits(CallCost) /\ ReserveSpend(rev, 0, CallCost)
  BY <1>1, <1>3, ReservingBalances
<1>4. CASE mine # {} /\ ReserveFits(RerunAmount) /\ ReserveSpend(rev, next, RerunAmount)
  <2>1. IsFiniteSet(all) /\ all # {}
    BY <1>4, FS_Subset DEF SpendInv, SpendOf
  <2>2. next \in Nat /\ next # 0
    BY <2>1, FS_CardinalityType, FS_EmptySet
  <2>3. RerunAmount = 0
    BY DEF RerunAmount
  <2> HIDE DEF next
  <2> QED BY <1>1, <1>4, <2>2, <2>3, ReservingBalances
<1> QED BY <1>2, <1>3, <1>4

\* A call that ends captures what it cost, or gives its reservation back.
LEMMA CallsBalance ==
    ASSUME SpendInv, MoneyInv, NEW w \in Tick, Captured(w) \/ CallFails(w)
    PROVE  Balanced \/ UNCHANGED <<spend, money>>
<1>1. CallCost \in Nat
  BY DevConstants
<1>2. \/ UNCHANGED <<spend, money>>
      \/ \E s \in spend, status \in {"captured", "released"} :
            s.status = "reserved" /\ SettleSpend(s, status, CallCost)
  <2>1. CASE Captured(w)
    BY <2>1 DEF Captured, SpendOf
  <2>2. CASE CallFails(w)
    <3>1. PICK s, sort : s \in SpendOf(tick[w].task.rev, tick[w].k) /\
             LET to == IF sort = "invalid" THEN "captured" ELSE "released"
             IN  IF s.status = "reserved" THEN SettleSpend(s, to, CallCost) ELSE UNCHANGED <<spend, money>>
      BY <2>2 DEF CallFails
    <3>2. s \in spend
      BY <3>1 DEF SpendOf
    <3> QED BY <3>1, <3>2
  <2> QED BY <2>1, <2>2
<1> QED BY <1>1, <1>2, SettlingBalances

\* A request offers what the owner typed.
LEMMA OffersAreNumbers ==
    ASSUME BuildInv, MoneyInv, [Next]_vars
    PROVE  \A q \in Request : request'[q].max \in Int
<1>1. ASSUME request' = request PROVE \A q \in Request : request'[q].max \in Int
  BY <1>1 DEF MoneyInv
<1>2. ASSUME NEW q \in Request, NEW x, Ask(q, x), x.max \in Int
      PROVE  \A p \in Request : request'[p].max \in Int
  <2>1. \A p \in Request : request'[p] = IF p = q THEN x ELSE request[p]
    BY <1>2 DEF BuildInv, Ask
  <2> QED BY <1>2, <2>1 DEF MoneyInv
<1>3. IdleRequest.max \in Int /\ [IdleRequest EXCEPT !.at = "finish"].max \in Int
  BY DEF IdleRequest
<1>4. CASE UNCHANGED vars
  BY <1>1, <1>4 DEF vars
<1>5. CASE Create \/ LeaseLapses
  <2>1. request' = request
    BY <1>5 DEF Create, InsertBuild, SecureBuild, QueueBuild, CreatorDies, LeaseLapses
  <2> QED BY <1>1, <2>1
<1>6. CASE RecordPurchase \/ Retitle \/ Command \/ Cancel
  <2>1. request' = request
    BY <1>6 DEF RecordPurchase, Retitle, Command, Cancel
  <2> QED BY <1>1, <2>1
<1>7. ASSUME NEW q \in Request, NEW c \in DOMAIN changes, Deny(q, c)
      PROVE  \A p \in Request : request'[p].max \in Int
  <2>1. Ask(q, IdleRequest) \/ Ask(q, [IdleRequest EXCEPT !.at = "finish"])
    BY <1>7 DEF Deny
  <2> QED BY <1>2, <1>3, <2>1
<1>8. ASSUME NEW q \in Request, NEW c \in DOMAIN changes, NEW max \in {0} \cup Budget..MaxBudget,
             Approve(q, c, max)
      PROVE  \A p \in Request : request'[p].max \in Int
  <2> DEFINE at == IF max > money.ceiling THEN "secure" ELSE "resolve"
             x == [IdleRequest EXCEPT !.at = at, !.task = row, !.change = c, !.max = max,
                                      !.delta = max - money.ceiling]
  <2>1. Ask(q, x)
    BY <1>8 DEF Approve
  <2> HIDE DEF at
  <2>2. x.max = max
    BY DEF IdleRequest
  <2>3. max \in Int
    BY DevConstants
  <2> HIDE DEF x
  <2> QED BY <1>2, <2>1, <2>2, <2>3
<1>9. ASSUME NEW q \in Request, Handle(q) \/ RequestDies(q)
      PROVE  \A p \in Request : request'[p].max \in Int
  <2>1. /\ request[q] = [f \in {"at", "task", "change", "max", "delta"} |-> request[q][f]]
        /\ request[q].max \in Int
    BY DEF BuildInv, RequestOK, MoneyInv
  <2> DEFINE x == request[q]
  <2>2. /\ \A at : [x EXCEPT !.at = at].max \in Int
        /\ \A at, task : [x EXCEPT !.at = at, !.task = task].max \in Int
    BY <2>1
  <2>3. \/ Ask(q, IdleRequest)
        \/ \E at : Ask(q, [x EXCEPT !.at = at])
        \/ \E at, task : Ask(q, [x EXCEPT !.at = at, !.task = task])
    BY <1>9 DEF Handle, SecureIncrease, RaiseBudget, RecordRaise, ResolveChange, Resume, Finish, RequestDies
  <2> HIDE DEF x
  <2> QED BY <1>2, <1>3, <2>2, <2>3
<1>10. ASSUME NEW w \in Tick, Step(w) \/ Break(w)
       PROVE  \A q \in Request : request'[q].max \in Int
  <2>1. request' = request
    BY <1>10 DEF Step, Break, Claim, ListOrphans, ReleaseOrphan, OrphanStays, RecoverFunding, Start, Prepare,
       Reserve, AskForBudget, Plan, Implement, Review, Captured, AskAboutReview, Execute, Verify, MeterRefused,
       Save, ReadToSettle, Settle, ReleaseLease, LocalFails, CallFails, SettleFails, Crash
  <2> QED BY <1>1, <2>1
<1> QED BY <1>4, <1>5, <1>6, <1>7, <1>8, <1>9, <1>10 DEF Next, Owner

\* Every step keeps the columns and the records together.
LEMMA MoneyIsKept == ASSUME BuildInv, SpendInv, MoneyInv, [Next]_vars PROVE MoneyInv'
<1>0. \A q \in Request : request'[q].max \in Int
  BY OffersAreNumbers
<1>1. ASSUME UNCHANGED <<spend, money>> PROVE MoneyInv'
  <2>1. Reserved' = Reserved /\ Columns(money', money.reserved, money.spent, money.ceiling)
    BY <1>1 DEF Reserved, MoneyInv, Columns
  <2>2. Balanced
    BY <1>1, <2>1, SpendSums DEF Balanced, MoneyInv, Columns
  <2> QED BY <1>0, <2>2, BalancedIsKept
<1>2. ASSUME Balanced PROVE MoneyInv'
  BY <1>0, <1>2, BalancedIsKept
<1>3. CASE UNCHANGED vars
  BY <1>1, <1>3 DEF vars
<1>4. CASE Create \/ LeaseLapses
  <2>1. UNCHANGED <<spend, money>>
    BY <1>4 DEF Create, InsertBuild, SecureBuild, QueueBuild, CreatorDies, LeaseLapses
  <2> QED BY <1>1, <2>1
<1>5. CASE Owner
  <2>1. CASE RecordPurchase \/ Retitle \/ Command \/ Cancel
    <3>1. UNCHANGED <<spend, money>>
      BY <2>1 DEF RecordPurchase, Retitle, Command, Cancel
    <3> QED BY <1>1, <3>1
  <2>2. CASE \E q \in Request, c \in DOMAIN changes :
               Deny(q, c) \/ \E max \in {0} \cup Budget..MaxBudget : Approve(q, c, max)
    <3>1. UNCHANGED <<spend, money>>
      BY <2>2 DEF Deny, Approve
    <3> QED BY <1>1, <3>1
  <2>3. ASSUME NEW q \in Request, Handle(q) \/ RequestDies(q) PROVE MoneyInv'
    <3>1. UNCHANGED <<spend, money>> \/ RaiseBudget(q)
      BY <2>3 DEF Handle, SecureIncrease, RecordRaise, ResolveChange, Resume, Finish, RequestDies
    <3> QED BY <1>1, <1>2, <3>1, RaisingBalances
  <2> QED BY <1>5, <2>1, <2>2, <2>3 DEF Owner
<1>6. ASSUME NEW w \in Tick, Step(w) \/ Break(w) PROVE MoneyInv'
  <2>1. CASE Reserve(w)
    BY <1>1, <1>2, <2>1, ReserveBalances
  <2>2. CASE ReleaseOrphan(w)
    BY <1>1, <1>2, <2>2, ReleasingBalances
  <2>3. CASE Plan(w) \/ Implement(w) \/ Review(w) \/ CallFails(w)
    <3>1. Captured(w) \/ CallFails(w)
      BY <2>3 DEF Plan, Implement, Review
    <3> QED BY <1>1, <1>2, <3>1, CallsBalance
  <2>4. CASE \/ Claim(w) \/ RecoverFunding(w) \/ Start(w) \/ Prepare(w) \/ AskForBudget(w)
             \/ AskAboutReview(w) \/ Execute(w) \/ Verify(w) \/ MeterRefused(w) \/ Save(w)
             \/ Settle(w) \/ ReleaseLease(w) \/ LocalFails(w) \/ SettleFails(w) \/ Crash(w)
             \/ ListOrphans(w) \/ OrphanStays(w) \/ ReadToSettle(w)
    <3>1. UNCHANGED <<spend, money>>
      BY <2>4 DEF Claim, ListOrphans, OrphanStays, ReadToSettle, RecoverFunding, Start, Prepare, AskForBudget, AskAboutReview, Execute, Verify,
         MeterRefused, Save, Settle, ReleaseLease, LocalFails, SettleFails, Crash
    <3> QED BY <1>1, <3>1
  <2> QED BY <1>6, <2>1, <2>2, <2>3, <2>4 DEF Step, Break
<1> QED BY <1>3, <1>4, <1>5, <1>6 DEF Next

\* Records and columns are sound in every state.
LEMMA MoneyIsSound == Spec => [](SpendInv /\ MoneyInv)
<1>1. ASSUME Init PROVE SpendInv /\ MoneyInv
  <2>1. SpendInv
    BY <1>1, FS_EmptySet DEF Init, SpendInv
  <2>2. Amounts({}) = 0 /\ Charges({}) = 0
    BY FS_EmptySet, AmountsTotal, ChargesTotal, TotalRecurs
  <2>3. Columns(money, 0, 0, Budget) /\ spend = {} /\ Budget \in Nat
    BY <1>1, DevConstants DEF Init, Columns
  <2>4. {s \in spend : s.status = "reserved"} = {}
    BY <2>3
  <2>5. BudgetColumnsAgree
    BY <2>2, <2>3, <2>4 DEF BudgetColumnsAgree, Amounts, Charges, Columns, MapThenSumSet, MapThenFoldSet
  <2>6. \A q \in Request : request[q].max \in Int
    BY <1>1 DEF Init, IdleRequest
  <2> QED BY <2>1, <2>3, <2>5, <2>6 DEF MoneyInv, Columns
<1>2. BuildInv /\ SpendInv /\ MoneyInv /\ [Next]_vars => SpendInv' /\ MoneyInv'
  BY SpendIsKept, MoneyIsKept
<1> QED BY <1>1, <1>2, CopiesAreHonest, PTL DEF Spec

(* The columns the governor checks (spent and reserved of a build) are what its spend   *)
(* records add up to, and never pass the ceiling, whatever number of ticks reserve,     *)
(* capture and release, stalled and repeated ones included (reserveSpend, settleSpend   *)
(* and releaseOrphanedReservations of the store).                                       *)
THEOREM ColumnsAgreeWithRecords == Spec => []BudgetColumnsAgree
<1>1. MoneyInv => BudgetColumnsAgree
  BY DEF MoneyInv
<1> QED BY <1>1, MoneyIsSound, PTL

\* Two numberings add up to the sum of their sums.
LEMMA TotalOfSums ==
    ASSUME NEW D, IsFiniteSet(D), NEW f, NEW g, NEW h,
           \A x \in D : f[x] \in Int /\ g[x] \in Int /\ h[x] = f[x] + g[x]
    PROVE  Total(D, h) = Total(D, f) + Total(D, g)
<1> DEFINE Bad == {A \in SUBSET D : Total(A, h) # Total(A, f) + Total(A, g)}
<1> SUFFICES ASSUME Bad # {} PROVE FALSE
  OBVIOUS
<1>1. \A A \in SUBSET D : IsFiniteSet(A)
  BY FS_Subset
<1>2. PICK A \in Bad : \A T \in Bad : Cardinality(A) <= Cardinality(T)
  <2>1. \A T \in Bad : IsFiniteSet(T)
    BY <1>1
  <2> HIDE DEF Bad
  <2> QED BY <2>1, SmallestSet
<1>3. IsFiniteSet(A) /\ A # {} /\ First(A) \in A /\ First(A) \in D
  <2>1. IsFiniteSet(A) /\ A \subseteq D
    BY <1>1
  <2>2. A # {}
    <3>1. Total({}, f) = 0 /\ Total({}, g) = 0 /\ Total({}, h) = 0
      BY FS_EmptySet, TotalRecurs
    <3>2. Total(A, h) # Total(A, f) + Total(A, g)
      OBVIOUS
    <3>3. Total({}, h) = Total({}, f) + Total({}, g)
      BY <3>1
    <3> QED BY <3>2, <3>3
  <2> QED BY <2>1, <2>2, FirstIsIn
<1> DEFINE B == A \ {First(A)}
<1>4. /\ Total(A, f) = f[First(A)] + Total(B, f)
      /\ Total(A, g) = g[First(A)] + Total(B, g)
      /\ Total(A, h) = h[First(A)] + Total(B, h)
  BY <1>3, TotalRecurs
<1>5. B \notin Bad
  <2>1. /\ Cardinality(A) \in Nat /\ Cardinality(B) \in Nat
        /\ Cardinality(B) < Cardinality(A)
    BY <1>3, OneLess
  <2>2. ~(Cardinality(A) <= Cardinality(B))
    BY <2>1
  <2> QED BY <1>2, <2>2
<1>6. Total(B, h) = Total(B, f) + Total(B, g)
  BY <1>5
<1>7. B \in SUBSET D
  BY <1>3
<1>8. Total(B, f) \in Int /\ Total(B, g) \in Int
  BY <1>7, TotalTakes
<1>9. f[First(A)] \in Int /\ g[First(A)] \in Int /\ h[First(A)] = f[First(A)] + g[First(A)]
  BY <1>3
<1>10. Total(A, h) # Total(A, f) + Total(A, g)
  BY <1>2
<1> HIDE DEF B, Bad
<1> QED BY <1>4, <1>6, <1>8, <1>9, <1>10

\* Of the smaller of two numbers.
LEMMA SmallerOfTwo == \A a, b \in Int : Min({a, b}) \in Int
<1> SUFFICES ASSUME NEW a \in Int, NEW b \in Int PROVE Min({a, b}) \in Int
  OBVIOUS
<1>1. \E x \in {a, b} : \A y \in {a, b} : x <= y
  <2>1. CASE a <= b
    BY <2>1
  <2>2. CASE ~(a <= b)
    BY <2>2
  <2> QED BY <2>1, <2>2
<1> DEFINE m == CHOOSE x \in {a, b} : \A y \in {a, b} : x <= y
<1>2. m \in {a, b}
  BY <1>1
<1>3. Min({a, b}) = m
  BY DEF Min
<1> HIDE DEF m
<1> QED BY <1>2, <1>3

-----------------------------------------------------------------------------
(* The ledger                                                              *)

Account == {"held", "credit", "consumed", "res", "taken", "captured", "credited", "paid"}

\* What is reserved under the ids of a set, and the ids that are not captured.
Under(A) == Total(A, ledger.res)
Open == {i \in ReservationId : i \notin ledger.captured}

\* Only what is posted is captured, and no money is lost.
LedgerInv ==
    /\ ledger = [f \in Account |-> ledger[f]]
    /\ ledger.held \in Int /\ ledger.credit \in Int /\ ledger.consumed \in Int
    /\ ledger.res \in [ReservationId -> Nat]
    /\ ledger.captured \subseteq Posted
    /\ NothingIsLost

\* A change, with what it needs of the budget.
ChangeKind == {"question", "refinement", "boundary"}
ChangeStatus == {"pending", "applied", "approved", "denied"}
Change == [kind : ChangeKind, status : ChangeStatus, needed : Int, within : BOOLEAN]

\* What a tick has read of the columns: a ceiling, and no more spent than is.
ReadsWell(x, spent) == x.ceiling \in Nat /\ x.spent \in Nat /\ x.spent <= spent

\* What a reservation is asked for: under an id of the build, and not for less than nothing.
AskInv ==
    /\ money.ceiling \in Nat
    /\ changes \in Seq(Change) /\ Len(changes) <= MaxChanges
    /\ money.spent \in Nat /\ \A w \in Tick : ReadsWell(tick[w], money.spent)
    /\ \A q \in Request : request[q].max \in Nat
    /\ \A q \in Request :
          request[q].at = "secure" => request[q].change \in ReservationId /\ request[q].delta \in Nat

\* The sum of the model is this one.
LEMMA UnderIs == \A A : MapThenSumSet(LAMBDA i : ledger.res[i], A) = Under(A)
BY DEF Under, MapThenSumSet, MapThenFoldSet, Total, SumsUp, First

\* The statement, in these terms, before and after a step.
AllThere ==
    ledger.held + ledger.credit + ledger.consumed + Under(Open)
    = Wallet.held + Wallet.credit + (IF ledger.paid THEN Payment ELSE 0)

LEMMA NothingIsLostNow == NothingIsLost <=> AllThere
BY DEF NothingIsLost, AllThere, Open, Under, MapThenSumSet, MapThenFoldSet, Total, SumsUp, First

LEMMA NothingIsLostThen == NothingIsLost' <=> AllThere'
BY DEF NothingIsLost, AllThere, Open, Under, MapThenSumSet, MapThenFoldSet, Total, SumsUp, First

\* Of a number and nothing.
LEMMA AtLeastNothing == \A x \in Int : Max({0, x}) \in Int
<1> SUFFICES ASSUME NEW x \in Int PROVE Max({0, x}) \in Int
  OBVIOUS
<1> DEFINE z == 0
<1>1. z \in Int
  OBVIOUS
<1> HIDE DEF z
<1>2. Max({z, x}) \in Int
  BY <1>1, GreaterOfTwo
<1> QED BY <1>2 DEF z

\* A build has finitely many reservations.
LEMMA IdsAreFinite == /\ IsFiniteSet(ReservationId) /\ 0 \in ReservationId
                      /\ \A A \in SUBSET ReservationId : IsFiniteSet(A)
<1>1. MaxChanges \in Nat
  BY DevConstants
<1>2. IsFiniteSet(ReservationId)
  BY <1>1, FS_Interval DEF ReservationId
<1>3. \A A \in SUBSET ReservationId : IsFiniteSet(A)
  BY <1>2, FS_Subset
<1> QED BY <1>1, <1>2, <1>3 DEF ReservationId

\* Sums of reservations are numbers, and one reservation more adds its own.
LEMMA UnderAdds ==
    ASSUME LedgerInv
    PROVE  \A A \in SUBSET ReservationId :
              /\ Under(A) \in Int
              /\ \A i \in A : Under(A) = ledger.res[i] + Under(A \ {i})
<1>1. IsFiniteSet(ReservationId) /\ \A i \in ReservationId : ledger.res[i] \in Int
  BY IdsAreFinite DEF LedgerInv
<1> QED BY <1>1, TotalTakes DEF Under

\* A reservation takes its amount from what the owner holds and is owed.
LEMMA ReservingKeeps ==
    ASSUME LedgerInv, NEW i \in ReservationId, NEW amount \in Nat, ReserveLedger(i, amount)
    PROVE  LedgerInv'
<1>1. CASE i \in Posted
  <2>1. UNCHANGED ledger
    BY <1>1 DEF ReserveLedger
  <2> QED BY <2>1 DEF LedgerInv, NothingIsLost, Posted, MapThenSumSet, MapThenFoldSet
<1>2. CASE i \notin Posted
  <2> DEFINE s == Shortfall(amount)
             r == [ledger.res EXCEPT ![i] = amount]
             held == ledger.held + s - amount
             credit == ledger.credit - s
             taken == Append(ledger.taken, i)
  <2>1. s \in Int
    <3>1. amount - ledger.held \in Int
      BY DEF LedgerInv
    <3> QED BY <3>1, AtLeastNothing DEF Shortfall
  <2>2. ledger' = [ledger EXCEPT !.credit = credit, !.held = held, !.res[i] = amount, !.taken = taken]
    BY <1>2 DEF ReserveLedger
  <2> HIDE DEF s
  <2>3. /\ ledger' = [f \in Account |-> ledger'[f]]
        /\ ledger'.held = held /\ ledger'.credit = credit /\ ledger'.consumed = ledger.consumed
        /\ ledger'.res = r /\ ledger'.captured = ledger.captured /\ ledger'.paid = ledger.paid
    BY <2>2 DEF LedgerInv, Account
  <2>4. ledger.res[i] = 0 /\ i \notin ledger.captured
    BY <1>2 DEF LedgerInv, Posted
  <2>5. r \in [ReservationId -> Nat] /\ r[i] = amount /\ \A j \in ReservationId \ {i} : r[j] = ledger.res[j]
    BY DEF LedgerInv
  <2> HIDE DEF r
  <2>6. ledger'.captured \subseteq Posted'
    BY <2>3, <2>4, <2>5 DEF LedgerInv, Posted
  <2>7. Under(Open)' = amount + Under(Open)
    <3> DEFINE B == Open \ {i}
    <3>1. Open' = Open /\ i \in Open /\ Open \subseteq ReservationId /\ B \subseteq ReservationId
      BY <2>3, <2>4 DEF Open
    <3>2. IsFiniteSet(ReservationId) /\ IsFiniteSet(B) /\ \A j \in ReservationId : r[j] \in Int
      BY <2>5, <3>1, IdsAreFinite
    <3>3. Total(Open, r) = r[i] + Total(B, r)
      BY <3>1, <3>2, TotalTakes
    <3>4. \A j \in B : r[j] = ledger.res[j]
      BY <2>5, <3>1
    <3> HIDE DEF B
    <3>5. Total(B, r) = Total(B, ledger.res)
      BY <3>2, <3>4, TotalDepends
    <3>6. Under(Open) = ledger.res[i] + Under(B) /\ Under(B) \in Int
      BY <3>1, UnderAdds DEF B
    <3>7. Under(Open)' = Total(Open, r)
      BY <2>3, <3>1 DEF Under
    <3> QED BY <2>4, <2>5, <3>3, <3>5, <3>6, <3>7 DEF Under
  <2>8. NothingIsLost'
    <3>1. ledger.held + ledger.credit + ledger.consumed + Under(Open)
          = Wallet.held + Wallet.credit + (IF ledger.paid THEN Payment ELSE 0)
      BY NothingIsLostNow DEF LedgerInv, AllThere
    <3>2. Under(Open) \in Int
      BY UnderAdds DEF Open
    <3>3. ledger'.held + ledger'.credit + ledger'.consumed + Under(Open)'
          = ledger.held + ledger.credit + ledger.consumed + Under(Open)
      BY <2>1, <2>3, <2>7, <3>2 DEF LedgerInv
    <3>4. ledger'.held + ledger'.credit + ledger'.consumed + Under(Open)'
          = Wallet.held + Wallet.credit + (IF ledger'.paid THEN Payment ELSE 0)
      BY <2>3, <3>1, <3>3
    <3> QED BY <3>4, NothingIsLostThen DEF AllThere
  <2> QED BY <2>1, <2>3, <2>5, <2>6, <2>8 DEF LedgerInv
<1> QED BY <1>1, <1>2

\* What is allocated to a reservation is a number.
LEMMA AllocationsAreNumbers ==
    ASSUME LedgerInv, NEW known, NEW i \in ReservationId, NEW spent \in Int
    PROVE  Allocation(known, i, spent) \in Int
<1> DEFINE before == {j \in Posted : SettledBefore(known, j, i)}
           earlier == Under(before)
           m == Max({0, spent - earlier})
<1>1. earlier \in Int
  <2>1. before \in SUBSET ReservationId
    BY DEF Posted
  <2> HIDE DEF before
  <2> QED BY <2>1, UnderAdds
<1>2. Allocation(known, i, spent) = Min({ledger.res[i], m})
  BY UnderIs DEF Allocation
<1> HIDE DEF earlier
<1>3. m \in Int
  BY <1>1, AtLeastNothing
<1>4. ledger.res[i] \in Int
  BY DEF LedgerInv
<1> HIDE DEF m
<1> QED BY <1>2, <1>3, <1>4, SmallerOfTwo

\* What a settlement writes: what it consumes, gives back and turns into credit.
SpendOfBuild(read) == Min({read, Under(Posted)})
Paid(known, read) == Total(Uncaptured, [i \in Uncaptured |-> Allocation(known, i, SpendOfBuild(read))])
Back(known, read) == Total(Uncaptured, [i \in Uncaptured |-> ledger.res[i] - Allocation(known, i, SpendOfBuild(read))])
Unused(read) == IF ledger.credited THEN 0 ELSE Under(Posted) - SpendOfBuild(read)

LEMMA SettlingWrites ==
    ASSUME LedgerInv, NEW known, NEW read, SettleLedger(known, read)
    PROVE  /\ ledger' = [x \in Account |-> ledger'[x]]
           /\ ledger'.held = ledger.held + Back(known, read) - Unused(read) /\ ledger'.credit = ledger.credit + Unused(read)
           /\ ledger'.consumed = ledger.consumed + Paid(known, read) /\ ledger'.res = ledger.res
           /\ ledger'.captured = Posted /\ ledger'.credited = (ledger.credited \/ Unused(read) > 0)
           /\ ledger'.taken = ledger.taken /\ ledger'.paid = ledger.paid /\ Posted' = Posted
<1> DEFINE R == MapThenSumSet(LAMBDA i : ledger.res[i], Posted)
           S == Min({read, R})
           P == MapThenSumSet(LAMBDA i : Allocation(known, i, S), Uncaptured)
           B == MapThenSumSet(LAMBDA i : ledger.res[i] - Allocation(known, i, S), Uncaptured)
           U == IF ledger.credited THEN 0 ELSE R - S
           held == ledger.held + B - U
           credit == ledger.credit + U
           consumed == ledger.consumed + P
           credited == ledger.credited \/ U > 0
<1>1. ledger' = [ledger EXCEPT !.captured = Posted, !.consumed = consumed, !.held = held,
                               !.credit = credit, !.credited = credited]
  BY DEF SettleLedger, CreditDue
<1>2. P = Paid(known, read) /\ B = Back(known, read) /\ U = Unused(read)
  <2>1. R = Under(Posted)
    BY UnderIs
  <2> HIDE DEF R
  <2>2. S = SpendOfBuild(read)
    BY <2>1 DEF SpendOfBuild
  <2> HIDE DEF S
  <2>3. P = Total(Uncaptured, [i \in Uncaptured |-> Allocation(known, i, S)])
    BY DEF MapThenSumSet, MapThenFoldSet, Total, SumsUp, First
  <2>4. B = Total(Uncaptured, [i \in Uncaptured |-> ledger.res[i] - Allocation(known, i, S)])
    BY DEF MapThenSumSet, MapThenFoldSet, Total, SumsUp, First
  <2> HIDE DEF P, B
  <2> QED BY <2>1, <2>2, <2>3, <2>4 DEF Paid, Back, Unused
<1> HIDE DEF P, B, U
<1>3. /\ ledger' = [x \in Account |-> ledger'[x]]
      /\ ledger'.held = held /\ ledger'.credit = credit /\ ledger'.consumed = consumed
      /\ ledger'.res = ledger.res /\ ledger'.captured = Posted /\ ledger'.credited = credited
      /\ ledger'.taken = ledger.taken /\ ledger'.paid = ledger.paid
  <2> HIDE DEF held, credit, consumed, credited
  <2> QED BY <1>1 DEF LedgerInv, Account
<1>4. Posted' = Posted
  BY <1>3 DEF Posted
<1> QED BY <1>2, <1>3, <1>4

\* A settlement captures what is posted and not captured: a part is consumed and the rest
\* goes back, and credit is issued out of what is held.
LEMMA SettlingKeeps ==
    ASSUME LedgerInv, NEW known, NEW read \in Nat, SettleLedger(known, read)
    PROVE  LedgerInv'
<1> DEFINE new == Uncaptured
           S == SpendOfBuild(read)
           R == Under(Posted)
           f == [i \in new |-> Allocation(known, i, S)]
           g == [i \in new |-> ledger.res[i] - Allocation(known, i, S)]
           held == ledger.held + Back(known, read) - Unused(read)
           credit == ledger.credit + Unused(read)
           consumed == ledger.consumed + Paid(known, read)
<1>1. /\ new \in SUBSET ReservationId /\ Posted \in SUBSET ReservationId /\ IsFiniteSet(new)
      /\ IsFiniteSet(ReservationId)
  BY IdsAreFinite DEF Uncaptured, Posted
<1>2. R \in Int /\ S \in Int
  <2>1. R \in Int
    BY <1>1, UnderAdds
  <2> HIDE DEF R
  <2> QED BY <2>1, SmallerOfTwo DEF SpendOfBuild, R
<1>3. Paid(known, read) = Total(new, f) /\ Back(known, read) = Total(new, g)
  BY DEF Paid, Back
<1>4. \A i \in new : f[i] \in Int /\ g[i] \in Int /\ ledger.res[i] = f[i] + g[i]
  <2>1. \A i \in new : Allocation(known, i, S) \in Int /\ ledger.res[i] \in Int
    BY <1>1, <1>2, AllocationsAreNumbers DEF LedgerInv
  <2> HIDE DEF new
  <2> QED BY <2>1
<1> HIDE DEF f, g
<1>5. Paid(known, read) \in Int /\ Back(known, read) \in Int /\ Under(new) = Paid(known, read) + Back(known, read)
  <2> HIDE DEF new
  <2>1. Total(new, f) \in Int /\ Total(new, g) \in Int
    <3>1. new \in SUBSET new
      OBVIOUS
    <3> QED BY <1>1, <1>4, <3>1, TotalTakes
  <2>2. Total(new, ledger.res) = Total(new, f) + Total(new, g)
    BY <1>1, <1>4, TotalOfSums
  <2> QED BY <1>3, <2>1, <2>2 DEF Under
<1>6. Unused(read) \in Int
  BY <1>2 DEF Unused
<1>7. held \in Int /\ credit \in Int /\ consumed \in Int
  BY <1>5, <1>6 DEF LedgerInv
<1>8. /\ ledger' = [x \in Account |-> ledger'[x]]
      /\ ledger'.held = held /\ ledger'.credit = credit /\ ledger'.consumed = consumed
      /\ ledger'.res = ledger.res /\ ledger'.captured = Posted /\ ledger'.paid = ledger.paid
  BY SettlingWrites
<1>9. Posted' = Posted
  BY <1>8 DEF Posted
\* What was open is what is captured now and what was never posted.
<1>10. Under(Open) = Under(new)
  <2> DEFINE rest == Open \ new
  <2>1. /\ IsFiniteSet(Open) /\ new \in SUBSET Open /\ IsFiniteSet(rest)
        /\ \A i \in rest : ledger.res[i] = 0
        /\ \A i \in Open : ledger.res[i] \in Int
    <3>1. Open \in SUBSET ReservationId /\ rest \in SUBSET ReservationId /\ new \in SUBSET Open
      BY DEF Open, Uncaptured, Posted
    <3>2. \A i \in rest : ledger.res[i] = 0
      BY DEF Open, Uncaptured, Posted, LedgerInv
    <3>3. \A i \in Open : ledger.res[i] \in Int
      BY <3>1 DEF LedgerInv
    <3> QED BY <3>1, <3>2, <3>3, IdsAreFinite
  <2> HIDE DEF new, rest
  <2>2. Total(Open, ledger.res) = Total(new, ledger.res) + Total(rest, ledger.res)
    BY <2>1, TotalOfParts DEF rest
  <2>3. Total(rest, ledger.res) = 0
    BY <2>1, TotalOfNothing
  <2> QED BY <1>5, <2>2, <2>3 DEF Under
<1>11. Under(Open)' = 0
  <2>1. Open' \in SUBSET ReservationId /\ \A i \in Open' : ledger.res[i] = 0
    BY <1>8 DEF Open, Posted, LedgerInv
  <2>2. IsFiniteSet(Open')
    BY <2>1, IdsAreFinite
  <2>3. Total(Open', ledger.res) = 0
    BY <2>1, <2>2, TotalOfNothing
  <2> QED BY <1>8, <2>3 DEF Under
<1>12. NothingIsLost'
  <2>1. AllThere
    BY NothingIsLostNow DEF LedgerInv
  <2>2. held + credit + consumed = ledger.held + ledger.credit + ledger.consumed + Under(new)
    BY <1>5, <1>6 DEF LedgerInv
  <2> HIDE DEF held, credit, consumed
  <2>3. AllThere'
    BY <1>7, <1>8, <1>10, <1>11, <2>1, <2>2 DEF AllThere
  <2> QED BY <2>3, NothingIsLostThen
<1> HIDE DEF held, credit, consumed
<1> QED BY <1>7, <1>8, <1>9, <1>12 DEF LedgerInv

\* A payment is held, and recorded.
LEMMA PaymentWrites ==
    ASSUME LedgerInv, RecordPurchase
    PROVE  /\ ledger' = [x \in Account |-> ledger'[x]]
           /\ ledger'.held = ledger.held + Payment /\ ledger'.credit = ledger.credit
           /\ ledger'.consumed = ledger.consumed /\ ledger'.res = ledger.res
           /\ ledger'.captured = ledger.captured /\ ledger'.credited = ledger.credited
           /\ ledger'.taken = ledger.taken /\ ledger'.paid = TRUE /\ UNCHANGED money
<1> DEFINE held == ledger.held + Payment
<1>1. ledger' = [ledger EXCEPT !.held = held, !.paid = TRUE] /\ UNCHANGED money
  BY DEF RecordPurchase
<1> HIDE DEF held
<1>2. /\ ledger'.held = held /\ ledger'.credit = ledger.credit
      /\ ledger'.consumed = ledger.consumed /\ ledger'.res = ledger.res
      /\ ledger'.captured = ledger.captured /\ ledger'.credited = ledger.credited
      /\ ledger'.taken = ledger.taken /\ ledger'.paid = TRUE
      /\ ledger' = [x \in Account |-> ledger'[x]]
  BY <1>1 DEF LedgerInv, Account
<1> QED BY <1>1, <1>2 DEF held

\* A payment adds to what the owner holds.
LEMMA PayingKeeps ==
    ASSUME LedgerInv, RecordPurchase
    PROVE  LedgerInv'
<1> DEFINE held == ledger.held + Payment
<1>1. Payment \in Int /\ held \in Int /\ ~ledger.paid
  BY DevConstants DEF LedgerInv, RecordPurchase
<1>2. /\ ledger' = [x \in Account |-> ledger'[x]]
      /\ ledger'.held = held /\ ledger'.credit = ledger.credit /\ ledger'.consumed = ledger.consumed
      /\ ledger'.res = ledger.res /\ ledger'.captured = ledger.captured /\ ledger'.paid = TRUE
  BY PaymentWrites
<1> HIDE DEF held
<1>3. Posted' = Posted /\ Open' = Open /\ Under(Open)' = Under(Open) /\ Under(Open) \in Int
  BY <1>2, UnderAdds DEF Posted, Open, Under
<1>4. NothingIsLost'
  <2>1. AllThere
    BY NothingIsLostNow DEF LedgerInv
  <2>2. Wallet.held \in Int /\ Wallet.credit \in Int
    BY DevConstants
  <2>3. AllThere'
    BY <1>1, <1>2, <1>3, <2>1, <2>2 DEF AllThere, held, LedgerInv
  <2> QED BY <2>3, NothingIsLostThen
<1> QED BY <1>1, <1>2, <1>3, <1>4 DEF LedgerInv

-----------------------------------------------------------------------------
(* What reservations are asked for                                         *)

\* The ceiling stays a natural number.
LEMMA CeilingStays ==
    ASSUME BuildInv, SpendInv, MoneyInv, AskInv, [Next]_vars
    PROVE  money'.ceiling \in Nat
<1>1. ASSUME UNCHANGED money PROVE money'.ceiling \in Nat
  BY <1>1 DEF AskInv
<1>2. ASSUME NEW a, money' = [money EXCEPT !.reserved = a] PROVE money'.ceiling \in Nat
  <2>1. Columns(money', a, money.spent, money.ceiling)
    BY <1>2, MoneyWritten
  <2> QED BY <2>1 DEF Columns, AskInv
<1>21. ASSUME NEW a, NEW b, money' = [money EXCEPT !.reserved = a, !.spent = b]
       PROVE  money'.ceiling \in Nat
  <2>1. Columns(money', a, b, money.ceiling)
    BY <1>21, MoneyWritten
  <2> QED BY <2>1 DEF Columns, AskInv
<1>3. CASE UNCHANGED vars
  BY <1>1, <1>3 DEF vars
<1>4. CASE Create \/ LeaseLapses
  <2>1. UNCHANGED money
    BY <1>4 DEF Create, InsertBuild, SecureBuild, QueueBuild, CreatorDies, LeaseLapses
  <2> QED BY <1>1, <2>1
<1>5. CASE Owner
  <2>1. CASE RecordPurchase \/ Retitle \/ Command \/ Cancel
    <3>1. UNCHANGED money
      BY <2>1 DEF RecordPurchase, Retitle, Command, Cancel
    <3> QED BY <1>1, <3>1
  <2>2. CASE \E q \in Request, c \in DOMAIN changes :
               Deny(q, c) \/ \E max \in {0} \cup Budget..MaxBudget : Approve(q, c, max)
    <3>1. UNCHANGED money
      BY <2>2 DEF Deny, Approve
    <3> QED BY <1>1, <3>1
  <2>3. ASSUME NEW q \in Request, RaiseBudget(q) PROVE money'.ceiling \in Nat
    <3> DEFINE c == Max({money.ceiling, request[q].max})
    <3>1. c \in Int /\ money.ceiling <= c /\ money.ceiling \in Nat
      <4>1. money.ceiling \in Nat /\ money.ceiling \in Int /\ request[q].max \in Int
        BY DEF AskInv
      <4> QED BY <4>1, GreaterOfTwo
    <3>2. money' = [money EXCEPT !.ceiling = c]
      BY <2>3 DEF RaiseBudget
    <3> HIDE DEF c
    <3>3. money'.ceiling = c
      BY <3>2, MoneyWritten DEF Columns
    <3> QED BY <3>1, <3>3
  <2>4. ASSUME NEW q \in Request, Handle(q) \/ RequestDies(q) PROVE money'.ceiling \in Nat
    <3>1. UNCHANGED money \/ RaiseBudget(q)
      BY <2>4 DEF Handle, SecureIncrease, RecordRaise, ResolveChange, Resume, Finish, RequestDies
    <3> QED BY <1>1, <2>3, <3>1
  <2> QED BY <1>5, <2>1, <2>2, <2>4 DEF Owner
<1>6. ASSUME NEW w \in Tick, Step(w) \/ Break(w) PROVE money'.ceiling \in Nat
  <2>1. CASE Reserve(w)
    <3>1. UNCHANGED money \/ \E a : money' = [money EXCEPT !.reserved = a]
      BY <2>1 DEF Reserve, ReserveSpend
    <3> QED BY <1>1, <1>2, <3>1
  <2>2. CASE Plan(w) \/ Implement(w) \/ Review(w) \/ CallFails(w)
    <3>1. Captured(w) \/ CallFails(w)
      BY <2>2 DEF Plan, Implement, Review
    <3>2. \/ UNCHANGED money
          \/ \E s \in spend, to \in {"captured", "released"} : SettleSpend(s, to, CallCost)
      BY <3>1 DEF Captured, CallFails, SpendOf
    <3>3. ASSUME NEW s, NEW to, SettleSpend(s, to, CallCost)
          PROVE  \E a, b : money' = [money EXCEPT !.reserved = a, !.spent = b]
      BY <3>3 DEF SettleSpend
    <3> QED BY <1>1, <1>21, <3>2, <3>3
  <2>3. CASE \/ Claim(w) \/ RecoverFunding(w) \/ Start(w) \/ Prepare(w) \/ AskForBudget(w)
             \/ AskAboutReview(w) \/ Execute(w) \/ Verify(w) \/ MeterRefused(w) \/ Save(w)
             \/ Settle(w) \/ ReleaseLease(w) \/ LocalFails(w) \/ SettleFails(w) \/ Crash(w)
             \/ ListOrphans(w) \/ OrphanStays(w) \/ ReadToSettle(w)
    <3>1. UNCHANGED money
      BY <2>3 DEF Claim, ListOrphans, OrphanStays, ReadToSettle, RecoverFunding, Start, Prepare,
         AskForBudget, AskAboutReview, Execute, Verify, MeterRefused, Save, Settle, ReleaseLease,
         LocalFails, SettleFails, Crash
    <3> QED BY <1>1, <3>1
  <2>4. CASE ReleaseOrphan(w)
    <3>1. PICK s : OrphanSettled(s)
      BY <2>4 DEF ReleaseOrphan, OrphanSettled
    <3>2. UNCHANGED money \/ \E a, b : money' = [money EXCEPT !.reserved = a, !.spent = b]
      BY <3>1 DEF OrphanSettled, SettleSpend
    <3> QED BY <1>1, <1>21, <3>2
  <2> QED BY <1>6, <2>1, <2>2, <2>3, <2>4 DEF Step, Break
<1> QED BY <1>3, <1>4, <1>5, <1>6 DEF Next

\* What is spent is not given back.
LEMMA SpentGrows ==
    ASSUME SpendInv, MoneyInv, [Next]_vars
    PROVE  money.spent \in Int /\ money'.spent \in Int /\ money'.spent >= money.spent
<1>1. money.spent \in Int
  BY SpendSums
<1>2. ASSUME NEW a, money' = [money EXCEPT !.reserved = a] \/ money' = [money EXCEPT !.ceiling = a]
             \/ money' = money
      PROVE  money'.spent = money.spent
  BY <1>2 DEF MoneyInv
<1>3. ASSUME NEW s \in spend, NEW status, NEW actual \in Nat, SettleSpend(s, status, actual)
      PROVE  money'.spent \in Int /\ money'.spent >= money.spent
  <2> DEFINE c == IF status = "captured" THEN Min({actual, s.amount}) ELSE 0
             r == money.reserved - s.amount
             p == money.spent + c
  <2>1. money' = [money EXCEPT !.reserved = r, !.spent = p]
    BY <1>3 DEF SettleSpend
  <2>2. s.amount \in Nat
    BY DEF SpendInv, SpendOK
  <2>3. c \in Nat
    BY <2>2, LesserOfTwo
  <2> HIDE DEF c, r
  <2>4. p \in Int /\ p >= money.spent
    BY <1>1, <2>3
  <2> HIDE DEF p
  <2>5. money'.spent = p
    BY <2>1 DEF MoneyInv
  <2> QED BY <2>4, <2>5
<1>4. CASE UNCHANGED vars
  BY <1>1, <1>4 DEF vars
<1>5. CASE Create \/ LeaseLapses
  BY <1>1, <1>5 DEF Create, InsertBuild, SecureBuild, QueueBuild, CreatorDies, LeaseLapses
<1>6. CASE Owner
  <2>1. UNCHANGED money \/ \E a : money' = [money EXCEPT !.ceiling = a]
    BY <1>6 DEF Owner, RecordPurchase, Retitle, Command, Cancel, Deny, Approve, Handle, SecureIncrease,
       RaiseBudget, RecordRaise, ResolveChange, Resume, Finish, RequestDies
  <2> QED BY <1>1, <1>2, <2>1
<1>0. CallCost \in Nat
  BY DevConstants
<1>7. ASSUME NEW w \in Tick, Step(w) \/ Break(w)
      PROVE  money'.spent \in Int /\ money'.spent >= money.spent
  <2>1. CASE Reserve(w)
    <3>1. UNCHANGED money \/ \E a : money' = [money EXCEPT !.reserved = a]
      BY <2>1 DEF Reserve, ReserveSpend
    <3> QED BY <1>1, <1>2, <3>1
  <2>2. CASE Plan(w) \/ Implement(w) \/ Review(w)
    <3>1. UNCHANGED money \/ \E s \in spend : SettleSpend(s, "captured", CallCost)
      BY <2>2 DEF Plan, Implement, Review, Captured, SpendOf
    <3> QED BY <1>0, <1>1, <1>3, <3>1
  <2>3. CASE CallFails(w)
    <3>1. PICK s, sort : s \in SpendOf(tick[w].task.rev, tick[w].k) /\
             LET to == IF sort = "invalid" THEN "captured" ELSE "released"
             IN  IF s.status = "reserved" THEN SettleSpend(s, to, CallCost) ELSE UNCHANGED <<spend, money>>
      BY <2>3 DEF CallFails
    <3>2. s \in spend
      BY <3>1 DEF SpendOf
    <3> QED BY <1>0, <1>1, <1>3, <3>1, <3>2
  <2>4. CASE ReleaseOrphan(w)
    <3>1. PICK s : OrphanSettled(s)
      BY <2>4 DEF ReleaseOrphan, OrphanSettled
    <3> QED BY <1>1, <1>3, <3>1 DEF OrphanSettled
  <2>5. CASE ~(Reserve(w) \/ ReleaseOrphan(w) \/ Plan(w) \/ Implement(w) \/ Review(w) \/ CallFails(w))
    <3>1. UNCHANGED money
      BY <1>7, <2>5 DEF Step, Break, Claim, ListOrphans, OrphanStays, RecoverFunding, Start, Prepare,
         AskForBudget, AskAboutReview, Execute, Verify, MeterRefused, Save, ReadToSettle, Settle,
         ReleaseLease, LocalFails, SettleFails, Crash
    <3> QED BY <1>1, <3>1
  <2> QED BY <2>1, <2>2, <2>3, <2>4, <2>5
<1> QED BY <1>1, <1>4, <1>5, <1>6, <1>7 DEF Next

\* The store takes no more changes than there is room for.
LEMMA ChangesAreBounded ==
    ASSUME SpendInv, MoneyInv, AskInv, [Next]_vars
    PROVE  changes' \in Seq(Change) /\ Len(changes') <= MaxChanges
<1>0. money.spent \in Int /\ money.reserved \in Int /\ CallCost \in Int /\ MaxChanges \in Int
  BY SpendSums, DevConstants
<1>1. ASSUME UNCHANGED changes PROVE changes' \in Seq(Change) /\ Len(changes') <= MaxChanges
  BY <1>1 DEF AskInv
<1>2. ASSUME NEW k \in ChangeKind, NEW s \in ChangeStatus, NEW n \in Int, Room, NewChange(k, s, n)
      PROVE  changes' \in Seq(Change) /\ Len(changes') <= MaxChanges
  <2> DEFINE x == [kind |-> k, status |-> s, needed |-> n, within |-> n <= money.ceiling]
  <2>1. x \in Change
    BY DEF Change
  <2>2. changes' = Append(changes, x)
    BY <1>2 DEF NewChange
  <2> HIDE DEF x
  <2>3. changes \in Seq(Change) /\ Len(changes) \in Nat
    BY DEF AskInv
  <2>4. changes' \in Seq(Change) /\ Len(changes') = Len(changes) + 1
    BY <2>1, <2>2, <2>3
  <2> QED BY <1>0, <1>2, <2>3, <2>4 DEF Room
<1>3. ASSUME NEW c \in DOMAIN changes, NEW s \in ChangeStatus, changes' = [changes EXCEPT ![c].status = s]
      PROVE  changes' \in Seq(Change) /\ Len(changes') <= MaxChanges
  <2>1. changes \in Seq(Change) /\ Len(changes) <= MaxChanges
    BY DEF AskInv
  <2>2. changes[c] \in Change
    BY <2>1
  <2> DEFINE x == [changes[c] EXCEPT !.status = s]
  <2>3. x \in Change
    BY <2>2 DEF Change
  <2>4. changes' = [changes EXCEPT ![c] = x]
    BY <1>3
  <2> HIDE DEF x
  <2>5. changes' \in Seq(Change) /\ Len(changes') = Len(changes)
    BY <2>1, <2>3, <2>4
  <2> QED BY <2>1, <2>5
<1>01. "question" \in ChangeKind /\ "refinement" \in ChangeKind /\ "boundary" \in ChangeKind
  BY DEF ChangeKind
<1>02. /\ "pending" \in ChangeStatus /\ "applied" \in ChangeStatus
       /\ "approved" \in ChangeStatus /\ "denied" \in ChangeStatus
  BY DEF ChangeStatus
<1>4. CASE UNCHANGED vars
  BY <1>1, <1>4 DEF vars
<1>5. CASE Create \/ LeaseLapses
  <2>1. UNCHANGED changes
    BY <1>5 DEF Create, InsertBuild, SecureBuild, QueueBuild, CreatorDies, LeaseLapses
  <2> QED BY <1>1, <2>1
<1>6. CASE Owner
  <2>1. CASE RecordPurchase \/ Retitle \/ Cancel
    <3>1. UNCHANGED changes
      BY <2>1 DEF RecordPurchase, Retitle, Cancel
    <3> QED BY <1>1, <3>1
  <2>2. CASE Command
    <3>1. \/ Room /\ NewChange("refinement", "applied", money.spent + money.reserved)
          \/ Room /\ NewChange("boundary", "pending", money.spent + money.reserved + CallCost)
      BY <2>2 DEF Command
    <3>2. money.spent + money.reserved \in Int /\ money.spent + money.reserved + CallCost \in Int
      BY <1>0
    <3> QED BY <1>01, <1>02, <1>2, <3>1, <3>2
  <2>3. ASSUME NEW q \in Request, NEW c \in DOMAIN changes,
               Deny(q, c) \/ \E max \in {0} \cup Budget..MaxBudget : Approve(q, c, max)
        PROVE  changes' \in Seq(Change) /\ Len(changes') <= MaxChanges
    <3>1. UNCHANGED changes \/ changes' = [changes EXCEPT ![c].status = "denied"]
      BY <2>3 DEF Deny, Approve
    <3> QED BY <1>02, <1>1, <1>3, <3>1
  <2>4. ASSUME NEW q \in Request, Handle(q) \/ RequestDies(q)
        PROVE  changes' \in Seq(Change) /\ Len(changes') <= MaxChanges
    <3>1. CASE ResolveChange(q)
      <4> DEFINE c == request[q].change
      <4>1. UNCHANGED changes \/ (changes[c].status = "pending" /\ changes' = [changes EXCEPT ![c].status = "approved"])
        BY <3>1 DEF ResolveChange
      <4>2. c \in DOMAIN changes \/ [changes EXCEPT ![c].status = "approved"] = changes
        BY DEF AskInv
      <4> QED BY <1>02, <1>1, <1>3, <4>1, <4>2
    <3>2. ResolveChange(q) \/ UNCHANGED changes
      BY <2>4 DEF Handle, SecureIncrease, RaiseBudget, RecordRaise, Resume, Finish, RequestDies
    <3> QED BY <1>1, <3>1, <3>2
  <2> QED BY <1>6, <2>1, <2>2, <2>3, <2>4 DEF Owner
<1>7. ASSUME NEW w \in Tick, Step(w) \/ Break(w)
      PROVE  changes' \in Seq(Change) /\ Len(changes') <= MaxChanges
  <2>1. CASE AskForBudget(w) \/ AskAboutReview(w)
    <3>1. \/ UNCHANGED changes
          \/ Room /\ NewChange("question", "pending", money.spent + money.reserved + CallCost)
          \/ Room /\ NewChange("question", "pending", money.spent + money.reserved)
      BY <2>1 DEF AskForBudget, AskAboutReview
    <3>2. money.spent + money.reserved \in Int /\ money.spent + money.reserved + CallCost \in Int
      BY <1>0
    <3> QED BY <1>01, <1>02, <1>1, <1>2, <3>1, <3>2
  <2>2. CASE ~(AskForBudget(w) \/ AskAboutReview(w))
    <3>1. UNCHANGED changes
      BY <1>7, <2>2 DEF Step, Break, Claim, ListOrphans, ReleaseOrphan, OrphanStays, RecoverFunding, Start,
         Prepare, Reserve, Plan, Implement, Review, Captured, Execute, Verify, MeterRefused, Save,
         ReadToSettle, Settle, ReleaseLease, LocalFails, CallFails, SettleFails, Crash
    <3> QED BY <1>1, <3>1
  <2> QED BY <2>1, <2>2
<1> QED BY <1>4, <1>5, <1>6, <1>7 DEF Next

\* What a request offers.
OfferOK(x) ==
    x.max \in Nat /\ (x.at = "secure" => x.change \in ReservationId /\ x.delta \in Nat)

\* A raise is asked for under the id of its change, and for more than there is.
LEMMA OffersAreSound ==
    ASSUME BuildInv, MoneyInv, AskInv, [Next]_vars
    PROVE  \A q \in Request : OfferOK(request'[q])
<1>0. \A q \in Request : OfferOK(request[q])
  BY DEF AskInv, OfferOK
<1>1. ASSUME request' = request PROVE \A q \in Request : OfferOK(request'[q])
  BY <1>0, <1>1
<1>2. ASSUME NEW q \in Request, NEW x, Ask(q, x), OfferOK(x)
      PROVE  \A p \in Request : OfferOK(request'[p])
  <2>1. \A p \in Request : request'[p] = IF p = q THEN x ELSE request[p]
    BY <1>2 DEF BuildInv, Ask
  <2> QED BY <1>0, <1>2, <2>1
<1>3. OfferOK(IdleRequest) /\ OfferOK([IdleRequest EXCEPT !.at = "finish"])
  BY DEF IdleRequest, OfferOK
<1>4. CASE UNCHANGED vars
  BY <1>1, <1>4 DEF vars
<1>5. CASE Create \/ LeaseLapses
  <2>1. request' = request
    BY <1>5 DEF Create, InsertBuild, SecureBuild, QueueBuild, CreatorDies, LeaseLapses
  <2> QED BY <1>1, <2>1
<1>6. CASE RecordPurchase \/ Retitle \/ Command \/ Cancel
  <2>1. request' = request
    BY <1>6 DEF RecordPurchase, Retitle, Command, Cancel
  <2> QED BY <1>1, <2>1
<1>7. ASSUME NEW q \in Request, NEW c \in DOMAIN changes, Deny(q, c)
      PROVE  \A p \in Request : OfferOK(request'[p])
  <2>1. Ask(q, IdleRequest) \/ Ask(q, [IdleRequest EXCEPT !.at = "finish"])
    BY <1>7 DEF Deny
  <2> QED BY <1>2, <1>3, <2>1
<1>8. ASSUME NEW q \in Request, NEW c \in DOMAIN changes, NEW max \in {0} \cup Budget..MaxBudget,
             Approve(q, c, max)
      PROVE  \A p \in Request : OfferOK(request'[p])
  <2> DEFINE more == max - money.ceiling
             at == IF max > money.ceiling THEN "secure" ELSE "resolve"
             x == [IdleRequest EXCEPT !.at = at, !.task = row, !.change = c, !.max = max, !.delta = more]
  <2>1. Ask(q, x)
    BY <1>8 DEF Approve
  <2>2. max \in Nat /\ money.ceiling \in Nat
    BY DevConstants DEF AskInv
  <2>3. at = "secure" => more \in Nat
    BY <2>2
  <2>4. c \in ReservationId
    <3>1. changes \in Seq(Change) /\ Len(changes) <= MaxChanges /\ MaxChanges \in Nat
      BY DevConstants DEF AskInv
    <3>2. c \in 1..Len(changes) /\ Len(changes) \in Nat
      BY <3>1
    <3> QED BY <3>1, <3>2 DEF ReservationId
  <2> HIDE DEF at, more
  <2>5. x.max = max /\ x.at = at /\ x.change = c /\ x.delta = more
    BY DEF IdleRequest
  <2> HIDE DEF x
  <2>6. OfferOK(x)
    BY <2>2, <2>3, <2>4, <2>5 DEF OfferOK
  <2> QED BY <1>2, <2>1, <2>6
<1>9. ASSUME NEW q \in Request, Handle(q) \/ RequestDies(q)
      PROVE  \A p \in Request : OfferOK(request'[p])
  <2> DEFINE x == request[q]
             Later == {"raise", "record", "resolve", "resume"}
  <2>1. x = [f \in {"at", "task", "change", "max", "delta"} |-> x[f]] /\ x.max \in Nat
    BY DEF BuildInv, RequestOK, AskInv
  <2>2. /\ \A at \in Later : OfferOK([x EXCEPT !.at = at])
        /\ \A at \in Later : \A task : OfferOK([x EXCEPT !.at = at, !.task = task])
    BY <2>1 DEF OfferOK
  <2>3. \/ Ask(q, IdleRequest)
        \/ \E at \in Later : Ask(q, [x EXCEPT !.at = at])
        \/ \E at \in Later : \E task : Ask(q, [x EXCEPT !.at = at, !.task = task])
    BY <1>9 DEF Handle, SecureIncrease, RaiseBudget, RecordRaise, ResolveChange, Resume, Finish, RequestDies
  <2> HIDE DEF x, Later
  <2> QED BY <1>2, <1>3, <2>2, <2>3
<1>10. ASSUME NEW w \in Tick, Step(w) \/ Break(w)
       PROVE  \A q \in Request : OfferOK(request'[q])
  <2>1. request' = request
    BY <1>10 DEF Step, Break, Claim, ListOrphans, ReleaseOrphan, OrphanStays, RecoverFunding, Start, Prepare,
       Reserve, AskForBudget, Plan, Implement, Review, Captured, AskAboutReview, Execute, Verify, MeterRefused,
       Save, ReadToSettle, Settle, ReleaseLease, LocalFails, CallFails, SettleFails, Crash
  <2> QED BY <1>1, <2>1
<1> QED BY <1>4, <1>5, <1>6, <1>7, <1>8, <1>9, <1>10 DEF Next, Owner

\* What a tick would reserve for an unfunded build is what its ceiling was, and what it settles
\* a finished one on was spent.
LEMMA ReadingsAreNumbers ==
    ASSUME BuildInv, SpendInv, MoneyInv, AskInv, [Next]_vars
    PROVE  \A w \in Tick : ReadsWell(tick'[w], money'.spent)
<1>0. PICK p \in Nat : /\ p = money'.spent /\ money.spent \in Nat /\ money.spent <= p
                        /\ \A w \in Tick : ReadsWell(tick[w], p)
  BY SpentGrows DEF AskInv, ReadsWell
<1> DEFINE Fine == \A w \in Tick : ReadsWell(tick'[w], p)
<1> SUFFICES Fine
  BY <1>0
<1>1. ASSUME tick' = tick PROVE Fine
  BY <1>0, <1>1
<1>2. ASSUME NEW w \in Tick, NEW x, SetTick(w, x), ReadsWell(x, p) PROVE Fine
  <2>1. \A v \in Tick : tick'[v] = IF v = w THEN x ELSE tick[v]
    BY <1>2 DEF BuildInv, SetTick
  <2> QED BY <1>0, <1>2, <2>1
<1> HIDE DEF Fine
<1>3. CASE UNCHANGED vars
  BY <1>1, <1>3 DEF vars
<1>4. CASE Create \/ LeaseLapses
  <2>1. tick' = tick
    BY <1>4 DEF Create, InsertBuild, SecureBuild, QueueBuild, CreatorDies, LeaseLapses
  <2> QED BY <1>1, <2>1
<1>5. CASE Owner
  <2>1. tick' = tick
    BY <1>5 DEF Owner, RecordPurchase, Retitle, Command, Cancel, Deny, Approve, Handle, SecureIncrease,
       RaiseBudget, RecordRaise, ResolveChange, Resume, Finish, RequestDies
  <2> QED BY <1>1, <2>1
<1>6. ASSUME NEW w \in Tick, Step(w) \/ Break(w) PROVE Fine
  <2> DEFINE x == tick[w]
  <2>1. /\ x = [f \in {"at", "task", "next", "read", "orphans", "k", "ceiling", "spent"} |-> x[f]]
        /\ ReadsWell(x, p)
    BY <1>0 DEF BuildInv, TickOK
  <2>2. /\ \A at : ReadsWell([x EXCEPT !.at = at], p)
        /\ \A at, v : /\ ReadsWell([x EXCEPT !.at = at, !.next = v], p)
                      /\ ReadsWell([x EXCEPT !.at = at, !.read = v], p)
                      /\ ReadsWell([x EXCEPT !.at = at, !.k = v], p)
                      /\ ReadsWell([x EXCEPT !.at = at, !.orphans = v], p)
        /\ \A at, v : ReadsWell([x EXCEPT !.at = at, !.next = v, !.spent = money.spent], p)
    BY <1>0, <2>1 DEF ReadsWell
  <2>3. /\ ReadsWell(IdleTick, p)
        /\ \A at : ReadsWell([IdleTick EXCEPT !.at = at], p)
        /\ \A at, v : ReadsWell([IdleTick EXCEPT !.at = at, !.task = v], p)
    BY <1>0 DEF IdleTick, ReadsWell
  <2>4. ASSUME Claim(w) PROVE Fine
    <3> DEFINE c == IF row.state = "awaiting_funding" THEN money.ceiling ELSE 0
               y == [IdleTick EXCEPT !.at = "claimed", !.task = row, !.ceiling = c]
    <3>1. SetTick(w, y)
      BY <2>4 DEF Claim, SetTick
    <3>2. c \in Nat
      BY DEF AskInv
    <3> HIDE DEF c
    <3>3. y.ceiling = c /\ y.spent = 0
      BY DEF IdleTick
    <3> HIDE DEF y
    <3>4. ReadsWell(y, p)
      BY <1>0, <3>2, <3>3 DEF ReadsWell
    <3> QED BY <1>2, <3>1, <3>4
  <2>5. CASE ~Claim(w)
    <3>1. /\ \A at : Go(w, at) => SetTick(w, [x EXCEPT !.at = at])
          /\ \A v : Propose(w, v) => SetTick(w, [x EXCEPT !.at = "save", !.next = v])
          /\ Leave(w) => SetTick(w, [IdleTick EXCEPT !.at = "done"])
      BY DEF Go, Propose, Leave, SetTick
    <3> HIDE DEF x
    <3>2. /\ \A at : Go(w, at) => Fine
          /\ \A v : Propose(w, v) => Fine
          /\ Leave(w) => Fine
      BY <1>2, <2>2, <2>3, <3>1
    <3>3. CASE Reserve(w)
      <4>1. (\E k : SetTick(w, [x EXCEPT !.at = "call", !.k = k])) \/ Go(w, "exceeded")
        BY <3>3 DEF Reserve, SetTick, x
      <4> QED BY <1>2, <2>2, <3>2, <4>1
    <3>4. CASE Prepare(w)
      <4>1. (\E v : SetTick(w, [x EXCEPT !.at = "reserve", !.read = v])) \/ \E v : Propose(w, v)
        BY <3>4 DEF Prepare, SetTick, x
      <4> QED BY <1>2, <2>2, <3>2, <4>1
    <3>5. CASE Save(w) \/ ReleaseLease(w) \/ Crash(w)
      <4>1. \/ Leave(w) \/ SetTick(w, IdleTick)
            \/ SetTick(w, [IdleTick EXCEPT !.at = "settle", !.task = row'])
        BY <3>5 DEF Save, ReleaseLease, Crash, SetTick
      <4> QED BY <1>2, <2>3, <3>2, <4>1
    <3>6. CASE \/ RecoverFunding(w) \/ Start(w) \/ AskForBudget(w)
               \/ Plan(w) \/ Implement(w) \/ Review(w) \/ AskAboutReview(w) \/ Execute(w)
               \/ Verify(w) \/ MeterRefused(w) \/ Settle(w) \/ LocalFails(w) \/ CallFails(w) \/ SettleFails(w)
      <4>1. (\E at : Go(w, at)) \/ (\E v : Propose(w, v)) \/ Leave(w)
        BY <3>6 DEF RecoverFunding, Start, AskForBudget, Plan, Implement, Review,
           AskAboutReview, Execute, Verify, MeterRefused, Settle, LocalFails, CallFails, SettleFails
      <4> QED BY <3>2, <4>1
    <3>7. CASE ListOrphans(w) \/ ReleaseOrphan(w) \/ OrphanStays(w)
      <4>1. \E at, v : SetTick(w, [x EXCEPT !.at = at, !.orphans = v])
        BY <3>7, OrphansPass DEF x
      <4> QED BY <1>2, <2>2, <4>1
    <3>8. CASE ReadToSettle(w)
      <4>1. \/ SetTick(w, [x EXCEPT !.at = "unsettled", !.next = row, !.spent = money.spent])
            \/ (\E v : Propose(w, v)) \/ Leave(w)
        BY <3>8 DEF ReadToSettle, SetTick, x
      <4> QED BY <1>2, <2>2, <3>2, <4>1
    <3> QED BY <1>6, <2>5, <3>3, <3>4, <3>5, <3>6, <3>7, <3>8 DEF Step, Break
  <2> QED BY <2>4, <2>5
<1> QED BY <1>3, <1>4, <1>5, <1>6 DEF Next

\* Every step keeps what reservations are asked for.
LEMMA AsksAreKept == ASSUME BuildInv, SpendInv, MoneyInv, AskInv, [Next]_vars PROVE AskInv'
<1>1. /\ money'.ceiling \in Nat /\ changes' \in Seq(Change) /\ Len(changes') <= MaxChanges
      /\ \A w \in Tick : ReadsWell(tick'[w], money'.spent)
      /\ \A q \in Request : OfferOK(request'[q])
  BY CeilingStays, ChangesAreBounded, ReadingsAreNumbers, OffersAreSound
<1>2. money'.spent \in Nat
  BY SpentGrows DEF AskInv
<1> QED BY <1>1, <1>2 DEF AskInv, OfferOK, ReadsWell

\* The ledger changes by a reservation the owner can pay for, a payment or a settlement.
Settles ==
    \E known : \E read \in Nat : read <= money.spent /\ SettleLedger(known, read) /\ UNCHANGED money

Reserves ==
    \E i \in ReservationId, amount \in Nat :
       MayReserveLedger(i, amount) /\ ReserveLedger(i, amount) /\ UNCHANGED money

LEMMA LedgerMoves ==
    ASSUME AskInv, [Next]_vars
    PROVE  UNCHANGED ledger \/ Reserves \/ RecordPurchase \/ Settles
<1> DEFINE Moves == UNCHANGED ledger \/ Reserves \/ RecordPurchase \/ Settles
<1>1. CASE UNCHANGED vars
  BY <1>1 DEF vars
<1>2. CASE Create \/ LeaseLapses
  <2>1. UNCHANGED ledger \/ (MayReserveLedger(0, Budget) /\ ReserveLedger(0, Budget) /\ UNCHANGED money)
    BY <1>2 DEF Create, InsertBuild, SecureBuild, QueueBuild, CreatorDies, LeaseLapses
  <2>2. Budget \in Nat /\ 0 \in ReservationId
    BY DevConstants, IdsAreFinite
  <2> QED BY <2>1, <2>2 DEF Reserves
<1>3. CASE Owner
  <2>1. CASE Retitle \/ Command \/ Cancel
    BY <2>1 DEF Retitle, Command, Cancel
  <2>2. CASE \E q \in Request, c \in DOMAIN changes :
               Deny(q, c) \/ \E max \in {0} \cup Budget..MaxBudget : Approve(q, c, max)
    BY <2>2 DEF Deny, Approve
  <2>3. ASSUME NEW q \in Request, Handle(q) \/ RequestDies(q) PROVE Moves
    <3>1. CASE SecureIncrease(q)
      <4> DEFINE c == request[q].change
                 more == request[q].delta
      <4>1. UNCHANGED ledger \/ (MayReserveLedger(c, more) /\ ReserveLedger(c, more) /\ UNCHANGED money)
        BY <3>1 DEF SecureIncrease
      <4>2. c \in ReservationId /\ more \in Nat
        BY <3>1 DEF SecureIncrease, AskInv
      <4> HIDE DEF c, more
      <4> QED BY <4>1, <4>2 DEF Reserves
    <3>2. SecureIncrease(q) \/ UNCHANGED ledger
      BY <2>3 DEF Handle, RaiseBudget, RecordRaise, ResolveChange, Resume, Finish, RequestDies
    <3> QED BY <3>1, <3>2
  <2> QED BY <1>3, <2>1, <2>2, <2>3 DEF Owner
<1>4. ASSUME NEW w \in Tick, Step(w) \/ Break(w) PROVE Moves
  <2>1. CASE RecoverFunding(w)
    <3> DEFINE c == tick[w].ceiling
    <3>1. UNCHANGED ledger \/ (MayReserveLedger(0, c) /\ ReserveLedger(0, c) /\ UNCHANGED money)
      BY <2>1 DEF RecoverFunding
    <3>2. c \in Nat /\ 0 \in ReservationId
      BY IdsAreFinite DEF AskInv, ReadsWell
    <3> HIDE DEF c
    <3> QED BY <3>1, <3>2 DEF Reserves
  <2>2. CASE Settle(w)
    <3>1. SettleLedger(tick[w].next.known, tick[w].spent) /\ UNCHANGED money
      BY <2>2 DEF Settle
    <3>2. tick[w].spent \in Nat /\ tick[w].spent <= money.spent
      BY DEF AskInv, ReadsWell
    <3> QED BY <3>1, <3>2 DEF Settles
  <2>3. CASE ~(RecoverFunding(w) \/ Settle(w))
    BY <1>4, <2>3 DEF Step, Break, Claim, ListOrphans, ReleaseOrphan, OrphanStays, Start, Prepare, Reserve,
       AskForBudget, Plan, Implement, Review, Captured, AskAboutReview, Execute, Verify, MeterRefused, Save,
       ReadToSettle, ReleaseLease, LocalFails, CallFails, SettleFails, Crash
  <2> QED BY <2>1, <2>2, <2>3
<1> QED BY <1>1, <1>2, <1>3, <1>4 DEF Next

\* Every step keeps the account.
LEMMA LedgerIsKept == ASSUME MoneyInv, SpendInv, AskInv, LedgerInv, [Next]_vars PROVE LedgerInv'
<1>1. CASE UNCHANGED ledger
  BY <1>1 DEF LedgerInv, NothingIsLost, Posted, MapThenSumSet, MapThenFoldSet
<1>2. CASE Reserves
  BY <1>2, ReservingKeeps DEF Reserves
<1>3. CASE Settles
  BY <1>3, SettlingKeeps DEF Settles
<1> QED BY <1>1, <1>2, <1>3, PayingKeeps, LedgerMoves

LEMMA LedgerIsSound == Spec => [](AskInv /\ LedgerInv)
<1>1. ASSUME Init PROVE AskInv /\ LedgerInv
  <2> DEFINE res == [i \in ReservationId |-> 0]
  <2>1. AskInv
    <3>1. money.ceiling \in Nat /\ MaxChanges \in Nat
      BY <1>1, DevConstants DEF Init
    <3>2. changes \in Seq(Change) /\ Len(changes) = 0
      BY <1>1 DEF Init
    <3> QED BY <1>1, <3>1, <3>2 DEF Init, AskInv, ReadsWell, IdleTick, IdleRequest
  <2>2. /\ ledger = [f \in Account |-> ledger[f]]
        /\ ledger.held = Wallet.held /\ ledger.credit = Wallet.credit /\ ledger.consumed = 0
        /\ ledger.res = res /\ ledger.captured = {} /\ ledger.paid = FALSE
    BY <1>1 DEF Init, Account
  <2>3. Wallet.held \in Int /\ Wallet.credit \in Int
    BY DevConstants
  <2>4. Under(Open) = 0
    <3>1. IsFiniteSet(Open) /\ \A i \in Open : ledger.res[i] = 0
      BY <2>2, IdsAreFinite DEF Open
    <3> QED BY <3>1, TotalOfNothing DEF Under
  <2>5. AllThere
    BY <2>2, <2>3, <2>4 DEF AllThere
  <2> QED BY <2>1, <2>2, <2>3, <2>5, NothingIsLostNow DEF LedgerInv
<1>2. BuildInv /\ SpendInv /\ MoneyInv /\ AskInv /\ LedgerInv /\ [Next]_vars => AskInv' /\ LedgerInv'
  BY AsksAreKept, LedgerIsKept
<1> QED BY <1>1, <1>2, CopiesAreHonest, MoneyIsSound, PTL DEF Spec

(* Whatever the postings of a build and whoever repeats them, no money of its owner is     *)
(* lost or made: what is held, owed as credit, consumed and still reserved is what there   *)
(* was and what was paid (the units of work of ledger.ts and funding.ts).                  *)
THEOREM NoMoneyIsLost == Spec => []NothingIsLost
<1>1. LedgerInv => NothingIsLost
  BY DEF LedgerInv
<1> QED BY <1>1, LedgerIsSound, PTL

-----------------------------------------------------------------------------
(* Money before work                                                       *)

\* The states of a build that has got no money.
Penniless == {"none", "awaiting_funding", "failed", "cancelled"}
Paying == {"reserve", "exceeded", "call", "blocked"}

\* Nobody works on a build without its budget, and nobody holds a copy of it that does.
UnfundedTick(x) ==
    /\ x.task.state \in Penniless /\ x.next.state \in Penniless /\ x.at \notin Paying
    /\ x.at \in {"claimed", "orphans", "work"} /\ x.task.state = "awaiting_funding" => x.ceiling > 0

Unfunded ==
    /\ spend = {} /\ money.ceiling > 0 /\ creator # "secured" /\ row.state \in Penniless
    /\ \A w \in Tick : UnfundedTick(tick[w])
    /\ \A q \in Request : request[q].task.state \in Penniless

FundInv == 0 \in Posted \/ Unfunded

\* What is posted is in the order it was taken in.
TakenInv ==
    /\ ledger.taken \in Seq(ReservationId)
    /\ \A i \in Posted : \E n \in 1..Len(ledger.taken) : ledger.taken[n] = i

\* What was settled: a build without its base budget consumed nothing, and the base budget
\* paid within itself.
SettleInv ==
    /\ ledger.credit >= 0 /\ ledger.held + ledger.credit >= 0 /\ money.spent \in Nat
    /\ 0 \notin ledger.captured => ledger.consumed = 0
    /\ Len(ledger.taken) <= 2 =>
          /\ ledger.consumed <= money.spent
          /\ ledger.captured = {0} => ledger.consumed <= ledger.res[0]

\* A reservation is posted for good.
LEMMA PostedStays ==
    ASSUME LedgerInv, NEW i \in ReservationId, NEW amount \in Nat, ReserveLedger(i, amount)
    PROVE  /\ Posted \subseteq Posted' /\ (amount > 0 => i \in Posted')
           /\ i \in Posted \/ (/\ ledger'.res = [ledger.res EXCEPT ![i] = amount]
                               /\ ledger'.taken = Append(ledger.taken, i)
                               /\ ledger'.credit = ledger.credit - Shortfall(amount)
                               /\ ledger'.held = ledger.held + Shortfall(amount) - amount
                               /\ ledger'.consumed = ledger.consumed /\ ledger'.credited = ledger.credited
                               /\ ledger'.captured = ledger.captured)
           /\ i \in Posted => ledger' = ledger
<1>1. CASE i \in Posted
  BY <1>1 DEF ReserveLedger, Posted
<1>2. CASE i \notin Posted
  <2> DEFINE s == Shortfall(amount)
             held == ledger.held + s - amount
             credit == ledger.credit - s
             taken == Append(ledger.taken, i)
             r == [ledger.res EXCEPT ![i] = amount]
  <2>1. ledger' = [ledger EXCEPT !.credit = credit, !.held = held, !.res[i] = amount, !.taken = taken]
    BY <1>2 DEF ReserveLedger
  <2> HIDE DEF s, held, credit, taken
  <2>2. /\ ledger'.res = r /\ ledger'.taken = taken /\ ledger'.credit = credit /\ ledger'.held = held
        /\ ledger'.consumed = ledger.consumed /\ ledger'.credited = ledger.credited
        /\ ledger'.captured = ledger.captured
    BY <2>1 DEF LedgerInv, Account
  <2>3. \A j \in ReservationId : r[j] = IF j = i THEN amount ELSE ledger.res[j]
    BY DEF LedgerInv
  <2>4. ledger.res[i] = 0
    BY <1>2 DEF LedgerInv, Posted
  <2> HIDE DEF r
  <2>5. Posted \subseteq Posted' /\ (amount > 0 => i \in Posted')
    BY <2>2, <2>3, <2>4 DEF Posted
  <2> QED BY <1>2, <2>2, <2>5 DEF s, held, credit, taken, r
<1> QED BY <1>1, <1>2

\* The ledger's own order of what it posted.
LEMMA PostedGrows ==
    ASSUME AskInv, LedgerInv, TakenInv, [Next]_vars
    PROVE  /\ Posted \subseteq Posted' /\ TakenInv'
           /\ Len(ledger.taken) \in Nat /\ Len(ledger.taken) <= Len(ledger'.taken)
<1>0. Len(ledger.taken) \in Nat
  BY DEF TakenInv
<1>1. CASE UNCHANGED ledger
  BY <1>0, <1>1 DEF TakenInv, Posted
<1>2. CASE Reserves
  <2>1. PICK i \in ReservationId, amount \in Nat : ReserveLedger(i, amount)
    BY <1>2 DEF Reserves
  <2>2. CASE i \in Posted
    <3>1. UNCHANGED ledger
      BY <2>1, <2>2 DEF ReserveLedger
    <3> QED BY <1>0, <3>1 DEF TakenInv, Posted
  <2>3. CASE i \notin Posted
    <3> DEFINE t == ledger.taken
    <3>1. /\ ledger'.res = [ledger.res EXCEPT ![i] = amount] /\ ledger'.taken = Append(t, i)
          /\ Posted \subseteq Posted'
      BY <2>1, <2>3, PostedStays
    <3>2. \A j \in Posted' : j \in Posted \/ j = i
      BY <3>1 DEF Posted, LedgerInv
    <3>3. /\ t \in Seq(ReservationId) /\ Append(t, i) \in Seq(ReservationId)
          /\ Len(Append(t, i)) = Len(t) + 1 /\ Append(t, i)[Len(t) + 1] = i
          /\ \A n \in 1..Len(t) : Append(t, i)[n] = t[n]
      BY DEF TakenInv
    <3>4. \A j \in Posted : \E n \in 1..Len(t) : t[n] = j
      BY DEF TakenInv
    <3> DEFINE u == Append(t, i)
    <3> HIDE DEF t, u
    <3>5. \A j \in Posted' : \E n \in 1..Len(u) : u[n] = j
      BY <1>0, <3>2, <3>3, <3>4 DEF u, t
    <3> QED BY <1>0, <3>1, <3>3, <3>5 DEF TakenInv, u, t
  <2> QED BY <2>2, <2>3
<1>3. CASE RecordPurchase
  <2>1. ledger'.res = ledger.res /\ ledger'.taken = ledger.taken
    BY <1>3, PaymentWrites
  <2> QED BY <1>0, <2>1 DEF TakenInv, Posted
<1>4. CASE Settles
  <2>1. Posted' = Posted /\ ledger'.taken = ledger.taken
    BY <1>4, SettlingWrites DEF Settles
  <2> QED BY <1>0, <2>1 DEF TakenInv
<1> QED BY <1>1, <1>2, <1>3, <1>4, LedgerMoves

\* An unfunded tick that ends, waits for a lease or starts over.
LEMMA UnfundedTicks ==
    /\ UnfundedTick(IdleTick) /\ UnfundedTick([IdleTick EXCEPT !.at = "done"])
    /\ \A r : r.state \in Penniless => UnfundedTick([IdleTick EXCEPT !.at = "settle", !.task = r])
    /\ \A r, c : r.state \in Penniless /\ (r.state = "awaiting_funding" => c > 0)
                 => UnfundedTick([IdleTick EXCEPT !.at = "claimed", !.task = r, !.ceiling = c])
BY DEF UnfundedTick, IdleTick, NoRow, Penniless, Paying

\* A slot that goes on unfunded leaves the others as they are.
LEMMA UnfundedTickMoves ==
    ASSUME BuildInv, Unfunded, NEW w \in Tick, NEW x, SetTick(w, x), UnfundedTick(x)
    PROVE  \A v \in Tick : UnfundedTick(tick'[v])
<1>1. \A v \in Tick : tick'[v] = IF v = w THEN x ELSE tick[v]
  BY DEF BuildInv, SetTick
<1> QED BY <1>1 DEF Unfunded

\* A save keeps the state of what is saved, and a build nobody paid for ends as it is.
LEMMA PennilessRows ==
    ASSUME NEW r, IsRow(r), r.state \in Penniless
    PROVE  /\ Failed(r).state \in Penniless /\ Stopped(r).state \in Penniless
           /\ SettlementPending(r).state \in Penniless
           /\ \A v : /\ [r EXCEPT !.due = v].state \in Penniless
                     /\ [r EXCEPT !.known = v].state \in Penniless
           /\ \A u, v : [r EXCEPT !.settlement = u, !.due = v].state \in Penniless
<1>1. Failed(r).state = "failed"
  BY MoveIsRow DEF Failed
<1>2. Stopped(r).state = "cancelled"
  BY MoveIsRow, PendingIsRow DEF Stopped, Alike
<1>3. SettlementPending(r).state = r.state
  BY PendingIsRow DEF Alike
<1>4. ASSUME NEW u, NEW v
      PROVE  /\ [r EXCEPT !.due = v].state = r.state /\ [r EXCEPT !.known = v].state = r.state
             /\ [r EXCEPT !.settlement = u, !.due = v].state = r.state
  BY DEF IsRow, Column
<1> QED BY <1>1, <1>2, <1>3, <1>4 DEF Penniless

\* Creating the build, until its budget is posted.
LEMMA UnfundedCreate ==
    ASSUME BuildInv, Unfunded, Create, 0 \notin Posted', \A i \in ReservationId, a \in Nat : 
           ReserveLedger(i, a) /\ a > 0 => i \in Posted'
    PROVE  Unfunded'
<1>1. UNCHANGED <<money, spend, tick, request>> /\ IsRow(row)
  BY DEF Create, InsertBuild, SecureBuild, QueueBuild, CreatorDies, BuildInv
<1>2. row'.state \in Penniless /\ creator' # "secured"
  <2>1. CASE InsertBuild
    <3> DEFINE new == [NoRow EXCEPT !.state = "awaiting_funding", !.due = TRUE]
    <3>1. row' = new /\ creator' = "inserted"
      BY <2>1 DEF InsertBuild
    <3>2. new.state = "awaiting_funding"
      BY DEF NoRow
    <3> QED BY <3>1, <3>2 DEF Penniless
  <2>2. CASE SecureBuild
    <3>1. ~ReserveLedger(0, Budget)
      BY DevConstants, IdsAreFinite
    <3> QED BY <2>2, <3>1 DEF SecureBuild, Unfunded
  <2>3. CASE QueueBuild
    <3>1. creator = "refused" /\ creator' = "done"
      BY <2>3 DEF QueueBuild, Unfunded
    <3>2. row' = row \/ row' = Saved(Failed(row))
      BY <2>3, <3>1 DEF QueueBuild, Failed
    <3>3. Saved(Failed(row)).state = Failed(row).state
      BY <1>1, FailedIsRow, SavedIsRow
    <3> QED BY <1>1, <3>1, <3>2, <3>3, PennilessRows DEF Unfunded
  <2>4. CASE CreatorDies
    BY <2>4 DEF CreatorDies, Unfunded
  <2> QED BY <2>1, <2>2, <2>3, <2>4 DEF Create
<1> QED BY <1>1, <1>2 DEF Unfunded

\* No model is called for a build that has got no money.
LEMMA UnfundedSteps ==
    ASSUME BuildInv, MoneyInv, AskInv, Unfunded, NEW w \in Tick, Step(w) \/ Break(w), 0 \notin Posted',
           \A i \in ReservationId, a \in Nat : ReserveLedger(i, a) /\ a > 0 => i \in Posted'
    PROVE  Unfunded'
<1> DEFINE x == tick[w]
           t == tick[w].task
<1>1. /\ x = [f \in {"at", "task", "next", "read", "orphans", "k", "ceiling", "spent"} |-> x[f]] /\ UnfundedTick(x)
      /\ IsRow(t) /\ IsRow(x.next) /\ IsRow(row) /\ Fresh(t).state = t.state
      /\ row.state \in Penniless /\ tick = [v \in Tick |-> tick[v]]
  BY WorkIsRow DEF BuildInv, TickOK, Unfunded
<1>2. \/ Claim(w) \/ ListOrphans(w) \/ ReleaseOrphan(w) \/ OrphanStays(w) \/ RecoverFunding(w)
      \/ Save(w) \/ ReadToSettle(w) \/ Settle(w) \/ SettleFails(w) \/ ReleaseLease(w) \/ Crash(w)
  <2>1. x.at \notin Paying /\ t.state \in Penniless
    BY <1>1 DEF UnfundedTick
  <2>2. /\ ~Reserve(w) /\ ~AskForBudget(w) /\ ~Plan(w) /\ ~Implement(w) /\ ~Review(w)
        /\ ~AskAboutReview(w) /\ ~CallFails(w) /\ ~MeterRefused(w)
    BY <2>1 DEF Reserve, AskForBudget, Plan, Implement, Review, Captured, AskAboutReview, CallFails,
       MeterRefused, Paying
  <2>3. ~Start(w) /\ ~Execute(w) /\ ~Prepare(w) /\ ~LocalFails(w)
    BY <2>1 DEF Start, Execute, Prepare, LocalFails, Penniless
  <2>4. ~Verify(w)
    BY <1>1, <2>1 DEF Verify, Penniless
  <2> QED BY <2>2, <2>3, <2>4 DEF Step, Break
<1>3. UNCHANGED <<request, creator>>
  BY <1>2 DEF Claim, ListOrphans, ReleaseOrphan, OrphanStays, RecoverFunding, Save, ReadToSettle, Settle,
     SettleFails, ReleaseLease, Crash
<1>4. UNCHANGED <<spend, money>>
  <2>1. CASE ReleaseOrphan(w)
    BY <2>1 DEF ReleaseOrphan, Unfunded
  <2> QED BY <1>2, <2>1 DEF Claim, ListOrphans, OrphanStays, RecoverFunding, Save, ReadToSettle, Settle,
     SettleFails, ReleaseLease, Crash
<1>5. row'.state \in Penniless
  <2>1. CASE Save(w)
    <3>1. row' = row \/ row' = Saved(x.next)
      BY <2>1 DEF Save
    <3> QED BY <1>1, <3>1, SavedIsRow DEF UnfundedTick
  <2>2. CASE ~Save(w)
    <3>1. row' = row
      BY <1>2, <2>2 DEF Claim, ListOrphans, ReleaseOrphan, OrphanStays, RecoverFunding, ReadToSettle, Settle,
         SettleFails, ReleaseLease, Crash
    <3> QED BY <1>1, <3>1
  <2> QED BY <2>1, <2>2
<1>6. \A v \in Tick : UnfundedTick(tick'[v])
  <2>1. CASE Claim(w)
    <3> DEFINE c == IF row.state = "awaiting_funding" THEN money.ceiling ELSE 0
    <3>1. SetTick(w, [IdleTick EXCEPT !.at = "claimed", !.task = row, !.ceiling = c])
      BY <2>1 DEF Claim, SetTick
    <3>2. row.state = "awaiting_funding" => c > 0
      BY DEF Unfunded
    <3> HIDE DEF c
    <3> QED BY <1>1, <3>1, <3>2, UnfundedTicks, UnfundedTickMoves
  <2>2. CASE ListOrphans(w) \/ ReleaseOrphan(w) \/ OrphanStays(w)
    <3> DEFINE After == {"orphans", AfterOrphans(x.task)}
    <3>1. x.at \in {"claimed", "orphans"} /\ \E at \in After : \E v : SetTick(w, [x EXCEPT !.at = at, !.orphans = v])
      BY <2>2, OrphansPass DEF ListOrphans, ReleaseOrphan, OrphanStays
    <3>2. PICK at \in After : \E v : SetTick(w, [x EXCEPT !.at = at, !.orphans = v])
      BY <3>1
    <3>3. PICK v : SetTick(w, [x EXCEPT !.at = at, !.orphans = v])
      BY <3>2
    <3>4. at \in {"orphans", "settle", "work"}
      BY DEF AfterOrphans
    <3> HIDE DEF x, After
    <3>5. UnfundedTick([x EXCEPT !.at = at, !.orphans = v])
      BY <1>1, <3>1, <3>4 DEF UnfundedTick, Paying
    <3> QED BY <3>3, <3>5, UnfundedTickMoves
  <2>3. ASSUME NEW next, Propose(w, next), next.state \in Penniless
        PROVE  \A v \in Tick : UnfundedTick(tick'[v])
    <3>1. SetTick(w, [x EXCEPT !.at = "save", !.next = next])
      BY <1>1, <2>3 DEF Propose, SetTick
    <3> HIDE DEF x
    <3>2. UnfundedTick([x EXCEPT !.at = "save", !.next = next])
      BY <1>1, <2>3 DEF UnfundedTick, Paying
    <3> QED BY <3>1, <3>2, UnfundedTickMoves
  <2>4. CASE RecoverFunding(w)
    <3>1. ~ReserveLedger(0, x.ceiling)
      <4>1. x.ceiling > 0 /\ x.ceiling \in Nat
        BY <1>1, <2>4 DEF RecoverFunding, UnfundedTick, AskInv, ReadsWell
      <4> QED BY <4>1, IdsAreFinite
    <3>2. Propose(w, Failed(t))
      BY <2>4, <3>1 DEF RecoverFunding
    <3>3. t.state \in Penniless
      BY <1>1 DEF UnfundedTick
    <3> QED BY <1>1, <2>3, <3>2, <3>3, PennilessRows
  <2>5. CASE ReadToSettle(w)
    <3>1. \/ Leave(w) \/ Propose(w, [row EXCEPT !.due = FALSE])
          \/ SetTick(w, [x EXCEPT !.at = "unsettled", !.next = row, !.spent = money.spent])
      BY <1>1, <2>5 DEF ReadToSettle, SetTick
    <3>2. ASSUME Leave(w) PROVE \A v \in Tick : UnfundedTick(tick'[v])
      <4>1. SetTick(w, [IdleTick EXCEPT !.at = "done"])
        BY <3>2 DEF Leave, SetTick
      <4> QED BY <4>1, UnfundedTicks, UnfundedTickMoves
    <3> HIDE DEF x
    <3>3. \A v : UnfundedTick([x EXCEPT !.at = "unsettled", !.next = row, !.spent = v])
      BY <1>1 DEF UnfundedTick, Paying
    <3> QED BY <1>1, <2>3, <3>1, <3>2, <3>3, PennilessRows, UnfundedTickMoves
  <2>51. CASE Settle(w) \/ SettleFails(w)
    <3>1. \/ Propose(w, SettlementPending(x.next))
          \/ Propose(w, [x.next EXCEPT !.settlement = "settled", !.due = FALSE])
      BY <2>51 DEF Settle, SettleFails
    <3>2. x.next.state \in Penniless
      BY <1>1 DEF UnfundedTick
    <3> QED BY <1>1, <2>3, <3>1, <3>2, PennilessRows
  <2>6. CASE Save(w) \/ ReleaseLease(w) \/ Crash(w)
    <3> DEFINE r == row'
    <3>1. \/ SetTick(w, [IdleTick EXCEPT !.at = "done"]) \/ SetTick(w, IdleTick)
          \/ SetTick(w, [IdleTick EXCEPT !.at = "settle", !.task = r])
      BY <2>6 DEF Save, ReleaseLease, Crash, Leave, SetTick
    <3>2. r.state \in Penniless
      BY <1>5
    <3> HIDE DEF r
    <3> QED BY <3>1, <3>2, UnfundedTicks, UnfundedTickMoves
  <2> QED BY <1>2, <2>1, <2>2, <2>4, <2>5, <2>51, <2>6
<1> QED BY <1>3, <1>4, <1>5, <1>6 DEF Unfunded

\* A request of a build without money.
LEMMA UnfundedRequestMoves ==
    ASSUME BuildInv, Unfunded, NEW q \in Request, NEW x, Ask(q, x), x.task.state \in Penniless
    PROVE  \A p \in Request : request'[p].task.state \in Penniless
<1>1. \A p \in Request : request'[p] = IF p = q THEN x ELSE request[p]
  BY DEF BuildInv, Ask
<1> QED BY <1>1 DEF Unfunded

\* A request can do nothing that takes a funded build.
LEMMA UnfundedRequests ==
    ASSUME BuildInv, MoneyInv, AskInv, Unfunded, NEW q \in Request, Handle(q) \/ RequestDies(q)
    PROVE  Unfunded'
<1> DEFINE x == request[q]
<1>1. /\ x = [f \in {"at", "task", "change", "max", "delta"} |-> x[f]] /\ x.task.state \in Penniless
      /\ x.max \in Nat /\ IsRow(row) /\ row.state \in Penniless
      /\ x.at = "resume" => x.task.state = "waiting_user"
  BY DEF BuildInv, RequestOK, AskInv, Unfunded
<1>2. \/ SecureIncrease(q) \/ RaiseBudget(q) \/ RecordRaise(q) \/ ResolveChange(q) \/ Finish(q)
      \/ RequestDies(q)
  <2>1. ~Resume(q)
    BY <1>1 DEF Resume, Penniless
  <2> QED BY <2>1 DEF Handle
<1>3. UNCHANGED <<spend, tick, creator>>
  BY <1>2 DEF SecureIncrease, RaiseBudget, RecordRaise, ResolveChange, Finish, RequestDies
<1>4. money'.ceiling > 0
  <2>1. CASE RaiseBudget(q)
    <3> DEFINE a == money.ceiling
               b == x.max
               m == Max({a, b})
    <3>1. money' = [money EXCEPT !.ceiling = m]
      BY <2>1 DEF RaiseBudget
    <3>2. a \in Int /\ b \in Int /\ a > 0
      BY <1>1 DEF AskInv, Unfunded
    <3> HIDE DEF a, b
    <3>3. m \in Int /\ m > 0
      <4>1. m \in Int /\ a <= m
        BY <3>2, GreaterOfTwo
      <4> HIDE DEF m
      <4> QED BY <3>2, <4>1
    <3> HIDE DEF m
    <3>4. money'.ceiling = m
      BY <3>1 DEF MoneyInv
    <3> QED BY <3>3, <3>4
  <2>2. CASE ~RaiseBudget(q)
    <3>1. UNCHANGED money
      BY <1>2, <2>2 DEF SecureIncrease, RecordRaise, ResolveChange, Finish, RequestDies
    <3> QED BY <3>1 DEF Unfunded
  <2> QED BY <2>1, <2>2
<1>5. row'.state \in Penniless
  <2>1. CASE RecordRaise(q)
    <3> DEFINE n == [row EXCEPT !.known = Append(@, x.change)]
    <3>1. row' = row \/ row' = Saved(n)
      BY <2>1 DEF RecordRaise, MutateFresh
    <3>2. IsRow(n) /\ n.state \in Penniless
      BY <1>1, ColumnsOfRow DEF Alike
    <3> HIDE DEF n
    <3> QED BY <1>1, <3>1, <3>2, SavedIsRow
  <2>2. CASE Finish(q)
    <3>1. row' = row \/ row' = Saved(Stopped(row))
      BY <2>2 DEF Finish, MutateFresh
    <3> QED BY <1>1, <3>1, StoppedIsRow, SavedIsRow, PennilessRows
  <2>3. CASE ~(RecordRaise(q) \/ Finish(q))
    <3>1. row' = row
      BY <1>2, <2>3 DEF SecureIncrease, RaiseBudget, ResolveChange, RequestDies
    <3> QED BY <1>1, <3>1
  <2> QED BY <2>1, <2>2, <2>3
<1>6. \A p \in Request : request'[p].task.state \in Penniless
  <2> DEFINE r == row'
  <2>1. \/ Ask(q, IdleRequest) \/ Ask(q, [x EXCEPT !.at = "raise"]) \/ Ask(q, [x EXCEPT !.at = "record"])
        \/ Ask(q, [x EXCEPT !.at = "resume"]) \/ Ask(q, [x EXCEPT !.at = "resolve", !.task = r])
    BY <1>2 DEF SecureIncrease, RaiseBudget, RecordRaise, ResolveChange, Finish, RequestDies
  <2>2. IdleRequest.task.state \in Penniless
    BY DEF IdleRequest, NoRow, Penniless
  <2>3. r.state \in Penniless
    BY <1>5
  <2> HIDE DEF x, r
  <2>4. /\ \A at : [x EXCEPT !.at = at].task.state \in Penniless
        /\ [x EXCEPT !.at = "resolve", !.task = r].task.state \in Penniless
    BY <1>1, <2>3
  <2> QED BY <2>1, <2>2, <2>4, UnfundedRequestMoves
<1> QED BY <1>3, <1>4, <1>5, <1>6 DEF Unfunded

\* Whatever the owner does.
LEMMA UnfundedOwner ==
    ASSUME BuildInv, MoneyInv, AskInv, Unfunded, Owner \/ LeaseLapses
    PROVE  Unfunded'
<1>1. IsRow(row) /\ row.state \in Penniless
  BY DEF BuildInv, Unfunded
<1>2. CASE RecordPurchase \/ Retitle \/ Command \/ Cancel \/ LeaseLapses
  <2>1. UNCHANGED <<spend, money, creator, tick, request>>
    BY <1>2 DEF RecordPurchase, Retitle, Command, Cancel, LeaseLapses
  <2>2. row' = row \/ row' = Saved(row) \/ row' = Saved(Stopped(row))
    BY <1>2 DEF RecordPurchase, Retitle, Command, Cancel, LeaseLapses, MutateFresh
  <2>3. row'.state \in Penniless
    BY <1>1, <2>2, StoppedIsRow, SavedIsRow, PennilessRows
  <2> QED BY <2>1, <2>3 DEF Unfunded
<1>3. ASSUME NEW q \in Request, NEW c \in DOMAIN changes, NEW max \in {0} \cup Budget..MaxBudget,
             Deny(q, c) \/ Approve(q, c, max)
      PROVE  Unfunded'
  <2> DEFINE at == IF max > money.ceiling THEN "secure" ELSE "resolve"
             more == max - money.ceiling
             x == [IdleRequest EXCEPT !.at = at, !.task = row, !.change = c, !.max = max, !.delta = more]
  <2>1. UNCHANGED <<row, spend, money, creator, tick>>
    BY <1>3 DEF Deny, Approve
  <2>2. Ask(q, IdleRequest) \/ Ask(q, [IdleRequest EXCEPT !.at = "finish"]) \/ Ask(q, x)
    BY <1>3 DEF Deny, Approve
  <2> HIDE DEF at, more
  <2>3. /\ IdleRequest.task.state \in Penniless
        /\ [IdleRequest EXCEPT !.at = "finish"].task.state \in Penniless
        /\ x.task.state \in Penniless
    BY <1>1 DEF IdleRequest, NoRow, Penniless
  <2> HIDE DEF x
  <2>4. \A p \in Request : request'[p].task.state \in Penniless
    BY <2>2, <2>3, UnfundedRequestMoves
  <2> QED BY <2>1, <2>4 DEF Unfunded
<1>4. ASSUME NEW q \in Request, NEW c \in DOMAIN changes, Deny(q, c) PROVE Unfunded'
  <2>1. 0 \in {0} \cup Budget..MaxBudget
    OBVIOUS
  <2> QED BY <1>3, <1>4, <2>1
<1> QED BY <1>2, <1>3, <1>4, UnfundedRequests DEF Owner

\* Until its budget is posted nothing is spent on a build.
LEMMA FundingIsKept ==
    ASSUME BuildInv, MoneyInv, AskInv, LedgerInv, TakenInv, FundInv, [Next]_vars
    PROVE  FundInv'
<1>1. CASE 0 \in Posted \/ 0 \in Posted'
  BY <1>1, PostedGrows DEF FundInv
<1>2. CASE Unfunded /\ 0 \notin Posted'
  <2>1. \A i \in ReservationId, a \in Nat : ReserveLedger(i, a) /\ a > 0 => i \in Posted'
    BY PostedStays
  <2>2. CASE UNCHANGED vars
    <3>1. Unfunded'
      BY <1>2, <2>2 DEF vars, Unfunded, UnfundedTick
    <3> QED BY <3>1 DEF FundInv
  <2>3. CASE Next
    <3>1. Unfunded'
      BY <1>2, <2>1, <2>3, UnfundedCreate, UnfundedSteps, UnfundedOwner DEF Next
    <3> QED BY <3>1 DEF FundInv
  <2> QED BY <2>2, <2>3
<1> QED BY <1>1, <1>2 DEF FundInv

-----------------------------------------------------------------------------
(* What a settlement of a build pays                                       *)

\* The smaller of two numbers, and the greater.
LEMMA SmallerIs == \A a, b \in Int : Min({a, b}) = IF a <= b THEN a ELSE b
<1> SUFFICES ASSUME NEW a \in Int, NEW b \in Int PROVE Min({a, b}) = IF a <= b THEN a ELSE b
  OBVIOUS
<1>1. \E x \in {a, b} : \A y \in {a, b} : x <= y
  <2>1. CASE a <= b
    BY <2>1
  <2>2. CASE ~(a <= b)
    BY <2>2
  <2> QED BY <2>1, <2>2
<1> DEFINE m == CHOOSE x \in {a, b} : \A y \in {a, b} : x <= y
<1>2. m \in {a, b} /\ \A y \in {a, b} : m <= y
  BY <1>1
<1>3. Min({a, b}) = m
  BY DEF Min
<1> HIDE DEF m
<1> QED BY <1>2, <1>3

LEMMA GreaterIs == \A a, b \in Int : Max({a, b}) = IF a >= b THEN a ELSE b
<1> SUFFICES ASSUME NEW a \in Int, NEW b \in Int PROVE Max({a, b}) = IF a >= b THEN a ELSE b
  OBVIOUS
<1>1. \E x \in {a, b} : \A y \in {a, b} : x >= y
  <2>1. CASE a >= b
    BY <2>1
  <2>2. CASE ~(a >= b)
    BY <2>2
  <2> QED BY <2>1, <2>2
<1> DEFINE m == CHOOSE x \in {a, b} : \A y \in {a, b} : x >= y
<1>2. m \in {a, b} /\ \A y \in {a, b} : m >= y
  BY <1>1
<1>3. Max({a, b}) = m
  BY DEF Max
<1> HIDE DEF m
<1> QED BY <1>2, <1>3

\* Of a number and nothing.
LEMMA AboveNothing == \A x \in Int : Max({0, x}) = IF x > 0 THEN x ELSE 0
<1> SUFFICES ASSUME NEW x \in Int PROVE Max({0, x}) = IF x > 0 THEN x ELSE 0
  OBVIOUS
<1> DEFINE z == 0
<1>1. z \in Int
  OBVIOUS
<1> HIDE DEF z
<1>2. Max({z, x}) = IF z >= x THEN z ELSE x
  BY <1>1, GreaterIs
<1> QED BY <1>2 DEF z

\* Sums of none, of one and of two.
LEMMA TotalOfTwo ==
    ASSUME NEW x, NEW f, f[x] \in Int
    PROVE  /\ Total({}, f) = 0 /\ Total({x}, f) = f[x]
           /\ \A y : y # x /\ f[y] \in Int => Total({x, y}, f) = f[x] + f[y]
<1>1. Total({}, f) = 0
  BY FS_EmptySet, TotalRecurs
<1>2. ASSUME NEW z, f[z] \in Int PROVE Total({z}, f) = f[z]
  <2>1. IsFiniteSet({z}) /\ {z} \in SUBSET {z} /\ z \in {z} /\ {z} \ {z} = {}
    BY FS_Singleton
  <2>2. Total({z}, f) = f[z] + Total({z} \ {z}, f)
    BY <1>2, <2>1, TotalTakes
  <2> DEFINE e == {z} \ {z}
  <2>3. e = {}
    OBVIOUS
  <2>4. Total(e, f) = 0
    BY <1>1, <2>3
  <2> QED BY <1>2, <2>2, <2>4
<1>3. ASSUME NEW y, y # x, f[y] \in Int PROVE Total({x, y}, f) = f[x] + f[y]
  <2>1. IsFiniteSet({x, y})
    <3>1. IsFiniteSet({x} \cup {y})
      BY FS_Singleton, FS_AddElement
    <3>2. {x, y} = {x} \cup {y}
      OBVIOUS
    <3> QED BY <3>1, <3>2
  <2>2. {x, y} \in SUBSET {x, y} /\ x \in {x, y} /\ {x, y} \ {x} = {y} /\ \A z \in {x, y} : f[z] \in Int
    BY <1>3
  <2>3. Total({x, y}, f) = f[x] + Total({x, y} \ {x}, f)
    BY <2>1, <2>2, TotalTakes
  <2> QED BY <1>2, <1>3, <2>2, <2>3
<1> QED BY <1>1, <1>2, <1>3

\* Reservations add up to no less than nothing.
LEMMA UnderIsNat == ASSUME LedgerInv PROVE \A A \in SUBSET ReservationId : Under(A) \in Nat
<1> SUFFICES ASSUME NEW A \in SUBSET ReservationId PROVE Under(A) \in Nat
  OBVIOUS
<1>1. IsFiniteSet(A) /\ \A i \in A : ledger.res[i] \in Nat
  BY IdsAreFinite DEF LedgerInv
<1> QED BY <1>1, TotalIsNat DEF Under

\* What is allocated where nothing was spent, to the budget, and to the one raise beside it.
LEMMA AllocationIs ==
    ASSUME LedgerInv, NEW known, NEW i \in ReservationId, NEW s \in Nat
    PROVE  /\ s = 0 => Allocation(known, i, s) = 0
           /\ i = 0 => Allocation(known, i, s) = IF ledger.res[i] <= s THEN ledger.res[i] ELSE s
           /\ i # 0 /\ Posted = {0, i} =>
                 Allocation(known, i, s) = IF s <= ledger.res[0] THEN 0
                                    ELSE IF ledger.res[i] <= s - ledger.res[0] THEN ledger.res[i]
                                         ELSE s - ledger.res[0]
<1> DEFINE before == {j \in Posted : SettledBefore(known, j, i)}
           e == Under(before)
           d == s - e
           m == Max({0, d})
           r == ledger.res[i]
<1>1. before \in SUBSET ReservationId
  BY DEF Posted
<1>2. e \in Nat
  <2> HIDE DEF before
  <2> QED BY <1>1, UnderIsNat
<1>3. r \in Nat
  BY DEF LedgerInv
<1>4. Allocation(known, i, s) = Min({r, m})
  BY UnderIs DEF Allocation
<1>5. i = 0 => before = {}
  BY DEF SettledBefore
<1>6. i # 0 /\ Posted = {0, i} => before = {0}
  BY DEF SettledBefore
<1>7. i = 0 => e = 0
  <2>1. Total({}, ledger.res) = 0
    BY FS_EmptySet, TotalRecurs
  <2> HIDE DEF before
  <2> QED BY <1>5, <2>1 DEF Under
<1>8. i # 0 /\ Posted = {0, i} => e = ledger.res[0]
  <2>1. ledger.res[0] \in Int
    BY IdsAreFinite DEF LedgerInv
  <2>2. Total({0}, ledger.res) = ledger.res[0]
    BY <2>1, TotalOfTwo
  <2> HIDE DEF before
  <2> QED BY <1>6, <2>2 DEF Under
<1> HIDE DEF e
<1>9. m = IF d > 0 THEN d ELSE 0
  <2>1. d \in Int
    BY <1>2
  <2> HIDE DEF d
  <2> QED BY <2>1, AboveNothing
<1>10. m \in Int
  BY <1>2, <1>9
<1> HIDE DEF m
<1>11. Allocation(known, i, s) = IF r <= m THEN r ELSE m
  <2> HIDE DEF r
  <2> QED BY <1>3, <1>4, <1>10, SmallerIs
<1>12. s = 0 => Allocation(known, i, s) = 0
  <2> HIDE DEF r
  <2> QED BY <1>2, <1>3, <1>9, <1>11
<1>13. i = 0 => Allocation(known, i, s) = IF r <= s THEN r ELSE s
  <2> HIDE DEF r
  <2> QED BY <1>2, <1>3, <1>7, <1>9, <1>11
<1>14. i # 0 /\ Posted = {0, i} =>
          Allocation(known, i, s) = IF s <= ledger.res[0] THEN 0 ELSE IF r <= s - ledger.res[0] THEN r ELSE s - ledger.res[0]
  <2>1. ledger.res[0] \in Int
    BY IdsAreFinite DEF LedgerInv
  <2> DEFINE z == ledger.res[0]
  <2> HIDE DEF r, z
  <2> SUFFICES ASSUME i # 0 /\ Posted = {0, i}
               PROVE  Allocation(known, i, s) = IF s <= z THEN 0 ELSE IF r <= s - z THEN r ELSE s - z
    BY DEF z
  <2>2. e = z /\ z \in Int
    BY <1>8, <2>1 DEF z
  <2>3. m = IF s - z > 0 THEN s - z ELSE 0
    BY <1>9, <2>2
  <2> QED BY <1>3, <1>11, <2>2, <2>3
<1> QED BY <1>12, <1>13, <1>14

\* Each reservation pays something between nothing and all of it.
LEMMA AllocationIsWithin ==
    ASSUME LedgerInv, NEW known, NEW i \in ReservationId, NEW s \in Nat
    PROVE  Allocation(known, i, s) \in Nat /\ ledger.res[i] - Allocation(known, i, s) \in Nat
<1> DEFINE e == Under({j \in Posted : SettledBefore(known, j, i)})
           d == s - e
           m == Max({0, d})
           r == ledger.res[i]
<1>1. e \in Nat
  <2>1. {j \in Posted : SettledBefore(known, j, i)} \in SUBSET ReservationId
    BY DEF Posted
  <2> QED BY <2>1, UnderIsNat
<1>2. r \in Nat
  BY DEF LedgerInv
<1>3. Allocation(known, i, s) = Min({r, m})
  BY UnderIs DEF Allocation
<1> HIDE DEF e
<1>4. m = IF d > 0 THEN d ELSE 0
  <2>1. d \in Int
    BY <1>1
  <2> HIDE DEF d
  <2> QED BY <2>1, AboveNothing
<1>5. m \in Nat
  BY <1>1, <1>4
<1> HIDE DEF m, r
<1>6. Allocation(known, i, s) = IF r <= m THEN r ELSE m
  BY <1>2, <1>3, <1>5, SmallerIs
<1>7. Allocation(known, i, s) \in Nat /\ r - Allocation(known, i, s) \in Nat
  BY <1>2, <1>5, <1>6
<1> QED BY <1>7 DEF r

\* What a settlement reckons with.
LEMMA SpendOfBuildIs ==
    ASSUME LedgerInv, NEW read \in Nat
    PROVE  /\ Under(Posted) \in Nat /\ SpendOfBuild(read) \in Nat
           /\ SpendOfBuild(read) = IF read <= Under(Posted) THEN read ELSE Under(Posted)
           /\ Unused(read) >= 0 /\ Unused(read) \in Int
<1> DEFINE R == Under(Posted)
           p == read
<1>1. R \in Nat
  BY UnderIsNat DEF Posted
<1>2. p \in Nat
  OBVIOUS
<1>3. Unused(read) = IF ledger.credited THEN 0 ELSE R - SpendOfBuild(read)
  BY DEF Unused
<1>4. SpendOfBuild(read) = Min({p, R})
  BY DEF SpendOfBuild
<1> HIDE DEF R, p
<1>5. SpendOfBuild(read) = IF p <= R THEN p ELSE R
  BY <1>1, <1>2, <1>4, SmallerIs
<1>6. SpendOfBuild(read) \in Nat /\ Unused(read) >= 0 /\ Unused(read) \in Int
  BY <1>1, <1>2, <1>3, <1>5
<1> QED BY <1>1, <1>5, <1>6 DEF R, p

\* What is paid and given back of a set of reservations.
LEMMA PaidAndBack ==
    ASSUME LedgerInv, NEW known, NEW read \in Nat
    PROVE  LET a(i) == Allocation(known, i, SpendOfBuild(read))
               r(i) == ledger.res[i]
           IN  /\ Uncaptured = {} => Paid(known, read) = 0 /\ Back(known, read) = 0
               /\ \A i \in ReservationId : Uncaptured = {i} => Paid(known, read) = a(i) /\ Back(known, read) = r(i) - a(i)
               /\ \A i, j \in ReservationId :
                     Uncaptured = {i, j} /\ i # j => Paid(known, read) = a(i) + a(j) /\ Back(known, read) = (r(i) - a(i)) + (r(j) - a(j))
<1> DEFINE a(i) == Allocation(known, i, SpendOfBuild(read))
           r(i) == ledger.res[i]
           N == Uncaptured
           f == [i \in N |-> a(i)]
           g == [i \in N |-> r(i) - a(i)]
<1>1. SpendOfBuild(read) \in Int
  BY SpendOfBuildIs
<1>2. \A i \in ReservationId : a(i) \in Int /\ r(i) \in Int
  BY <1>1, AllocationsAreNumbers DEF LedgerInv
<1>3. Paid(known, read) = Total(N, f) /\ Back(known, read) = Total(N, g) /\ N \subseteq ReservationId
  BY DEF Paid, Back, Uncaptured, Posted
<1>4. \A i \in N : f[i] = a(i) /\ g[i] = r(i) - a(i)
  OBVIOUS
<1> HIDE DEF a, r, N, f, g
<1>5. N = {} => Paid(known, read) = 0 /\ Back(known, read) = 0
  <2>1. Total({}, f) = 0 /\ Total({}, g) = 0
    BY FS_EmptySet, TotalRecurs
  <2> QED BY <1>3, <2>1
<1>6. ASSUME NEW i \in ReservationId, N = {i} PROVE Paid(known, read) = a(i) /\ Back(known, read) = r(i) - a(i)
  <2>1. f[i] = a(i) /\ g[i] = r(i) - a(i) /\ f[i] \in Int /\ g[i] \in Int
    BY <1>2, <1>4, <1>6
  <2>2. Total({i}, f) = f[i] /\ Total({i}, g) = g[i]
    BY <2>1, TotalOfTwo
  <2> QED BY <1>3, <1>6, <2>1, <2>2
<1>7. ASSUME NEW i \in ReservationId, NEW j \in ReservationId, N = {i, j}, i # j
      PROVE  Paid(known, read) = a(i) + a(j) /\ Back(known, read) = (r(i) - a(i)) + (r(j) - a(j))
  <2>1. /\ f[i] = a(i) /\ g[i] = r(i) - a(i) /\ f[i] \in Int /\ g[i] \in Int
        /\ f[j] = a(j) /\ g[j] = r(j) - a(j) /\ f[j] \in Int /\ g[j] \in Int
    BY <1>2, <1>4, <1>7
  <2>2. Total({i, j}, f) = f[i] + f[j] /\ Total({i, j}, g) = g[i] + g[j]
    BY <1>7, <2>1, TotalOfTwo
  <2> QED BY <1>3, <1>7, <2>1, <2>2
<1> QED BY <1>5, <1>6, <1>7 DEF a, r, N

\* The build took its budget first of all, and one raise at most.
LEMMA AtMostTwo ==
    ASSUME TakenInv, Len(ledger.taken) <= 2, 0 \in Posted
    PROVE  Posted = {0} \/ \E c \in ReservationId : c # 0 /\ Posted = {0, c}
<1> DEFINE t == ledger.taken
<1>1. Len(t) \in Nat /\ \A i \in Posted : \E n \in 1..Len(t) : t[n] = i
  BY DEF TakenInv
<1>2. \A i \in Posted : i \in {t[1], t[2]}
  BY <1>1
<1>3. Posted \subseteq ReservationId
  BY DEF Posted
<1> HIDE DEF t
<1> QED BY <1>2, <1>3

\* What a settlement keeps, while the build took two reservations at most.
SettlesWell(known, read) ==
    /\ ledger.consumed + Paid(known, read) <= money.spent /\ Paid(known, read) \in Int
    /\ Posted = {0} => ledger.consumed + Paid(known, read) <= ledger.res[0]

\* Where nothing was spent, nothing is paid.
LEMMA NothingPaid ==
    ASSUME LedgerInv, NEW known PROVE SpendOfBuild(0) = 0 /\ Paid(known, 0) = 0
<1> DEFINE N == Uncaptured
           f == [i \in N |-> Allocation(known, i, SpendOfBuild(0))]
           R == Under(Posted)
           o == 0
<1>1. N \in SUBSET ReservationId /\ IsFiniteSet(N)
  BY IdsAreFinite DEF Uncaptured, Posted
<1>2. SpendOfBuild(o) = 0
  <2>1. o \in Nat
    OBVIOUS
  <2> HIDE DEF o
  <2>2. R \in Nat /\ SpendOfBuild(o) = IF o <= R THEN o ELSE R
    BY <2>1, SpendOfBuildIs
  <2> HIDE DEF R
  <2> QED BY <2>2 DEF o
<1>3. \A i \in N : f[i] = 0
  <2>1. \A i \in N : Allocation(known, i, SpendOfBuild(0)) = 0
    BY <1>1, <1>2, AllocationIs
  <2> HIDE DEF N
  <2> QED BY <2>1
<1>4. Paid(known, 0) = Total(N, f)
  BY DEF Paid
<1> HIDE DEF f, N
<1>5. Total(N, f) = 0
  BY <1>1, <1>3, TotalOfNothing
<1> QED BY <1>2, <1>4, <1>5 DEF o

\* Without its budget the build has spent nothing, whatever raises it took.
LEMMA SettlingUnfunded ==
    ASSUME LedgerInv, SettleInv, NEW known, NEW read \in Nat, read <= money.spent,
           money.spent = 0, 0 \notin Posted
    PROVE  SettlesWell(known, read)
<1>1. read = 0
  OBVIOUS
<1>2. Paid(known, read) = 0
  BY <1>1, NothingPaid
<1>3. ledger.consumed = 0
  BY DEF SettleInv, LedgerInv
<1>4. Posted # {0}
  OBVIOUS
<1> QED BY <1>2, <1>3, <1>4 DEF SettlesWell

\* What was settled before, as numbers.
LEMMA SettledSoFar ==
    ASSUME LedgerInv, SettleInv, Len(ledger.taken) <= 2
    PROVE  /\ ledger.res[0] \in Nat /\ money.spent \in Nat
           /\ ledger.consumed \in Int /\ ledger.consumed <= money.spent
           /\ ledger.captured = {0} => ledger.consumed <= ledger.res[0]
           /\ 0 \notin ledger.captured => ledger.consumed = 0
<1>1. ledger.res[0] \in Nat /\ ledger.consumed \in Int
  BY IdsAreFinite DEF LedgerInv
<1> QED BY <1>1 DEF SettleInv

\* The base budget alone pays within itself.
LEMMA SettlingBudget ==
    ASSUME LedgerInv, SettleInv, NEW known, NEW read \in Nat, read <= money.spent,
           Len(ledger.taken) <= 2, Posted = {0}
    PROVE  SettlesWell(known, read)
<1> DEFINE z == ledger.res[0]
           p == money.spent
           S == SpendOfBuild(read)
           consumed == ledger.consumed
<1>1. /\ z \in Nat /\ p \in Nat /\ consumed \in Int /\ consumed <= p
      /\ ledger.captured = {0} => consumed <= z
      /\ 0 \notin ledger.captured => consumed = 0
      /\ ledger.captured \subseteq {0}
  BY SettledSoFar DEF LedgerInv
<1>2. Under({0}) = z
  <2>1. ledger.res[0] \in Int
    BY <1>1
  <2> QED BY <2>1, TotalOfTwo DEF Under
<1>3. S \in Nat /\ S = IF read <= z THEN read ELSE z
  BY <1>1, <1>2, SpendOfBuildIs
<1>4. Allocation(known, 0, S) = S
  <2>1. Allocation(known, 0, S) = IF z <= S THEN z ELSE S
    BY <1>3, IdsAreFinite, AllocationIs
  <2> HIDE DEF z, S
  <2> QED BY <1>1, <1>3, <2>1
<1>5. CASE ledger.captured = {}
  <2>1. Uncaptured = {0}
    BY <1>5 DEF Uncaptured
  <2>2. Paid(known, read) = S
    BY <1>4, <2>1, IdsAreFinite, PaidAndBack
  <2>3. consumed = 0 /\ read <= p
    BY <1>1, <1>5
  <2> HIDE DEF z, p, S, consumed
  <2>4. consumed + Paid(known, read) <= p /\ Paid(known, read) \in Int /\ consumed + Paid(known, read) <= z
    BY <1>1, <1>3, <2>2, <2>3
  <2> QED BY <2>4 DEF SettlesWell, z, p, consumed
<1>6. CASE ledger.captured = {0}
  <2>1. Uncaptured = {}
    BY <1>6 DEF Uncaptured
  <2>2. Paid(known, read) = 0
    BY <2>1, PaidAndBack
  <2> HIDE DEF z, p, S, consumed
  <2>3. consumed + Paid(known, read) <= p /\ Paid(known, read) \in Int /\ consumed + Paid(known, read) <= z
    BY <1>1, <1>6, <2>2
  <2> QED BY <2>3 DEF SettlesWell, z, p, consumed
<1> QED BY <1>1, <1>5, <1>6

\* The budget pays first, and the raise what the budget did not.
LEMMA SettlingRaise ==
    ASSUME LedgerInv, SettleInv, NEW known, NEW read \in Nat, read <= money.spent,
           Len(ledger.taken) <= 2, NEW c \in ReservationId, c # 0, Posted = {0, c}
    PROVE  SettlesWell(known, read)
<1> DEFINE z == ledger.res[0]
           y == ledger.res[c]
           p == money.spent
           S == SpendOfBuild(read)
           consumed == ledger.consumed
           a == Allocation(known, 0, S)
           b == Allocation(known, c, S)
           C == ledger.captured
<1>1. /\ z \in Nat /\ y \in Nat /\ p \in Nat /\ consumed \in Int /\ consumed <= p
      /\ C = {0} => consumed <= z
      /\ 0 \notin C => consumed = 0
      /\ C \in {{}, {0}, {c}, {0, c}}
  <2>1. C \subseteq {0, c} /\ ledger.res[0] \in Nat /\ ledger.res[c] \in Nat
    BY IdsAreFinite DEF LedgerInv
  <2>2. C \in {{}, {0}, {c}, {0, c}}
    BY <2>1
  <2> QED BY <2>1, <2>2, SettledSoFar
<1>2. S \in Nat /\ S <= p
  <2> DEFINE R == Under(Posted)
  <2>1. R \in Nat /\ S \in Nat /\ S = IF read <= R THEN read ELSE R
    BY SpendOfBuildIs
  <2>2. read <= p
    OBVIOUS
  <2> HIDE DEF R, S, p
  <2> QED BY <1>1, <2>1, <2>2
<1>3. a = IF z <= S THEN z ELSE S
  BY <1>2, IdsAreFinite, AllocationIs
<1>4. b = IF S <= z THEN 0 ELSE IF y <= S - z THEN y ELSE S - z
  BY <1>2, AllocationIs
<1>5. SUFFICES consumed + Paid(known, read) <= p /\ Paid(known, read) \in Int
  <2>1. Posted # {0}
    OBVIOUS
  <2> QED BY <2>1 DEF SettlesWell
<1>6. CASE C = {}
  <2>1. Uncaptured = {0, c}
    BY <1>6 DEF Uncaptured
  <2>2. Paid(known, read) = a + b
    BY <2>1, IdsAreFinite, PaidAndBack
  <2>3. consumed = 0
    BY <1>1, <1>6
  <2> HIDE DEF z, y, p, S, consumed, a, b
  <2> QED BY <1>1, <1>2, <1>3, <1>4, <2>2, <2>3
<1>7. CASE C = {0}
  <2>1. Uncaptured = {c}
    BY <1>7 DEF Uncaptured
  <2>2. Paid(known, read) = b
    BY <2>1, PaidAndBack
  <2>3. consumed <= z
    BY <1>1, <1>7
  <2> HIDE DEF z, y, p, S, consumed, a, b
  <2> QED BY <1>1, <1>2, <1>4, <2>2, <2>3
<1>8. CASE C = {c}
  <2>1. Uncaptured = {0}
    BY <1>8 DEF Uncaptured
  <2>2. Paid(known, read) = a
    BY <2>1, IdsAreFinite, PaidAndBack
  <2>3. consumed = 0
    BY <1>1, <1>8
  <2> HIDE DEF z, y, p, S, consumed, a, b
  <2> QED BY <1>1, <1>2, <1>3, <2>2, <2>3
<1>9. CASE C = {0, c}
  <2>1. Uncaptured = {}
    BY <1>9 DEF Uncaptured
  <2>2. Paid(known, read) = 0
    BY <2>1, PaidAndBack
  <2> HIDE DEF z, y, p, S, consumed, a, b
  <2> QED BY <1>1, <2>2
<1> QED BY <1>1, <1>6, <1>7, <1>8, <1>9

\* What is not paid is given back.
LEMMA BackIsNat ==
    ASSUME LedgerInv, NEW known, NEW read \in Nat PROVE Back(known, read) \in Nat
<1> DEFINE N == Uncaptured
           g == [i \in N |-> ledger.res[i] - Allocation(known, i, SpendOfBuild(read))]
<1>1. N \in SUBSET ReservationId /\ IsFiniteSet(N)
  BY IdsAreFinite DEF Uncaptured, Posted
<1>2. \A i \in N : g[i] \in Nat
  <2>1. SpendOfBuild(read) \in Nat
    BY SpendOfBuildIs
  <2>2. \A i \in N : ledger.res[i] - Allocation(known, i, SpendOfBuild(read)) \in Nat
    BY <1>1, <2>1, AllocationIsWithin
  <2> HIDE DEF N
  <2> QED BY <2>2
<1>3. Back(known, read) = Total(N, g)
  BY DEF Back
<1> HIDE DEF N, g
<1> QED BY <1>1, <1>2, <1>3, TotalIsNat

\* A step that settles nothing, and takes from nobody what he does not have.
LEMMA NothingSettled ==
    ASSUME LedgerInv, SettleInv, money'.spent \in Int, money'.spent >= money.spent,
           ledger'.captured = ledger.captured, ledger'.consumed = ledger.consumed,
           ledger'.credit >= 0, ledger'.held + ledger'.credit >= 0,
           0 \in ledger.captured => ledger'.res[0] = ledger.res[0],
           Len(ledger'.taken) <= 2 => Len(ledger.taken) <= 2
    PROVE  SettleInv'
<1> DEFINE p == money.spent
           q == money'.spent
           consumed == ledger.consumed
<1>1. p \in Nat /\ q \in Nat /\ p <= q /\ consumed \in Int
  BY DEF SettleInv, LedgerInv
<1>2. Len(ledger.taken) <= 2 =>
         consumed <= p /\ (ledger.captured = {0} => consumed <= ledger.res[0])
  BY DEF SettleInv
<1>3. Len(ledger'.taken) <= 2 =>
         consumed <= q /\ (ledger.captured = {0} => consumed <= ledger'.res[0])
  <2>1. consumed <= p => consumed <= q
    <3> HIDE DEF p, q, consumed
    <3> QED BY <1>1
  <2>2. ledger.captured = {0} => ledger'.res[0] = ledger.res[0]
    OBVIOUS
  <2> HIDE DEF p, q, consumed
  <2> QED BY <1>2, <2>1, <2>2
<1> QED BY <1>1, <1>3 DEF SettleInv

\* A reservation takes no more than there is.
LEMMA ReservingSettlesNothing ==
    ASSUME LedgerInv, TakenInv, SettleInv, Reserves PROVE SettleInv'
<1>1. PICK i \in ReservationId, amount \in Nat :
           MayReserveLedger(i, amount) /\ ReserveLedger(i, amount) /\ UNCHANGED money
  BY DEF Reserves
<1>2. /\ money.spent \in Nat /\ ledger.credit >= 0 /\ ledger.held + ledger.credit >= 0
      /\ ledger.credit \in Int /\ ledger.held \in Int
  BY DEF SettleInv, LedgerInv
<1>3. CASE i \in Posted
  <2>1. UNCHANGED ledger
    BY <1>1, <1>3, PostedStays
  <2> QED BY <1>1, <1>2, <2>1, NothingSettled
<1>4. CASE i \notin Posted
  <2> DEFINE s == Shortfall(amount)
             t == ledger.taken
             r == ledger.res
  <2>1. /\ ledger'.res = [r EXCEPT ![i] = amount] /\ ledger'.taken = Append(t, i)
        /\ ledger'.credit = ledger.credit - s /\ ledger'.held = ledger.held + s - amount
        /\ ledger'.consumed = ledger.consumed /\ ledger'.captured = ledger.captured
    BY <1>1, <1>4, PostedStays
  <2>2. s <= ledger.credit
    BY <1>1, <1>4 DEF MayReserveLedger
  <2>3. s = IF amount - ledger.held > 0 THEN amount - ledger.held ELSE 0
    <3>1. amount - ledger.held \in Int
      BY <1>2
    <3> QED BY <3>1, AboveNothing DEF Shortfall
  <2>4. Len(Append(t, i)) = Len(t) + 1 /\ Len(t) \in Nat
    BY DEF TakenInv
  <2>5. 0 \in ledger.captured => ledger'.res[0] = r[0]
    <3>1. 0 \in ledger.captured => 0 # i
      BY <1>4 DEF LedgerInv
    <3> QED BY <2>1, <3>1, IdsAreFinite DEF LedgerInv
  <2> HIDE DEF s, t
  <2>6. ledger'.credit >= 0 /\ ledger'.held + ledger'.credit >= 0
    BY <1>2, <2>1, <2>2, <2>3
  <2>7. Len(ledger'.taken) <= 2 => Len(ledger.taken) <= 2
    BY <2>1, <2>4 DEF t
  <2> HIDE DEF r
  <2> QED BY <1>1, <1>2, <2>1, <2>5, <2>6, <2>7, NothingSettled DEF r
<1> QED BY <1>3, <1>4

\* A settlement, fresh or stale, pays no more than was spent.
LEMMA SettlingIsSettled ==
    ASSUME SpendInv, MoneyInv, LedgerInv, TakenInv, FundInv, SettleInv, Settles PROVE SettleInv'
<1>0. PICK known : \E read \in Nat : read <= money.spent /\ SettleLedger(known, read) /\ UNCHANGED money
  BY DEF Settles
<1>1. PICK read \in Nat : read <= money.spent /\ SettleLedger(known, read) /\ UNCHANGED money
  BY <1>0
<1> DEFINE p == money.spent
           U == Unused(read)
           B == Back(known, read)
<1>2. /\ ledger'.held = ledger.held + B - U /\ ledger'.credit = ledger.credit + U
      /\ ledger'.consumed = ledger.consumed + Paid(known, read) /\ ledger'.res = ledger.res
      /\ ledger'.captured = Posted /\ ledger'.taken = ledger.taken
  BY <1>1, SettlingWrites
<1>3. /\ p \in Nat /\ ledger.credit >= 0 /\ ledger.held + ledger.credit >= 0
      /\ ledger.credit \in Int /\ ledger.held \in Int
  BY DEF SettleInv, LedgerInv
<1>4. U >= 0 /\ U \in Int /\ B \in Nat
  BY SpendOfBuildIs, BackIsNat
<1>5. ledger'.credit >= 0 /\ ledger'.held + ledger'.credit >= 0
  <2> HIDE DEF U, B
  <2> QED BY <1>2, <1>3, <1>4
<1>6. ASSUME 0 \notin Posted PROVE p = 0
  <2>1. spend = {}
    BY <1>6 DEF FundInv, Unfunded
  <2>2. Charges({}) = 0
    BY FS_EmptySet, ChargesTotal, TotalRecurs
  <2> QED BY <2>1, <2>2, SpendSums
<1>7. ASSUME 0 \notin Posted PROVE ledger'.consumed = 0
  <2>1. ledger.consumed = 0
    BY <1>7 DEF SettleInv, LedgerInv
  <2>2. read = 0
    BY <1>1, <1>6, <1>7
  <2>3. Paid(known, read) = 0
    BY <2>2, NothingPaid
  <2> QED BY <1>2, <2>1, <2>3
<1>8. ASSUME Len(ledger.taken) <= 2
      PROVE  ledger'.consumed <= p /\ (Posted = {0} => ledger'.consumed <= ledger.res[0])
  <2>1. SettlesWell(known, read)
    <3>1. CASE 0 \in Posted
      BY <1>1, <1>8, <3>1, AtMostTwo, SettlingBudget, SettlingRaise
    <3>2. CASE 0 \notin Posted
      BY <1>1, <1>6, <3>2, SettlingUnfunded
    <3> QED BY <3>1, <3>2
  <2> QED BY <1>2, <2>1 DEF SettlesWell
<1>9. money' = money
  BY <1>1
<1> HIDE DEF U, B
<1> QED BY <1>2, <1>3, <1>5, <1>7, <1>8, <1>9 DEF SettleInv

\* Whatever the step, the next settlement finds what it needs.
LEMMA SettledIsKept ==
    ASSUME SpendInv, MoneyInv, AskInv, LedgerInv, TakenInv, FundInv, SettleInv, [Next]_vars
    PROVE  SettleInv'
<1>1. money'.spent \in Int /\ money'.spent >= money.spent
  BY SpentGrows
<1>2. ledger.credit >= 0 /\ ledger.held + ledger.credit >= 0
  BY DEF SettleInv
<1>3. CASE UNCHANGED ledger
  BY <1>1, <1>2, <1>3, NothingSettled
<1>4. CASE Reserves
  BY <1>4, ReservingSettlesNothing
<1>5. CASE RecordPurchase
  <2>1. /\ ledger'.held = ledger.held + Payment /\ ledger'.credit = ledger.credit
        /\ ledger'.consumed = ledger.consumed /\ ledger'.res = ledger.res
        /\ ledger'.captured = ledger.captured /\ ledger'.taken = ledger.taken
    BY <1>5, PaymentWrites
  <2>2. Payment \in Nat /\ ledger.held \in Int /\ ledger.credit \in Int
    BY DevConstants DEF LedgerInv
  <2>3. ledger'.credit >= 0 /\ ledger'.held + ledger'.credit >= 0
    BY <1>2, <2>1, <2>2
  <2> QED BY <1>1, <2>1, <2>3, NothingSettled
<1>6. CASE Settles
  BY <1>6, SettlingIsSettled
<1> QED BY <1>3, <1>4, <1>5, <1>6, LedgerMoves

\* The build at first: nothing taken, nothing settled.
LEMMA LedgerStarts == ASSUME Init PROVE TakenInv /\ FundInv /\ SettleInv
<1>1. /\ ledger.taken = <<>> /\ ledger.captured = {} /\ ledger.res = [i \in ReservationId |-> 0]
      /\ ledger.held = Wallet.held /\ ledger.credit = Wallet.credit /\ ledger.consumed = 0
  BY DEF Init
<1>2. Posted = {}
  BY <1>1 DEF Posted
<1>3. TakenInv
  BY <1>1, <1>2 DEF TakenInv
<1>4. Wallet.held \in Nat /\ Wallet.credit \in Nat /\ Budget \in Nat /\ Budget > 0
  BY DevConstants
<1>5. money.spent = 0 /\ money.ceiling = Budget
  BY DEF Init
<1>6. SettleInv
  BY <1>1, <1>4, <1>5 DEF SettleInv
<1>7. Unfunded
  BY <1>4, <1>5, UnfundedTicks, NoRowIsRow DEF Init, Unfunded, Penniless, IdleRequest
<1> QED BY <1>3, <1>6, <1>7 DEF FundInv

\* The build's budget, the order of its reservations and its settlements, together.
LEMMA LedgerIsSettled == Spec => [](LedgerInv /\ TakenInv /\ FundInv /\ SettleInv)
<1>1. /\ BuildInv /\ SpendInv /\ MoneyInv /\ AskInv /\ LedgerInv /\ TakenInv /\ FundInv /\ SettleInv
      /\ [Next]_vars
      => TakenInv' /\ FundInv' /\ SettleInv'
  BY PostedGrows, FundingIsKept, SettledIsKept
<1> QED BY <1>1, LedgerStarts, CopiesAreHonest, MoneyIsSound, LedgerIsSound, PTL DEF Spec

(* What is not funded is not worked on. *)
BudgetBeforeWork == 0 \notin Posted => spend = {} /\ row.state \in Penniless

(* A build spends nothing, and is neither queued nor running, until its base budget is posted *)
(* with the owner's ledger, whoever posts it: the request that creates the build or the       *)
(* worker that finds it waiting for funds (service.ts, orchestrator.ts).                      *)
THEOREM WorkIsFunded == Spec => []BudgetBeforeWork
<1>1. FundInv => BudgetBeforeWork
  BY DEF FundInv, Unfunded, BudgetBeforeWork
<1> QED BY <1>1, LedgerIsSettled, PTL

(* However often a build is settled, by whichever worker, on whatever it read before and with *)
(* a raise taken in between: no money of its owner is lost or made, neither his credit nor    *)
(* what budget and credit come to together falls below nothing and, as long as the build took *)
(* one raise at most, the ledger consumes no more than the build spent (settle of funding.ts, *)
(* the units of work of ledger.ts, which look at no balance when they capture and credit).    *)
THEOREM LedgersBalance == Spec => []LedgerBalances
<1>1. LedgerInv /\ SettleInv => LedgerBalances
  BY DEF LedgerInv, SettleInv, LedgerBalances, SettledWithinSpend
<1> QED BY <1>1, LedgerIsSettled, PTL

-----------------------------------------------------------------------------
(* What holds with any number of raises                                    *)

(* What was consumed came out of what was captured, and no account of credit is overdrawn. *)
CapturesStayWithin ==
    /\ ledger.consumed >= 0
    /\ ledger.consumed <= MapThenSumSet(LAMBDA i : ledger.res[i], ledger.captured)
    /\ ledger.credit >= 0

\* The same, in the terms of these proofs.
Within == ledger.consumed >= 0 /\ ledger.consumed <= Under(ledger.captured)

\* A settlement pays of each reservation it captures a part.
LEMMA SettlingPaysWithin ==
    ASSUME LedgerInv, NEW known, NEW read \in Nat, Within, SettleLedger(known, read)
    PROVE  Within'
<1> DEFINE N == Uncaptured
           C == ledger.captured
           f == [i \in N |-> Allocation(known, i, SpendOfBuild(read))]
           g == [i \in N |-> ledger.res[i] - Allocation(known, i, SpendOfBuild(read))]
<1>1. /\ N \in SUBSET ReservationId /\ C \in SUBSET ReservationId /\ IsFiniteSet(N)
      /\ Posted \in SUBSET ReservationId /\ IsFiniteSet(Posted) /\ C \in SUBSET Posted /\ Posted \ C = N
      /\ \A i \in Posted : ledger.res[i] \in Int
  BY IdsAreFinite DEF LedgerInv, Uncaptured, Posted
<1>2. \A i \in N : f[i] \in Nat /\ g[i] \in Nat /\ ledger.res[i] = f[i] + g[i]
  <2>1. SpendOfBuild(read) \in Nat
    BY SpendOfBuildIs
  <2>2. \A i \in N : Allocation(known, i, SpendOfBuild(read)) \in Nat /\ ledger.res[i] - Allocation(known, i, SpendOfBuild(read)) \in Nat
                     /\ ledger.res[i] \in Nat
    BY <1>1, <2>1, AllocationIsWithin DEF LedgerInv
  <2> HIDE DEF N
  <2> QED BY <2>2
<1>3. Paid(known, read) = Total(N, f)
  BY DEF Paid
<1> HIDE DEF f, g, N, C
<1>4. Total(N, f) \in Nat /\ Total(N, g) \in Nat
  BY <1>1, <1>2, TotalIsNat
<1>5. Under(N) = Total(N, f) + Total(N, g)
  <2>1. \A i \in N : f[i] \in Int /\ g[i] \in Int /\ ledger.res[i] = f[i] + g[i]
    BY <1>2
  <2>2. Total(N, ledger.res) = Total(N, f) + Total(N, g)
    BY <1>1, <2>1, TotalOfSums
  <2> QED BY <2>2 DEF Under
<1>6. Under(Posted) = Under(C) + Under(N) /\ Under(C) \in Nat
  <2>1. Total(Posted, ledger.res) = Total(C, ledger.res) + Total(Posted \ C, ledger.res)
    BY <1>1, TotalOfParts
  <2> QED BY <1>1, <2>1, UnderIsNat DEF Under
<1>7. ledger'.consumed = ledger.consumed + Paid(known, read) /\ Under(ledger.captured)' = Under(Posted)
  BY SettlingWrites DEF Under
<1>8. ledger.consumed \in Int /\ ledger.consumed >= 0 /\ ledger.consumed <= Under(C)
  BY DEF LedgerInv, Within, C
<1>9. ledger'.consumed >= 0 /\ ledger'.consumed <= Under(ledger.captured)'
  BY <1>3, <1>4, <1>5, <1>6, <1>7, <1>8
<1> QED BY <1>9 DEF Within

LEMMA WithinIsKept ==
    ASSUME LedgerInv, AskInv, SettleInv, Within, [Next]_vars PROVE Within'
<1>1. CASE UNCHANGED ledger
  BY <1>1 DEF Within, Under
<1>2. CASE Reserves
  <2>1. PICK i \in ReservationId, amount \in Nat : ReserveLedger(i, amount)
    BY <1>2 DEF Reserves
  <2>2. CASE i \in Posted
    <3>1. UNCHANGED ledger
      BY <2>1, <2>2, PostedStays
    <3> QED BY <3>1 DEF Within, Under
  <2>3. CASE i \notin Posted
    <3> DEFINE C == ledger.captured
               f == ledger.res
               g == ledger'.res
    <3>1. /\ g = [f EXCEPT ![i] = amount] /\ ledger'.captured = C
          /\ ledger'.consumed = ledger.consumed
      BY <2>1, <2>3, PostedStays
    <3>2. \A j \in C : f[j] = g[j]
      BY <2>3, <3>1 DEF LedgerInv
    <3>3. C \in SUBSET ReservationId /\ IsFiniteSet(C)
      BY IdsAreFinite DEF LedgerInv, Posted
    <3> HIDE DEF C, f, g
    <3>4. Total(C, f) = Total(C, g)
      BY <3>2, <3>3, TotalDepends
    <3>5. Under(ledger.captured)' = Under(ledger.captured)
      BY <3>1, <3>4 DEF Under, C, f, g
    <3> QED BY <3>1, <3>5 DEF Within
  <2> QED BY <2>2, <2>3
<1>3. CASE RecordPurchase
  BY <1>3, PaymentWrites DEF Within, Under
<1>4. CASE Settles
  BY <1>4, SettlingPaysWithin DEF Settles
<1> QED BY <1>1, <1>2, <1>3, <1>4, LedgerMoves

(* However many raises a build takes, and in whatever order and however often it is settled,  *)
(* "each capture stays within its own reservation" (funding.ts): all that the ledger consumes *)
(* is within what it captured, and no more credit is spent than there is. Only the bound by   *)
(* what the build spent is lost with a second raise (SettledWithinSpend).                     *)
THEOREM CapturesAreWithin == Spec => []CapturesStayWithin
<1>1. ASSUME Init PROVE Within
  <2>1. ledger.consumed = 0 /\ ledger.captured = {}
    BY <1>1 DEF Init
  <2>2. Total({}, ledger.res) = 0
    BY FS_EmptySet, TotalRecurs
  <2> QED BY <2>1, <2>2 DEF Within, Under
<1>2. AskInv /\ LedgerInv /\ SettleInv /\ Within /\ [Next]_vars => Within'
  BY WithinIsKept
<1>3. SettleInv /\ Within => CapturesStayWithin
  BY UnderIs DEF SettleInv, Within, CapturesStayWithin
<1> QED BY <1>1, <1>2, <1>3, LedgerIsSound, LedgerIsSettled, PTL DEF Spec
=============================================================================
