------------------------------ MODULE HttpApi ------------------------------
(***************************************************************************)
(* The HTTP server in session mode: how a request is identified, what it   *)
(* is checked against, and what it changes, with every request served      *)
(* concurrently with the others and an await between any two steps.  The   *)
(* code is src/src/server.js, auth.js, tenant-security.js,                 *)
(* abuse-controls.js and the guards of admin-control.js.                   *)
(*                                                                         *)
(* A route that changes accounts, tenants or the liveness of a task does   *)
(* it here; the others are told apart by the checks in front of them only  *)
(* and hand over to an operation another module models.  Each account has  *)
(* its own tenant, as createUser makes them.                               *)
(***************************************************************************)
EXTENDS Naturals, FiniteSets

CONSTANTS
    Account, Client,
    Task,               \* tasks that may be created
    Exposed,            \* bound: accounts that are guessed at, disabled and suspended
    SignupOpen,         \* RAZEKIT_SIGNUP is "open"
    LOCKOUT_THRESHOLD,  \* failed sign-ins of an account before it is locked out
    MaxActiveTasks,     \* the tenants' limit
    Nobody

VARIABLES
    users,      \* the accounts that exist: role and status
    sessions,   \* the account a client's cookie stands for, if its session is stored
    failures,   \* wrong sign-ins in the window since the last right one, in the server's memory
    closed,     \* suspended tenants
    tasks,      \* the tasks that exist: owner, and whether they count as active
    request     \* the request a client has in flight

ASSUME ApiAssumption ==
    /\ SignupOpen \in BOOLEAN /\ Nobody \notin Account
    /\ LOCKOUT_THRESHOLD \in Nat \ {0} /\ MaxActiveTasks \in Nat
    /\ Exposed \subseteq Account /\ IsFiniteSet(Client)

identity == <<users, sessions, failures>>
apiVars == <<identity, closed, tasks, request>>

\* A collection with one more record.
With(f, x, row) == [y \in DOMAIN f \cup {x} |-> IF y = x THEN row ELSE f[y]]

Exists == DOMAIN users
Active(a) == users[a].status = "active"

\* "disabled" and "shut" say that the caller was disabled, or its tenant
\* suspended, when the request arrived and has been ever since.
Idle == [at |-> "idle", who |-> Nobody, what |-> "none", on |-> Nobody, disabled |-> FALSE, shut |-> FALSE]
SigningIn(a, at) == [Idle EXCEPT !.at = at, !.who = a]
Of(a, at, what, on) == [at |-> at, who |-> a, what |-> what, on |-> on, disabled |-> a \in Exists /\ ~Active(a),
                         shut |-> at = "check" /\ a \in closed]

In(c, at) == request[c].at = at
MoveOn(c, at) == request' = [request EXCEPT ![c].at = at]
Answer(c) == request' = [request EXCEPT ![c] = Idle]
\* A caller that is let in again has not been shut out ever since it came.
AnswerReadmitting(c, a, Again(_)) ==
    request' = [d \in Client |-> IF d = c THEN Idle
                                ELSE IF request[d].who = a THEN Again(request[d]) ELSE request[d]]
Enabled(r) == [r EXCEPT !.disabled = FALSE]
Reopened(r) == [r EXCEPT !.shut = FALSE]

ApiInit ==
    /\ users = <<>> /\ tasks = <<>> /\ closed = {}
    /\ sessions = [c \in Client |-> Nobody] /\ failures = [a \in Account |-> 0]
    /\ request = [c \in Client |-> Idle]

-----------------------------------------------------------------------------
(* Accounts and sessions. *)

\* hashPassword comes first: the account is decided in one transaction.
CreateUser(a, role) ==
    /\ a \notin Exists /\ (role = "owner" => Exists = {})
    /\ users' = With(users, a, [role |-> role, status |-> "active"])

BootstrapOwner(c, a) ==
    /\ In(c, "idle") /\ CreateUser(a, "owner")
    /\ UNCHANGED <<sessions, failures, closed, tasks, request>>

\* Sign-up looks whether the deployment has an account, creates its own and
\* signs in as if it had just arrived.
SignUp(c, a) ==
    /\ In(c, "idle") /\ SignupOpen /\ Exists # {}
    /\ request' = [request EXCEPT ![c] = SigningIn(a, "signup")]
    /\ UNCHANGED <<identity, closed, tasks>>
CreateMember(c) ==
    /\ In(c, "signup") /\ CreateUser(request[c].who, "member") /\ MoveOn(c, "login")
    /\ UNCHANGED <<sessions, failures, closed, tasks>>

LockedOutLate(a) == failures[a] > LOCKOUT_THRESHOLD
LockedOut(a) == failures[a] >= LOCKOUT_THRESHOLD

\* login: the lockout and the stored account are read before the hash, and the
\* outcome is decided on what was read.
BeginLogin(c, a, password) ==
    /\ \/ In(c, "idle")
       \/ In(c, "login") /\ a = request[c].who /\ password = "right"
    /\ ~LockedOut(a)
    /\ a \in Exists /\ password = "right" => Active(a)
    /\ request' = [request EXCEPT ![c] =
          SigningIn(a, IF a \in Exists /\ password = "right" THEN "verified" ELSE "wrong")]
    /\ UNCHANGED <<identity, closed, tasks>>
LoginFails(c) ==
    /\ In(c, "wrong")
    /\ failures' = [failures EXCEPT ![request[c].who] = @ + 1]
    /\ Answer(c) /\ UNCHANGED <<users, sessions, closed, tasks>>
LoginSucceeds(c) ==
    /\ In(c, "verified")
    /\ failures' = [failures EXCEPT ![request[c].who] = 0]
    /\ MoveOn(c, "session") /\ UNCHANGED <<users, sessions, closed, tasks>>
\* createSession asks for the account, not for its status.
CreateSession(c) ==
    /\ In(c, "session") /\ request[c].who \in Exists
    /\ sessions' = [sessions EXCEPT ![c] = request[c].who]
    /\ Answer(c) /\ UNCHANGED <<users, failures, closed, tasks>>

RevokeUserSessions(a) == sessions' = [c \in Client |-> IF sessions[c] = a THEN Nobody ELSE sessions[c]]
RevokeSession(c) ==
    /\ In(c, "idle") /\ sessions' = [sessions EXCEPT ![c] = Nobody]
    /\ UNCHANGED <<users, failures, closed, tasks, request>>

\* The current password is verified on a snapshot; the new one ends every
\* session of the account and opens one.
ChangePassword(c) ==
    /\ In(c, "ready") /\ request[c].what = "password"
    /\ RevokeUserSessions(request[c].who)
    /\ request' = [request EXCEPT ![c] = SigningIn(request[c].who, "session")]
    /\ UNCHANGED <<users, failures, closed, tasks>>

-----------------------------------------------------------------------------
(* Who is calling. *)

ResolveByToken(c) == IF sessions[c] \in Exists THEN sessions[c] ELSE Nobody
ResolveSession(c) == IF sessions[c] \in Exists /\ Active(sessions[c]) THEN sessions[c] ELSE Nobody
\* The operator token passes the same guard, without an account.
AssertOperator(p) == users[p].role \in {"owner", "admin"}

\* The changes this module follows, by what their routes ask of the caller;
\* "list" and those named "of ..." stand for the routes that read or hand over.
TaskChanges == {"authorize", "cancel", "of one task"}
TenantChanges == {"create", "list"}
OperatorChanges == {"create user", "enable user", "disable user", "suspend", "resume", "of operators"}
Changes == UNION {TaskChanges, TenantChanges, OperatorChanges, {"password", "of anyone"}}
Target(change) ==
    CASE change \in TaskChanges -> DOMAIN tasks
      [] change = "create user" -> Account
      [] change \in {"enable user", "disable user", "suspend", "resume"} -> Exposed
      [] OTHER -> {Nobody}

\* Only the routes of tasks check more than the caller.
Identify(c, change, on) ==
    /\ In(c, "idle")
    /\ LET p == ResolveSession(c) IN
       /\ p # Nobody
       /\ change \in OperatorChanges => AssertOperator(p)
       /\ request' = [request EXCEPT ![c] =
             Of(p, IF change \in TaskChanges \cup TenantChanges THEN "check" ELSE "ready", change, on)]
    /\ UNCHANGED <<identity, closed, tasks>>

-----------------------------------------------------------------------------
(* What the route checks, on a snapshot. *)

AssertTaskAccess(c, t) == t \in DOMAIN tasks /\ tasks[t].owner = request[c].who /\ tasks[t].owner \notin closed
CheckTask(c) ==
    /\ In(c, "check") /\ request[c].what \in TaskChanges
    /\ AssertTaskAccess(c, request[c].on)
    /\ MoveOn(c, IF request[c].what = "authorize" THEN "tenant" ELSE "ready")
    /\ UNCHANGED <<identity, closed, tasks>>

\* ensureTenant and assertTenantActive.
TenantIsActive(a) == a \notin closed
CheckTenant(c) ==
    /\ \/ In(c, "tenant") /\ MoveOn(c, "ready")
       \/ In(c, "check") /\ request[c].what = "create" /\ MoveOn(c, "limit")
       \/ In(c, "check") /\ request[c].what = "list" /\ MoveOn(c, "ready")
    /\ TenantIsActive(request[c].who)
    /\ UNCHANGED <<identity, closed, tasks>>

ActiveTasks(a) == {t \in DOMAIN tasks : tasks[t].owner = a /\ tasks[t].active}
EnforceActiveTaskLimit(c) ==
    /\ In(c, "limit") /\ Cardinality(ActiveTasks(request[c].who)) < MaxActiveTasks
    /\ MoveOn(c, "ready") /\ UNCHANGED <<identity, closed, tasks>>

-----------------------------------------------------------------------------
(* What the route does. *)

CreateTask(c) ==
    /\ In(c, "ready") /\ request[c].what = "create"
    /\ \E t \in Task \ DOMAIN tasks : tasks' = With(tasks, t, [owner |-> request[c].who, active |-> TRUE])
    /\ Answer(c) /\ UNCHANGED <<identity, closed>>
AuthorizeTask(c) ==
    /\ In(c, "ready") /\ request[c].what = "authorize"
    /\ tasks' = [tasks EXCEPT ![request[c].on].active = TRUE]
    /\ Answer(c) /\ UNCHANGED <<identity, closed>>
CancelTask(c) ==
    /\ In(c, "ready") /\ request[c].what = "cancel"
    /\ tasks' = [tasks EXCEPT ![request[c].on].active = FALSE]
    /\ Answer(c) /\ UNCHANGED <<identity, closed>>
HandOver(c) ==
    /\ In(c, "ready") /\ request[c].what \in {"list", "of one task", "of operators", "of anyone"}
    /\ Answer(c) /\ UNCHANGED <<identity, closed, tasks>>

CreateUserRoute(c) ==
    /\ In(c, "ready") /\ request[c].what = "create user"
    /\ \E role \in {"admin", "member"} : CreateUser(request[c].on, role)
    /\ Answer(c) /\ UNCHANGED <<sessions, failures, closed, tasks>>
SetUserStatusRoute(c) ==
    LET a == request[c].on IN
    /\ In(c, "ready") /\ request[c].what \in {"enable user", "disable user"} /\ a \in Exists
    /\ IF request[c].what = "enable user"
       THEN /\ users' = [users EXCEPT ![a].status = "active"] /\ UNCHANGED sessions
            /\ AnswerReadmitting(c, a, Enabled)
       ELSE /\ users[a].role # "owner" /\ users' = [users EXCEPT ![a].status = "disabled"]
            /\ RevokeUserSessions(a) /\ Answer(c)
    /\ UNCHANGED <<failures, closed, tasks>>
SuspendRoute(c) ==
    /\ In(c, "ready") /\ request[c].what = "suspend" /\ request[c].on \in Exists
    /\ closed' = closed \cup {request[c].on}
    /\ Answer(c) /\ UNCHANGED <<identity, tasks>>
ResumeRoute(c) ==
    /\ In(c, "ready") /\ request[c].what = "resume" /\ request[c].on \in Exists
    /\ closed' = closed \ {request[c].on}
    /\ AnswerReadmitting(c, request[c].on, Reopened) /\ UNCHANGED <<identity, tasks>>

-----------------------------------------------------------------------------
(* Validation, a missing record, a lost connection: a request may end early. *)

Refuse(c) == ~In(c, "idle") /\ Answer(c) /\ UNCHANGED <<identity, closed, tasks>>
SessionExpires(c) ==
    /\ sessions[c] # Nobody /\ sessions' = [sessions EXCEPT ![c] = Nobody]
    /\ UNCHANGED <<users, failures, closed, tasks, request>>
FailureForgotten(a) ==
    /\ failures[a] > 0 /\ failures' = [failures EXCEPT ![a] = @ - 1]
    /\ UNCHANGED <<users, sessions, closed, tasks, request>>
\* Failed sign-ins are remembered in memory only.
Restart ==
    /\ failures' = [a \in Account |-> 0] /\ request' = [c \in Client |-> Idle]
    /\ UNCHANGED <<users, sessions, closed, tasks>>

SignInStep(c) ==
    \/ \E a \in Account : BootstrapOwner(c, a) \/ SignUp(c, a) \/ BeginLogin(c, a, "right")
    \/ \E a \in Exposed : BeginLogin(c, a, "wrong")
    \/ CreateMember(c) \/ LoginFails(c) \/ LoginSucceeds(c) \/ CreateSession(c) \/ RevokeSession(c) \/ SessionExpires(c)
RouteStep(c) ==
    \/ \E change \in Changes : \E on \in Target(change) : Identify(c, change, on)
    \/ CheckTask(c) \/ CheckTenant(c) \/ EnforceActiveTaskLimit(c) \/ Refuse(c)
    \/ ChangePassword(c) \/ CreateTask(c) \/ AuthorizeTask(c) \/ CancelTask(c) \/ HandOver(c)
    \/ CreateUserRoute(c) \/ SetUserStatusRoute(c) \/ SuspendRoute(c) \/ ResumeRoute(c)

ApiNext ==
    \/ \E c \in Client : SignInStep(c) \/ RouteStep(c)
    \/ \E a \in Account : FailureForgotten(a)
    \/ Restart

ApiSpec == ApiInit /\ [][ApiNext]_apiVars

-----------------------------------------------------------------------------
(* Properties *)

\* An account gets no more wrong sign-ins in a row than the threshold and the
\* requests already under way, however many run side by side: auth.js reads the
\* failures before the hash and adds to them after it.  In a row means since its
\* last right sign-in, which forgets them (auth.js:198), within the window and
\* one run of the server (auth.js:167-170).
WrongInARowBounded ==
    \A a \in Account : failures[a] <= LOCKOUT_THRESHOLD + Cardinality(Client) - 1

\* A request that arrived while its account was disabled does not get as far as
\* its change, although createSession may store a session of an account disabled
\* during its sign-in (auth.js:202).  One that arrived while its tenant was
\* suspended neither starts, changes nor sees a task (tenant-security.js:87),
\* whatever runs between its checks.
ShutOutGetsNothing ==
    \A c \in Client : In(c, "ready") =>
        /\ ~request[c].disabled
        /\ request[c].what \in TaskChanges \cup TenantChanges => ~request[c].shut
=============================================================================
