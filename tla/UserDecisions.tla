--------------------------- MODULE UserDecisions ---------------------------
(***************************************************************************)
(* What a task asks of its user, and what the answers do to it: permission *)
(* to call a tool, a credential, a change of the instruction, and the      *)
(* suspension of the tenant.  The code is src/src/permission-broker.js,    *)
(* tool-broker.js, credential-vault.js, user-actions.js, the changes of    *)
(* dashboard.js, task-instructions.js and admin-control.js.                *)
(*                                                                         *)
(* One task and its agent.  One tool with one scope, which needs one       *)
(* credential.  One step is one transaction, or one read that a later step *)
(* of the same request uses.                                               *)
(***************************************************************************)
EXTENDS Naturals, Sequences, FiniteSets

CONSTANTS
    Call,       \* requests of the API being served
    Node,       \* nodes of the graph that tools are called for
    MaxCalls,   \* bound: requests served
    MaxCredentials, \* bound: credentials registered
    MaxStops    \* bound: suspensions, cancellations and requests that die

VARIABLES
    agent, task,  \* [status, was]: "was" is suspendedPreviousStatus
    suspended,
    asks,         \* permission requests: the node and the decision
    wide,         \* the scope is granted for the whole task
    grants,       \* narrow grants: scope, node and uses left
    credential,   \* credentials: "active" or "revoked"
    credentialAsked, \* a credential request is pending
    changes,      \* change requests: the decision
    versions,     \* instruction versions: number, change and changes in the text
    specification, \* the changes in the task's own text
    ran,          \* audit of completed tool calls: the node and the grant spent
    call,
    served,       \* requests begun
    stops

ASSUME DecisionsAssumption ==
    {MaxCalls, MaxCredentials, MaxStops} \subseteq Nat

access == <<asks, wide, grants>>
vault == <<credential, credentialAsked>>
text == <<changes, versions, specification>>
states == <<agent, task>>
calls == <<call, served>>
vars == <<states, suspended, access, vault, text, ran, calls, stops>>

\* "item" is the request, change or grant a call works on; "seen" what it read.
NoCall == [pc |-> "idle", item |-> 0, node |-> 0, seen |-> 0]
Goto(c, pc) == call' = [call EXCEPT ![c].pc = pc] /\ UNCHANGED served
Answered(c) == call' = [call EXCEPT ![c] = NoCall] /\ UNCHANGED served
At(c, pc) == call[c].pc = pc
Begin(c, pc, item, node, seen) ==
    /\ At(c, "idle") /\ served < MaxCalls /\ served' = served + 1
    /\ call' = [call EXCEPT ![c] = [pc |-> pc, item |-> item, node |-> node, seen |-> seen]]

Init ==
    /\ agent = [status |-> "running", was |-> "running"] /\ task = agent
    /\ suspended = FALSE
    /\ asks = <<>> /\ wide \in BOOLEAN /\ grants = <<>>
    /\ credential = <<>> /\ credentialAsked = FALSE
    /\ changes = <<>> /\ versions = <<>> /\ specification = {}
    /\ ran = <<>>
    /\ call = [c \in Call |-> NoCall]
    /\ served = 0 /\ stops = 0

Pending(s) == {i \in DOMAIN s : s[i].status = "pending"}

-----------------------------------------------------------------------------
(* The status of the agent and of its task *)

Both(status) ==
    /\ agent' = [agent EXCEPT !.status = status]
    /\ task' = [task EXCEPT !.status = status]

\* Waiting overwrites any status; the reverse only ends a wait.
UpdateWaitingState(blocked) ==
    IF blocked THEN Both("waiting_user")
    ELSE /\ agent' = IF agent.status = "waiting_user" THEN [agent EXCEPT !.status = "running"] ELSE agent
         /\ task' = IF task.status = "waiting_user" THEN [task EXCEPT !.status = "running"] ELSE task

ApplyDecisionState(waiting) ==
    IF waiting THEN Both("waiting_user")
    ELSE IF agent.status \in {"waiting_user", "blocked"} THEN Both("running")
    ELSE UNCHANGED states

ResumeAgent(resumable) ==
    IF agent.status \in resumable THEN Both("running") ELSE UNCHANGED states

-----------------------------------------------------------------------------
(* A tool call *)

\* Provisioning writes the standing grant once and returns it as it is.
ProvisionPermissions == IF wide THEN "authorized" ELSE "consume"

Invoke(c, n) ==
    /\ Begin(c, ProvisionPermissions, 0, n, 0)
    /\ UNCHANGED <<states, suspended, access, vault, text, ran, stops>>

Covers(g, n) == g.left > 0 /\ (g.scope = "node" => g.node = n)
SpendNothing(g) == g
SpendUse(g) == IF g.scope = "once" THEN [g EXCEPT !.left = 0] ELSE g

\* The first grant that covers the call is spent on the attempt.
ConsumeScopedGrants(c) ==
    /\ At(c, "consume")
    /\ LET usable == {i \in DOMAIN grants : Covers(grants[i], call[c].node)} IN
       IF usable = {} THEN Goto(c, "ask") /\ UNCHANGED grants
       ELSE LET i == CHOOSE i \in usable : \A j \in usable : i <= j IN
            /\ grants' = [grants EXCEPT ![i] = SpendUse(@)]
            /\ call' = [call EXCEPT ![c].pc = "authorized", ![c].item = i] /\ UNCHANGED served
    /\ UNCHANGED <<states, suspended, asks, wide, vault, text, ran, stops>>

\* A pending request of the agent for the tool is used again, whatever its node.
AskPermission(c) ==
    /\ At(c, "ask") /\ Goto(c, "wait")
    /\ asks' = IF Pending(asks) # {} THEN asks ELSE Append(asks, [node |-> call[c].node, status |-> "pending"])
    /\ UNCHANGED <<states, suspended, wide, grants, vault, text, ran, stops>>

WaitForUser(c) ==
    /\ At(c, "wait") /\ Answered(c)
    /\ UpdateWaitingState(TRUE)
    /\ UNCHANGED <<suspended, access, vault, text, ran, stops>>

\* A node that does not declare the scope is refused, with its grant spent;
\* then the credential is looked for.
ResolveCredential(c) ==
    /\ At(c, "authorized")
    /\ \/ Answered(c)
       \/ Goto(c, IF \E i \in DOMAIN credential : credential[i] = "active" THEN "execute" ELSE "credential")
    /\ UNCHANGED <<states, suspended, access, vault, text, ran, stops>>

RequestCredentialReference(c) ==
    /\ At(c, "credential") /\ Answered(c)
    /\ credentialAsked' = TRUE
    /\ IF credentialAsked THEN UNCHANGED states ELSE Both("waiting_user")
    /\ UNCHANGED <<suspended, access, credential, text, ran, stops>>

\* Neither the agent nor the credential is looked at again; the tool may fail.
Execute(c) ==
    /\ At(c, "execute") /\ Answered(c)
    /\ \/ ran' = Append(ran, [node |-> call[c].node, grant |-> call[c].item])
       \/ UNCHANGED ran
    /\ UNCHANGED <<states, suspended, access, vault, text, stops>>

-----------------------------------------------------------------------------
(* The answers to a permission request *)

IsPending(s, i) == s[i].status = "pending"

\* resolvePermissionAction keeps the other requests it saw when it began.
ResolvePermissionAction(c, i, scope) ==
    /\ Begin(c, scope, i, 0, Cardinality(Pending(asks) \ {i}))
    /\ UNCHANGED <<states, suspended, access, vault, text, ran, stops>>

Decided(s, i, status) == [s EXCEPT ![i].status = status]

ApprovePermission(c) ==
    /\ call[c].pc \in {"once", "node", "task"}
    /\ LET i == call[c].item
           scope == call[c].pc
       IN IF ~IsPending(asks, i) THEN Answered(c) /\ UNCHANGED access
          ELSE /\ asks' = Decided(asks, i, "approved")
               /\ wide' = (wide \/ scope = "task")
               /\ grants' = IF scope = "task" THEN grants
                            ELSE Append(grants, [scope |-> scope, node |-> asks[i].node, left |-> 1])
               /\ Goto(c, "approved")
    /\ UNCHANGED <<states, suspended, vault, text, ran, stops>>

DenyPermission(c) ==
    /\ At(c, "deny")
    /\ LET i == call[c].item IN
       IF ~IsPending(asks, i) THEN Answered(c) /\ UNCHANGED asks
       ELSE asks' = Decided(asks, i, "denied") /\ Goto(c, "denied")
    /\ UNCHANGED <<states, suspended, wide, grants, vault, text, ran, stops>>

\* What is still pending is read, and written as the agent's state after that.
ListPendingRequests(c) ==
    /\ \/ At(c, "approved") /\ Goto(c, IF Pending(asks) = {} THEN "approved-last" ELSE "approved-more")
       \/ At(c, "denied") /\ Goto(c, IF Pending(asks) = {} THEN "denied-last" ELSE "denied-more")
    /\ UNCHANGED <<states, suspended, access, vault, text, ran, stops>>

UpdateAfterAnswer(c) ==
    /\ call[c].pc \in {"approved-last", "approved-more", "denied-last", "denied-more"}
    /\ UpdateWaitingState(call[c].pc \in {"approved-more", "denied-more"})
    /\ IF call[c].pc \in {"denied-last", "denied-more"} THEN Answered(c) ELSE Goto(c, "resume")
    /\ UNCHANGED <<suspended, access, vault, text, ran, stops>>

\* The task is resumed unless another request was pending at the beginning;
\* the route of the broker itself ends without that.
ResumeAfterApproval(c) ==
    /\ At(c, "resume") /\ Answered(c)
    /\ \/ call[c].seen = 0 /\ ResumeAgent({"waiting_user", "blocked"})
       \/ UNCHANGED states
    /\ UNCHANGED <<suspended, access, vault, text, ran, stops>>

-----------------------------------------------------------------------------
(* Credentials *)

RegisterCredentialReference ==
    /\ Len(credential) < MaxCredentials
    /\ credential' = Append(credential, "active")
    /\ credentialAsked' = FALSE
    /\ IF Pending(asks) = {} /\ agent.status = "waiting_user" THEN UpdateWaitingState(FALSE)
       ELSE UNCHANGED states
    /\ UNCHANGED <<suspended, access, text, ran, calls, stops>>

RevokeCredentialReference(i) ==
    /\ credential[i] = "active"
    /\ credential' = [credential EXCEPT ![i] = "revoked"]
    /\ UNCHANGED <<states, suspended, access, credentialAsked, text, ran, calls, stops>>

-----------------------------------------------------------------------------
(* Changes of the instruction *)

\* The task's status is asked once, before the transaction.
SubmitUserCommand(c) ==
    /\ task.status \notin {"completed", "cancelled"}
    /\ Begin(c, "change", 0, 0, 0)
    /\ UNCHANGED <<states, suspended, access, vault, text, ran, stops>>

DecisionNeeded(c) ==
    /\ At(c, "change") /\ Answered(c)
    /\ changes' = Append(changes, [status |-> "pending"])
    /\ ApplyDecisionState(TRUE)
    /\ UNCHANGED <<suspended, access, vault, versions, specification, ran, stops>>

\* A change that needs no decision is written into the task's own text.
ChangeApplied(c) ==
    /\ At(c, "change") /\ Answered(c)
    /\ changes' = Append(changes, [status |-> "applied"])
    /\ specification' = specification \cup {Len(changes) + 1}
    /\ UNCHANGED <<states, suspended, access, vault, versions, ran, stops>>

ApproveChange(c, i) ==
    /\ IsPending(changes, i)
    /\ changes' = Decided(changes, i, "approved")
    /\ ApplyDecisionState(Pending(changes) \ {i} # {})
    /\ Begin(c, "version", i, 0, 0)
    /\ UNCHANGED <<suspended, access, vault, versions, specification, ran, stops>>

DenyChange(c, i) ==
    /\ At(c, "idle") /\ served < MaxCalls /\ served' = served + 1
    /\ IsPending(changes, i)
    /\ changes' = Decided(changes, i, "denied")
    /\ ApplyDecisionState(Pending(changes) \ {i} # {})
    /\ UNCHANGED <<suspended, access, vault, versions, specification, ran, call, stops>>

Latest == IF versions = <<>> THEN 0 ELSE versions[Len(versions)].number

\* The newest version is read; the first one is made of the task's own text.
CurrentInstruction(c) ==
    /\ At(c, "version")
    /\ versions' = IF versions # <<>> THEN versions
                   ELSE <<[number |-> 1, change |-> 0, text |-> specification]>>
    /\ call' = [call EXCEPT ![c].pc = "append", ![c].seen = IF versions = <<>> THEN 1 ELSE Latest] /\ UNCHANGED served
    /\ UNCHANGED <<states, suspended, access, vault, changes, specification, ran, stops>>

TextOf(number) == (CHOOSE v \in {versions[i] : i \in DOMAIN versions} : v.number = number).text
NumberAfterSeen(seen) == seen + 1
NextNumber(seen) == Latest + 1

\* The number is new; the text is the one that was read, with the change.
AppendInstructionVersion(c) ==
    /\ At(c, "append") /\ Goto(c, "replan")
    /\ LET textNow == TextOf(call[c].seen) \cup {call[c].item} IN
       /\ versions' = Append(versions,
            [number |-> NextNumber(call[c].seen), change |-> call[c].item, text |-> textNow])
       /\ specification' = textNow
    /\ UNCHANGED <<states, suspended, access, vault, changes, ran, stops>>

\* The graph grows by the new work and the agent goes on, or the replan fails.
ReplanRunningGraph(c) ==
    /\ At(c, "replan") /\ Answered(c)
    /\ \/ ResumeAgent({"waiting_user", "blocked", "completed"})
       \/ UNCHANGED states
    /\ UNCHANGED <<suspended, access, vault, text, ran, stops>>

-----------------------------------------------------------------------------
(* The tenant is suspended, the agent ends, a request dies *)

Paused(x, statuses, status) ==
    IF x.status \in statuses THEN [status |-> status, was |-> x.status] ELSE x
ResumedIfRan(x, status) == IF x.status = status /\ x.was = "running" THEN [x EXCEPT !.status = x.was] ELSE x
Resumed(x, status) == IF x.status = status THEN [status |-> x.was, was |-> "running"] ELSE x

SuspendTenant ==
    /\ stops < MaxStops /\ stops' = stops + 1
    /\ suspended' = TRUE
    /\ task' = Paused(task, {"running", "waiting_user"}, "paused")
    /\ agent' = Paused(agent, {"running", "waiting_user"}, "blocked")
    /\ UNCHANGED <<access, vault, text, ran, calls>>

ResumeTenant ==
    /\ suspended /\ suspended' = FALSE
    /\ task' = Resumed(task, "paused")
    /\ agent' = Resumed(agent, "blocked")
    /\ UNCHANGED <<access, vault, text, ran, calls, stops>>

TerminalTransition(status) ==
    /\ stops < MaxStops /\ stops' = stops + 1
    /\ Both(status)
    /\ UNCHANGED <<suspended, access, vault, text, ran, calls>>

\* Nothing that a request wrote is taken back.
CallDies(c) ==
    /\ ~At(c, "idle") /\ stops < MaxStops
    /\ Answered(c) /\ stops' = stops + 1
    /\ UNCHANGED <<states, suspended, access, vault, text, ran>>

ToolStep(c) ==
    \/ \E n \in Node : Invoke(c, n)
    \/ ConsumeScopedGrants(c) \/ AskPermission(c) \/ WaitForUser(c)
    \/ ResolveCredential(c) \/ RequestCredentialReference(c) \/ Execute(c)

PermissionStep(c) ==
    \/ \E i \in DOMAIN asks, answer \in {"once", "node", "task", "deny"} : ResolvePermissionAction(c, i, answer)
    \/ ApprovePermission(c) \/ DenyPermission(c) \/ ListPendingRequests(c)
    \/ UpdateAfterAnswer(c) \/ ResumeAfterApproval(c)

ChangeStep(c) ==
    \/ SubmitUserCommand(c) \/ DecisionNeeded(c) \/ ChangeApplied(c)
    \/ \E i \in DOMAIN changes : ApproveChange(c, i) \/ DenyChange(c, i)
    \/ CurrentInstruction(c) \/ AppendInstructionVersion(c) \/ ReplanRunningGraph(c)

Next ==
    \/ \E c \in Call : ToolStep(c) \/ PermissionStep(c) \/ ChangeStep(c) \/ CallDies(c)
    \/ RegisterCredentialReference
    \/ \E i \in DOMAIN credential : RevokeCredentialReference(i)
    \/ SuspendTenant \/ ResumeTenant
    \/ \E status \in {"completed", "cancelled"} : TerminalTransition(status)

Spec == Init /\ [][Next]_vars

-----------------------------------------------------------------------------
(* Properties *)

\* However many calls race for one approval, a grant for one use lets one call
\* through, and a grant for a node lets through no call of another node.
GrantsStayNarrow ==
    \A i \in DOMAIN grants :
      LET users == {k \in DOMAIN ran : ran[k].grant = i}
          coming == {c \in Call : call[c].pc \in {"authorized", "credential", "execute"} /\ call[c].item = i}
      IN /\ grants[i].scope = "once" => Cardinality(users) + Cardinality(coming) <= 1
         /\ grants[i].scope = "node" => \A k \in users : ran[k].node = grants[i].node

\* The tenant's suspension leaves nothing behind: whatever was decided while it
\* lasted, nothing is paused or blocked once it is lifted.
SuspensionIsUndone ==
    ~suspended => task.status # "paused" /\ agent.status # "blocked"

\* Concurrent approvals write one history: no two versions have one number, the
\* first is the original request, and a change has one version at most, which
\* exists only if it was approved and contains it.
OneHistory ==
    /\ \A i, j \in DOMAIN versions : i # j =>
         /\ versions[i].number # versions[j].number
         /\ versions[i].change # versions[j].change
    /\ \A i \in DOMAIN versions :
         versions[i].change # 0 =>
           /\ changes[versions[i].change].status = "approved"
           /\ versions[i].change \in versions[i].text
=============================================================================
