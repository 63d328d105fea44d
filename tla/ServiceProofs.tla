---------------------------- MODULE ServiceProofs ----------------------------
(***************************************************************************)
(* Theorems about what users ask of the service, for any number of         *)
(* accounts, clients, requests and calls: the decisions of UserDecisions   *)
(* and the HTTP server of HttpApi.  The modules share no variable; each    *)
(* theorem is of one of them.                                              *)
(***************************************************************************)
EXTENDS UserDecisions, HttpApi, FiniteSetTheorems, SequenceTheorems,
        WellFoundedInduction, TLAPS

-----------------------------------------------------------------------------
(* Decisions: the suspension of the tenant                                  *)

\* The statuses, and what a suspension remembers of them: nothing it would
\* itself have to undo.
Standing ==
    [status : {"running", "waiting_user", "paused", "blocked", "completed", "cancelled"},
     was : {"running", "waiting_user"}]

SuspensionInv ==
    /\ agent \in Standing /\ task \in Standing
    /\ suspended \in BOOLEAN
    /\ SuspensionIsUndone

\* Both rows are written with one status, and keep what they remember.
LEMMA BothEffect ==
    ASSUME agent \in Standing, task \in Standing,
           NEW s \in {"running", "waiting_user", "completed", "cancelled"}, Both(s)
    PROVE  /\ agent' \in Standing /\ task' \in Standing
           /\ agent'.status = s /\ task'.status = s
BY DEF Both, Standing

\* Only a suspension writes "paused" or "blocked".
LEMMA StatesStep ==
    ASSUME SuspensionInv, UNCHANGED suspended,
           \/ UNCHANGED states
           \/ \E s \in {"running", "waiting_user", "completed", "cancelled"} : Both(s)
           \/ \E b \in BOOLEAN : UpdateWaitingState(b)
    PROVE  SuspensionInv'
<1>1. CASE UNCHANGED states
  BY <1>1 DEF SuspensionInv, SuspensionIsUndone, states
<1>2. ASSUME NEW s \in {"running", "waiting_user", "completed", "cancelled"}, Both(s)
      PROVE  SuspensionInv'
  BY <1>2, BothEffect DEF SuspensionInv, SuspensionIsUndone
<1>3. ASSUME UpdateWaitingState(FALSE)
      PROVE  SuspensionInv'
  <2>1. /\ agent' \in {agent, [agent EXCEPT !.status = "running"]}
        /\ task' \in {task, [task EXCEPT !.status = "running"]}
    BY <1>3 DEF UpdateWaitingState
  <2>2. /\ agent' \in Standing /\ (agent'.status = "blocked" => agent.status = "blocked")
        /\ task' \in Standing /\ (task'.status = "paused" => task.status = "paused")
    BY <2>1 DEF SuspensionInv, Standing
  <2> QED BY <2>2 DEF SuspensionInv, SuspensionIsUndone
<1>4. UpdateWaitingState(TRUE) => Both("waiting_user")
  BY DEF UpdateWaitingState
<1> QED BY <1>1, <1>2, <1>3, <1>4

\* Every step of a request, and every terminal transition, writes the statuses
\* in one of these ways.
LEMMA SuspensionStep == SuspensionInv /\ [Next]_vars => SuspensionInv'
<1> SUFFICES ASSUME SuspensionInv, [Next]_vars PROVE SuspensionInv'
  OBVIOUS
<1>1. ASSUME NEW c \in Call, ToolStep(c)
      PROVE  SuspensionInv'
  BY <1>1, StatesStep
     DEF ToolStep, Invoke, ConsumeScopedGrants, AskPermission, WaitForUser, ResolveCredential,
         RequestCredentialReference, Execute
<1>2. ASSUME NEW c \in Call, PermissionStep(c)
      PROVE  SuspensionInv'
  <2>1. CASE UpdateAfterAnswer(c)
    <3> DEFINE more == call[c].pc \in {"approved-more", "denied-more"}
    <3>1. more \in BOOLEAN /\ UpdateWaitingState(more)
      BY <2>1 DEF UpdateAfterAnswer
    <3> HIDE DEF more
    <3> QED BY <2>1, <3>1, StatesStep DEF UpdateAfterAnswer
  <2>2. CASE ResumeAfterApproval(c)
    BY <2>2, StatesStep DEF ResumeAfterApproval, ResumeAgent
  <2>3. CASE ~UpdateAfterAnswer(c) /\ ~ResumeAfterApproval(c)
    BY <1>2, <2>3, StatesStep
       DEF PermissionStep, ResolvePermissionAction, ApprovePermission, DenyPermission,
           ListPendingRequests
  <2> QED BY <2>1, <2>2, <2>3
<1>3. ASSUME NEW c \in Call, ChangeStep(c)
      PROVE  SuspensionInv'
  BY <1>3, StatesStep
     DEF ChangeStep, SubmitUserCommand, DecisionNeeded, ChangeApplied, ApproveChange, DenyChange,
         CurrentInstruction, AppendInstructionVersion, ReplanRunningGraph, ApplyDecisionState, ResumeAgent
<1>4. ASSUME NEW c \in Call, CallDies(c)
      PROVE  SuspensionInv'
  BY <1>4, StatesStep DEF CallDies
<1>5. CASE RegisterCredentialReference \/ \E i \in DOMAIN credential : RevokeCredentialReference(i)
  BY <1>5, StatesStep DEF RegisterCredentialReference, RevokeCredentialReference
<1>6. CASE SuspendTenant
  BY <1>6 DEF SuspendTenant, Paused, SuspensionInv, SuspensionIsUndone, Standing
<1>7. CASE ResumeTenant
  BY <1>7 DEF ResumeTenant, Resumed, SuspensionInv, SuspensionIsUndone, Standing
<1>8. CASE \E status \in {"completed", "cancelled"} : TerminalTransition(status)
  BY <1>8, StatesStep DEF TerminalTransition
<1>9. CASE UNCHANGED vars
  BY <1>9, StatesStep DEF vars
<1> QED BY <1>1, <1>2, <1>3, <1>4, <1>5, <1>6, <1>7, <1>8, <1>9 DEF Next

\* Whatever is decided while the tenant is suspended, lifting the suspension
\* leaves nothing paused or blocked.
THEOREM SuspensionLeavesNothing == Spec => []SuspensionIsUndone
<1>1. Init => SuspensionInv
  <2> SUFFICES ASSUME Init PROVE SuspensionInv
    OBVIOUS
  <2>1. agent = [status |-> "running", was |-> "running"] /\ task = agent /\ suspended = FALSE
    BY DEF Init
  <2>2. agent \in Standing /\ task \in Standing /\ agent.status = "running" /\ task.status = "running"
    BY <2>1 DEF Standing
  <2> QED BY <2>1, <2>2 DEF SuspensionInv, SuspensionIsUndone
<1>2. SuspensionInv => SuspensionIsUndone
  BY DEF SuspensionInv
<1> QED BY <1>1, <1>2, SuspensionStep, PTL DEF Spec

-----------------------------------------------------------------------------
(* Decisions: types                                                         *)

Pc == {"idle", "consume", "authorized", "ask", "wait", "credential", "execute",
       "once", "node", "task", "deny", "approved", "denied", "approved-last", "approved-more",
       "denied-last", "denied-more", "resume", "change", "version", "append", "replan"}

CallRow == [pc : Pc, item : Nat, node : Node \cup {0}, seen : Nat]
Ask     == [node : Node \cup {0}, status : {"pending", "approved", "denied"}]
Grant   == [scope : {"once", "node"}, node : Node \cup {0}, left : {0, 1}]
Change  == [status : {"pending", "applied", "approved", "denied"}]
Version == [number : Nat, change : Nat, text : SUBSET Nat]
Ran     == [node : Node \cup {0}, grant : Nat]

\* The rows are typed, a call works on a request or a change that exists and has
\* read a version that exists, and versions are numbered as they stand.
DecisionTypes ==
    /\ call \in [Call -> CallRow]
    /\ asks \in Seq(Ask) /\ wide \in BOOLEAN /\ grants \in Seq(Grant)
    /\ changes \in Seq(Change) /\ versions \in Seq(Version) /\ specification \in SUBSET Nat
    /\ ran \in Seq(Ran)
    /\ \A c \in Call :
         /\ call[c].pc \in {"once", "node", "task", "deny"} => call[c].item \in DOMAIN asks
         /\ call[c].pc \in {"version", "append"} => call[c].item \in DOMAIN changes
         /\ call[c].pc = "append" => call[c].seen \in DOMAIN versions
    /\ \A i \in DOMAIN versions : versions[i].number = i

\* A request moves on: what it works on stays.
LEMMA GotoEffect ==
    ASSUME call \in [Call -> CallRow], NEW c \in Call, NEW pc \in Pc, Goto(c, pc)
    PROVE  /\ call' \in [Call -> CallRow]
           /\ call'[c].pc = pc
           /\ call'[c].item = call[c].item
           /\ call'[c].node = call[c].node
           /\ call'[c].seen = call[c].seen
           /\ \A d \in Call \ {c} : call'[d] = call[d]
<1>1. call' = [call EXCEPT ![c] = [call[c] EXCEPT !.pc = pc]]
  BY DEF Goto
<1> DEFINE row == [call[c] EXCEPT !.pc = pc]
<1>2. row \in CallRow /\ row.pc = pc /\ row.item = call[c].item /\ row.node = call[c].node
      /\ row.seen = call[c].seen
  BY DEF CallRow
<1> HIDE DEF row
<1> QED BY <1>1, <1>2 DEF row

\* A request is answered.
LEMMA AnsweredEffect ==
    ASSUME call \in [Call -> CallRow], NEW c \in Call, Answered(c)
    PROVE  /\ call' \in [Call -> CallRow]
           /\ call'[c].pc = "idle"
           /\ \A d \in Call \ {c} : call'[d] = call[d]
<1>1. NoCall \in CallRow /\ NoCall.pc = "idle"
  BY DEF NoCall, CallRow, Pc
<1> QED BY <1>1 DEF Answered

\* A request begins.
LEMMA BeginEffect ==
    ASSUME call \in [Call -> CallRow], NEW c \in Call, NEW pc \in Pc, NEW item \in Nat,
           NEW node \in Node \cup {0}, NEW seen \in Nat, Begin(c, pc, item, node, seen)
    PROVE  /\ call' \in [Call -> CallRow]
           /\ call'[c].pc = pc /\ call'[c].item = item /\ call'[c].node = node
           /\ \A d \in Call \ {c} : call'[d] = call[d]
<1> DEFINE row == [pc |-> pc, item |-> item, node |-> node, seen |-> seen]
<1>1. row \in CallRow /\ row.pc = pc /\ row.item = item /\ row.node = node
  BY DEF CallRow
<1>2. call' = [call EXCEPT ![c] = row]
  BY DEF Begin
<1> HIDE DEF row
<1> QED BY <1>1, <1>2

\* A sequence that grows keeps what it had.
LEMMA AppendEffect ==
    ASSUME NEW T, NEW s \in Seq(T), NEW x \in T
    PROVE  /\ Append(s, x) \in Seq(T)
           /\ DOMAIN Append(s, x) = DOMAIN s \cup {Len(s) + 1}
           /\ Len(Append(s, x)) = Len(s) + 1
           /\ Len(s) + 1 \notin DOMAIN s
           /\ Append(s, x)[Len(s) + 1] = x
           /\ \A i \in DOMAIN s : i # Len(s) + 1 /\ Append(s, x)[i] = s[i]
OBVIOUS

\* An element of a sequence has its type, and its place is a number.
LEMMA ElementType ==
    ASSUME NEW T, NEW s \in Seq(T), NEW i \in DOMAIN s
    PROVE  s[i] \in T /\ i \in Nat /\ i # 0 /\ i \in 1..Len(s)
OBVIOUS

\* A decision changes the status of one row.
LEMMA DecidedEffect ==
    ASSUME NEW T, NEW s \in Seq(T), NEW i \in DOMAIN s, NEW status,
           [s[i] EXCEPT !.status = status] \in T
    PROVE  /\ Decided(s, i, status) \in Seq(T)
           /\ DOMAIN Decided(s, i, status) = DOMAIN s
           /\ Decided(s, i, status)[i] = [s[i] EXCEPT !.status = status]
           /\ \A j \in DOMAIN s \ {i} : Decided(s, i, status)[j] = s[j]
<1> DEFINE row == [s[i] EXCEPT !.status = status]
<1>1. Decided(s, i, status) = [s EXCEPT ![i] = row]
  BY DEF Decided
<1>2. row \in T
  OBVIOUS
<1> HIDE DEF row
<1>3. [s EXCEPT ![i] = row] \in Seq(T)
  BY <1>2
<1>4. Decided(s, i, status)[i] = row
  BY <1>1
<1> QED BY <1>1, <1>3, <1>4 DEF row

\* A set of numbers has a least one.
LEMMA LeastNat ==
    ASSUME NEW T, T \subseteq Nat, T # {}
    PROVE  \E x \in T : \A y \in T : x <= y
<1>1. PICK x \in T : \A y \in T : ~(<<y, x>> \in OpToRel(<, Nat))
  BY WFMin, NatLessThanWellFounded
<1>2. ASSUME NEW y \in T
      PROVE  x <= y
  <2>1. x \in Nat /\ y \in Nat
    OBVIOUS
  <2>2. ~(y < x)
    BY <1>1, <2>1 DEF OpToRel
  <2> QED BY <2>1, <2>2
<1> QED BY <1>2

\* What has been asked for is counted by a number.
LEMMA PendingCount ==
    ASSUME asks \in Seq(Ask), NEW i
    PROVE  Cardinality(Pending(asks) \ {i}) \in Nat
<1>1. IsFiniteSet(1..Len(asks))
  BY FS_Interval
<1>2. Pending(asks) \ {i} \subseteq 1..Len(asks)
  BY DEF Pending
<1> QED BY <1>1, <1>2, FS_Subset, FS_CardinalityType

\* What is written down stays, and grows typed.
RowsGrow ==
    /\ asks' \in Seq(Ask) /\ DOMAIN asks \subseteq DOMAIN asks'
    /\ wide' \in BOOLEAN /\ grants' \in Seq(Grant)
    /\ changes' \in Seq(Change) /\ DOMAIN changes \subseteq DOMAIN changes'
    /\ versions' \in Seq(Version) /\ DOMAIN versions \subseteq DOMAIN versions'
    /\ \A i \in DOMAIN versions' : versions'[i].number = i
    /\ specification' \in SUBSET Nat
    /\ ran' \in Seq(Ran)

\* Of all requests only c moves, to where what it works on exists.
Moves(c) ==
    /\ call' \in [Call -> CallRow]
    /\ \A d \in Call \ {c} : call'[d] = call[d]
    /\ call'[c].pc \in {"once", "node", "task", "deny"} => call'[c].item \in DOMAIN asks'
    /\ call'[c].pc \in {"version", "append"} => call'[c].item \in DOMAIN changes'
    /\ call'[c].pc = "append" => call'[c].seen \in DOMAIN versions'

LEMMA TypesKept ==
    ASSUME DecisionTypes, RowsGrow, NEW c \in Call, Moves(c)
    PROVE  DecisionTypes'
<1>1. ASSUME NEW d \in Call
      PROVE  /\ call'[d].pc \in {"once", "node", "task", "deny"} => call'[d].item \in DOMAIN asks'
             /\ call'[d].pc \in {"version", "append"} => call'[d].item \in DOMAIN changes'
             /\ call'[d].pc = "append" => call'[d].seen \in DOMAIN versions'
  BY DEF DecisionTypes, RowsGrow, Moves
<1> QED BY <1>1 DEF DecisionTypes, RowsGrow, Moves

\* Where a request only moves on, nothing is written.
LEMMA RowsStay ==
    ASSUME DecisionTypes, UNCHANGED <<asks, wide, grants, changes, versions, specification, ran>>
    PROVE  RowsGrow
BY DEF DecisionTypes, RowsGrow

\* Every step keeps the types.
LEMMA DecisionTypesStep == DecisionTypes /\ [Next]_vars => DecisionTypes'
<1> SUFFICES ASSUME DecisionTypes, [Next]_vars PROVE DecisionTypes'
  OBVIOUS
<1>0. /\ call \in [Call -> CallRow] /\ asks \in Seq(Ask) /\ grants \in Seq(Grant)
      /\ changes \in Seq(Change) /\ versions \in Seq(Version) /\ specification \in SUBSET Nat
      /\ ran \in Seq(Ran) /\ wide \in BOOLEAN
  BY DEF DecisionTypes
\* A request ends, or moves to where nothing has to exist.
<1>1. ASSUME NEW c \in Call, RowsGrow, Answered(c)
      PROVE  DecisionTypes'
  BY <1>0, <1>1, AnsweredEffect, TypesKept DEF Moves
<1>2. ASSUME NEW c \in Call, RowsGrow,
             NEW pc \in Pc \ {"once", "node", "task", "deny", "version", "append"}, Goto(c, pc)
      PROVE  DecisionTypes'
  BY <1>0, <1>2, GotoEffect, TypesKept DEF Moves
<1>3. ASSUME NEW c \in Call, NEW n \in Node, Invoke(c, n)
      PROVE  DecisionTypes'
  <2> DEFINE pc == ProvisionPermissions
  <2>1. pc \in {"authorized", "consume"} /\ Begin(c, pc, 0, n, 0)
    BY <1>3 DEF Invoke, ProvisionPermissions
  <2> HIDE DEF pc
  <2>2. call' \in [Call -> CallRow] /\ call'[c].pc = pc /\ \A d \in Call \ {c} : call'[d] = call[d]
    BY <1>0, <2>1, BeginEffect DEF Pc
  <2>3. Moves(c)
    BY <2>1, <2>2 DEF Moves
  <2>4. RowsGrow
    BY <1>3, RowsStay DEF Invoke, access, vault, text
  <2> QED BY <2>3, <2>4, TypesKept
<1>4. ASSUME NEW c \in Call, ConsumeScopedGrants(c)
      PROVE  DecisionTypes'
  <2> DEFINE usable == {i \in DOMAIN grants : Covers(grants[i], call[c].node)}
             i == CHOOSE i \in usable : \A j \in usable : i <= j
  <2>1. CASE usable = {}
    BY <1>2, <1>4, <2>1, RowsStay DEF ConsumeScopedGrants, vault, text, Pc
  <2>2. CASE usable # {}
    <3> HIDE DEF usable
    <3>0. usable \subseteq DOMAIN grants /\ usable \subseteq Nat
      BY <1>0, ElementType DEF usable
    <3>1. \E x \in usable : \A y \in usable : x <= y
      BY <2>2, <3>0, LeastNat
    <3>2. i \in DOMAIN grants /\ i \in Nat /\ grants[i] \in Grant
      BY <1>0, <3>0, <3>1, ElementType
    <3>3. /\ grants' = [grants EXCEPT ![i] = SpendUse(@)]
          /\ call' = [call EXCEPT ![c].pc = "authorized", ![c].item = i]
          /\ UNCHANGED <<asks, wide, vault, text, ran>>
      BY <1>4, <2>2 DEF ConsumeScopedGrants, usable
    <3> HIDE DEF i
    <3> DEFINE g == SpendUse(grants[i])
               row == [call[c] EXCEPT !.pc = "authorized", !.item = i]
    <3>4. g \in Grant
      BY <3>2 DEF SpendUse, Grant
    <3>a. call[c] \in CallRow
      BY <1>0
    <3>b. row \in CallRow /\ row.pc = "authorized"
      BY <3>2, <3>a DEF CallRow, Pc
    <3>5. row \in CallRow /\ row.pc = "authorized" /\ call' = [call EXCEPT ![c] = row]
      BY <3>3, <3>b
    <3>6. grants' = [grants EXCEPT ![i] = g]
      BY <3>3
    <3> HIDE DEF g, row
    <3>7. grants' \in Seq(Grant)
      BY <1>0, <3>2, <3>4, <3>6
    <3>8. RowsGrow
      BY <3>3, <3>7 DEF RowsGrow, DecisionTypes, text
    <3>9. Moves(c)
      BY <1>0, <3>5 DEF Moves
    <3> QED BY <3>8, <3>9, TypesKept
  <2> QED BY <2>1, <2>2
<1>5. ASSUME NEW c \in Call, AskPermission(c)
      PROVE  DecisionTypes'
  <2>1. [node |-> call[c].node, status |-> "pending"] \in Ask
    BY <1>0 DEF CallRow, Ask
  <2>2. asks' \in Seq(Ask) /\ DOMAIN asks \subseteq DOMAIN asks'
    BY <1>0, <1>5, <2>1, AppendEffect DEF AskPermission
  <2>3. RowsGrow
    BY <1>5, <2>2 DEF AskPermission, RowsGrow, DecisionTypes, text
  <2> QED BY <1>2, <1>5, <2>3 DEF AskPermission, Pc
<1>6. ASSUME NEW c \in Call, WaitForUser(c) \/ RequestCredentialReference(c)
      PROVE  DecisionTypes'
  BY <1>1, <1>6, RowsStay DEF WaitForUser, RequestCredentialReference, access, vault, text
<1>7. ASSUME NEW c \in Call, ResolveCredential(c)
      PROVE  DecisionTypes'
  BY <1>1, <1>2, <1>7, RowsStay DEF ResolveCredential, access, vault, text, Pc
<1>8. ASSUME NEW c \in Call, Execute(c)
      PROVE  DecisionTypes'
  <2> DEFINE row == [node |-> call[c].node, grant |-> call[c].item]
  <2>1. row \in Ran
    BY <1>0 DEF CallRow, Ran
  <2>a. ran' = Append(ran, row) \/ ran' = ran
    BY <1>8 DEF Execute
  <2> HIDE DEF row
  <2>2. ran' \in Seq(Ran)
    <3>1. Append(ran, row) \in Seq(Ran)
      BY <1>0, <2>1, AppendEffect
    <3> QED BY <1>0, <2>a, <3>1
  <2>3. RowsGrow
    BY <1>8, <2>2 DEF Execute, RowsGrow, DecisionTypes, access, text
  <2> QED BY <1>1, <1>8, <2>3 DEF Execute
<1>9. ASSUME NEW c \in Call, NEW i \in DOMAIN asks, NEW answer \in {"once", "node", "task", "deny"},
             ResolvePermissionAction(c, i, answer)
      PROVE  DecisionTypes'
  <2> DEFINE seen == Cardinality(Pending(asks) \ {i})
  <2>1. seen \in Nat /\ i \in Nat
    BY <1>0, PendingCount, ElementType
  <2>2. Begin(c, answer, i, 0, seen)
    BY <1>9 DEF ResolvePermissionAction
  <2> HIDE DEF seen
  <2>3. call' \in [Call -> CallRow] /\ call'[c].pc = answer /\ call'[c].item = i
        /\ \A d \in Call \ {c} : call'[d] = call[d]
    <3>1. answer \in Pc /\ 0 \in Node \cup {0}
      BY DEF Pc
    <3> QED BY <1>0, <2>1, <2>2, <3>1, BeginEffect
  <2>4. RowsGrow
    BY <1>9, RowsStay DEF ResolvePermissionAction, access, vault, text
  <2>5. Moves(c)
    BY <1>9, <2>3, <2>4 DEF Moves, RowsGrow
  <2> QED BY <2>4, <2>5, TypesKept
<1>10. ASSUME NEW c \in Call, ApprovePermission(c)
       PROVE  DecisionTypes'
  <2> DEFINE i == call[c].item
             scope == call[c].pc
  <2>1. i \in DOMAIN asks /\ scope \in {"once", "node", "task"}
    BY <1>10 DEF DecisionTypes, ApprovePermission
  <2>a. asks[i] \in Ask
    BY <1>0, <2>1, ElementType
  <2> HIDE DEF i, scope
  <2>2. CASE ~IsPending(asks, i)
    BY <1>1, <1>10, <2>2, RowsStay DEF ApprovePermission, i, access, vault, text
  <2>3. CASE IsPending(asks, i)
    <3> DEFINE g == [scope |-> scope, node |-> asks[i].node, left |-> 1]
    <3>1. /\ asks' = Decided(asks, i, "approved")
          /\ wide' = (wide \/ scope = "task")
          /\ grants' = IF scope = "task" THEN grants ELSE Append(grants, g)
          /\ Goto(c, "approved")
          /\ UNCHANGED <<text, ran>>
      BY <1>10, <2>3 DEF ApprovePermission, i, scope
    <3>2. scope # "task" => g \in Grant
      BY <2>1, <2>a DEF Grant, Ask
    <3> HIDE DEF g
    <3>3. grants' \in Seq(Grant)
      BY <1>0, <3>1, <3>2, AppendEffect
    <3>4. [asks[i] EXCEPT !.status = "approved"] \in Ask
      BY <2>a DEF Ask
    <3>5. asks' \in Seq(Ask) /\ DOMAIN asks' = DOMAIN asks
      BY <1>0, <2>1, <3>1, <3>4, DecidedEffect
    <3>6. wide' \in BOOLEAN
      BY <3>1
    <3>7. RowsGrow
      BY <3>1, <3>3, <3>5, <3>6 DEF RowsGrow, DecisionTypes, text
    <3> QED BY <1>2, <3>1, <3>7 DEF Pc
  <2> QED BY <2>2, <2>3
<1>11. ASSUME NEW c \in Call, DenyPermission(c)
       PROVE  DecisionTypes'
  <2> DEFINE i == call[c].item
  <2>1. i \in DOMAIN asks
    BY <1>11 DEF DecisionTypes, DenyPermission, At
  <2>a. asks[i] \in Ask
    BY <1>0, <2>1, ElementType
  <2>2. CASE ~IsPending(asks, i)
    BY <1>1, <1>11, <2>2, RowsStay DEF DenyPermission, vault, text
  <2>3. CASE IsPending(asks, i)
    <3>1. asks' = Decided(asks, i, "denied") /\ Goto(c, "denied") /\ UNCHANGED <<wide, grants, text, ran>>
      BY <1>11, <2>3 DEF DenyPermission
    <3>2. [asks[i] EXCEPT !.status = "denied"] \in Ask
      BY <2>a DEF Ask
    <3>3. asks' \in Seq(Ask) /\ DOMAIN asks' = DOMAIN asks
      BY <1>0, <2>1, <3>1, <3>2, DecidedEffect
    <3>4. RowsGrow
      BY <3>1, <3>3 DEF RowsGrow, DecisionTypes, text
    <3> QED BY <1>2, <3>1, <3>4 DEF Pc
  <2> QED BY <2>2, <2>3
<1>12. ASSUME NEW c \in Call, ListPendingRequests(c) \/ UpdateAfterAnswer(c) \/ ResumeAfterApproval(c)
       PROVE  DecisionTypes'
  <2>1. RowsGrow
    BY <1>12, RowsStay DEF ListPendingRequests, UpdateAfterAnswer, ResumeAfterApproval, access, vault, text
  <2>2. \/ Answered(c)
        \/ \E pc \in {"approved-last", "approved-more", "denied-last", "denied-more", "resume"} : Goto(c, pc)
    BY <1>12 DEF ListPendingRequests, UpdateAfterAnswer, ResumeAfterApproval
  <2> QED BY <1>1, <1>2, <2>1, <2>2 DEF Pc
<1>13. ASSUME NEW c \in Call, SubmitUserCommand(c)
       PROVE  DecisionTypes'
  <2>1. Begin(c, "change", 0, 0, 0) /\ "change" \in Pc
    BY <1>13 DEF SubmitUserCommand, Pc
  <2>2. call' \in [Call -> CallRow] /\ call'[c].pc = "change" /\ \A d \in Call \ {c} : call'[d] = call[d]
    BY <1>0, <2>1, BeginEffect
  <2>3. RowsGrow
    BY <1>13, RowsStay DEF SubmitUserCommand, access, vault, text
  <2> QED BY <2>2, <2>3, TypesKept DEF Moves
<1>14. ASSUME NEW c \in Call, DecisionNeeded(c) \/ ChangeApplied(c)
       PROVE  DecisionTypes'
  <2> DEFINE added(row) == changes' = Append(changes, row)
  <2>1. PICK row \in {[status |-> "pending"], [status |-> "applied"]} : added(row)
    BY <1>14 DEF DecisionNeeded, ChangeApplied
  <2>2. row \in Change
    BY DEF Change
  <2>3. changes' \in Seq(Change) /\ DOMAIN changes \subseteq DOMAIN changes'
    BY <1>0, <2>1, <2>2, AppendEffect
  <2>4. specification' \in SUBSET Nat
    <3>1. Len(changes) + 1 \in Nat
      BY <1>0
    <3> QED BY <1>0, <1>14, <3>1 DEF DecisionNeeded, ChangeApplied
  <2>5. RowsGrow
    BY <1>14, <2>3, <2>4 DEF DecisionNeeded, ChangeApplied, RowsGrow, DecisionTypes, access
  <2> QED BY <1>1, <1>14, <2>5 DEF DecisionNeeded, ChangeApplied
\* A change that was pending is decided.
<1>15. ASSUME NEW i \in DOMAIN changes, NEW verdict \in {"approved", "denied"},
              changes' = Decided(changes, i, verdict), UNCHANGED <<access, versions, specification, ran>>
       PROVE  RowsGrow /\ DOMAIN changes' = DOMAIN changes
  <2>1. changes[i] \in Change
    BY <1>0, ElementType
  <2>2. [changes[i] EXCEPT !.status = verdict] \in Change
    BY <2>1 DEF Change
  <2>3. changes' \in Seq(Change) /\ DOMAIN changes' = DOMAIN changes
    BY <1>0, <1>15, <2>2, DecidedEffect
  <2> QED BY <1>15, <2>3 DEF RowsGrow, DecisionTypes, access
<1>16. ASSUME NEW c \in Call, NEW i \in DOMAIN changes, ApproveChange(c, i)
       PROVE  DecisionTypes'
  <2>1. Begin(c, "version", i, 0, 0) /\ "version" \in Pc /\ i \in Nat
    BY <1>0, <1>16, ElementType DEF ApproveChange, Pc
  <2>2. call' \in [Call -> CallRow] /\ call'[c].pc = "version" /\ call'[c].item = i
        /\ \A d \in Call \ {c} : call'[d] = call[d]
    BY <1>0, <2>1, BeginEffect
  <2>3. RowsGrow /\ DOMAIN changes' = DOMAIN changes
    BY <1>15, <1>16 DEF ApproveChange
  <2> QED BY <2>2, <2>3, TypesKept DEF Moves
<1>17. ASSUME NEW c \in Call, NEW i \in DOMAIN changes, DenyChange(c, i)
       PROVE  DecisionTypes'
  <2>1. RowsGrow /\ UNCHANGED call
    BY <1>15, <1>17 DEF DenyChange
  <2>2. Moves(c)
    BY <1>0, <2>1 DEF Moves, DecisionTypes, RowsGrow
  <2> QED BY <2>1, <2>2, TypesKept
<1>18. Latest = Len(versions) /\ Len(versions) \in Nat
  <2>1. CASE versions = <<>>
    BY <2>1 DEF Latest
  <2>2. CASE versions # <<>>
    <3>1. Len(versions) \in DOMAIN versions
      BY <1>0, <2>2
    <3> QED BY <1>0, <2>2, <3>1 DEF Latest, DecisionTypes
  <2> QED BY <2>1, <2>2
<1>19. ASSUME NEW c \in Call, CurrentInstruction(c)
       PROVE  DecisionTypes'
  <2> DEFINE first == [number |-> 1, change |-> 0, text |-> specification]
             seen == IF versions = <<>> THEN 1 ELSE Latest
             row == [call[c] EXCEPT !.pc = "append", !.seen = seen]
  <2>1. /\ call[c].pc = "version"
        /\ versions' = IF versions # <<>> THEN versions ELSE <<first>>
        /\ call' = [call EXCEPT ![c].pc = "append", ![c].seen = seen]
        /\ UNCHANGED <<access, changes, specification, ran>>
    BY <1>19 DEF CurrentInstruction, At
  <2>2. first \in Version /\ first.number = 1
    BY <1>0 DEF Version
  <2>3. call' = [call EXCEPT ![c] = row]
    BY <2>1
  <2>4. seen \in Nat
    BY <1>18
  <2> HIDE DEF first, seen
  <2>5. call[c] \in CallRow
    BY <1>0
  <2>6. row \in CallRow /\ row.pc = "append" /\ row.seen = seen /\ row.item = call[c].item
    BY <2>4, <2>5 DEF CallRow, Pc
  <2> HIDE DEF row
  <2>7. /\ versions' \in Seq(Version) /\ DOMAIN versions \subseteq DOMAIN versions'
        /\ seen \in DOMAIN versions'
        /\ \A i \in DOMAIN versions' : versions'[i].number = i
    <3>1. CASE versions # <<>>
      <4>1. Len(versions) \in DOMAIN versions
        BY <1>0, <3>1
      <4> QED BY <1>0, <1>18, <2>1, <3>1, <4>1 DEF seen, DecisionTypes
    <3>2. CASE versions = <<>>
      <4>1. versions' = <<first>> /\ seen = 1
        BY <2>1, <3>2 DEF seen
      <4>2. <<first>> \in Seq(Version) /\ DOMAIN <<first>> = {1} /\ <<first>>[1] = first
        BY <2>2
      <4> QED BY <2>2, <3>2, <4>1, <4>2
    <3> QED BY <3>1, <3>2
  <2>8. RowsGrow
    BY <2>1, <2>7 DEF RowsGrow, DecisionTypes, access
  <2>9. Moves(c)
    BY ZenonT(60), <1>0, <2>1, <2>3, <2>6, <2>7 DEF Moves, DecisionTypes
  <2> QED BY <2>8, <2>9, TypesKept
<1>20. ASSUME NEW c \in Call, AppendInstructionVersion(c)
       PROVE  DecisionTypes'
  <2> DEFINE textNow == TextOf(call[c].seen) \cup {call[c].item}
             row == [number |-> NextNumber(call[c].seen), change |-> call[c].item, text |-> textNow]
  <2>1. /\ call[c].pc = "append" /\ Goto(c, "replan")
        /\ versions' = Append(versions, row) /\ specification' = textNow
        /\ UNCHANGED <<access, changes, ran>>
    BY <1>20 DEF AppendInstructionVersion, At
  <2>2. call[c].seen \in DOMAIN versions /\ call[c].item \in DOMAIN changes
    BY <2>1 DEF DecisionTypes
  <2>3. textNow \in SUBSET Nat
    <3> DEFINE all == {versions[i] : i \in DOMAIN versions}
    <3>1. versions[call[c].seen] \in all /\ versions[call[c].seen].number = call[c].seen
      BY <2>2 DEF DecisionTypes
    <3> DEFINE v == CHOOSE v \in all : v.number = call[c].seen
    <3>2. v \in all
      BY <3>1
    <3> HIDE DEF v
    <3>3. v \in Version
      <4>1. PICK i \in DOMAIN versions : v = versions[i]
        BY <3>2
      <4> QED BY <1>0, <4>1, ElementType
    <3>4. TextOf(call[c].seen) = v.text
      BY DEF TextOf, v
    <3>5. v.text \in SUBSET Nat
      BY <3>3 DEF Version
    <3>6. call[c].item \in Nat
      BY <1>0, <2>2, ElementType
    <3> QED BY <3>4, <3>5, <3>6
  <2> HIDE DEF textNow
  <2>4. row \in Version /\ row.number = Len(versions) + 1
    BY <1>0, <1>18, <2>2, <2>3, ElementType DEF Version, NextNumber
  <2> HIDE DEF row
  <2>5. /\ versions' \in Seq(Version) /\ DOMAIN versions \subseteq DOMAIN versions'
        /\ \A i \in DOMAIN versions' : versions'[i].number = i
    BY <1>0, <2>1, <2>4, AppendEffect DEF DecisionTypes
  <2>6. RowsGrow
    BY <2>1, <2>3, <2>5 DEF RowsGrow, DecisionTypes, access
  <2> QED BY <1>2, <2>1, <2>6 DEF Pc
<1>21. ASSUME NEW c \in Call, ReplanRunningGraph(c) \/ CallDies(c)
       PROVE  DecisionTypes'
  BY <1>1, <1>21, RowsStay DEF ReplanRunningGraph, CallDies, access, vault, text
<1>22. ASSUME UNCHANGED <<access, text, ran, calls>>
       PROVE  DecisionTypes'
  BY <1>22 DEF DecisionTypes, access, text, calls
<1>23. CASE RegisterCredentialReference \/ \E i \in DOMAIN credential : RevokeCredentialReference(i)
  BY <1>22, <1>23 DEF RegisterCredentialReference, RevokeCredentialReference
<1>24. CASE SuspendTenant \/ ResumeTenant \/ \E status \in {"completed", "cancelled"} : TerminalTransition(status)
  BY <1>22, <1>24 DEF SuspendTenant, ResumeTenant, TerminalTransition
<1>25. CASE UNCHANGED vars
  BY <1>22, <1>25 DEF vars
<1> QED
  BY <1>3, <1>4, <1>5, <1>6, <1>7, <1>8, <1>9, <1>10, <1>11, <1>12, <1>13, <1>14, <1>16, <1>17,
     <1>19, <1>20, <1>21, <1>23, <1>24, <1>25
     DEF Next, ToolStep, PermissionStep, ChangeStep

\* The decisions' rows are typed, whatever requests race or die.
THEOREM DecisionsTyped == Spec => []DecisionTypes
<1>1. Init => DecisionTypes
  BY DEF Init, DecisionTypes, NoCall, CallRow, Pc
<1> QED BY <1>1, DecisionTypesStep, PTL DEF Spec

-----------------------------------------------------------------------------
(* Decisions: one history                                                   *)

Writing == {"version", "append"}

\* A version is of a change that exists; the request that will write a version
\* of a change is the only one that will, and nobody has.
HistoryInv ==
    /\ OneHistory
    /\ \A i \in DOMAIN versions : versions[i].change # 0 => versions[i].change \in DOMAIN changes
    /\ \A c \in Call : call[c].pc \in Writing =>
         /\ changes[call[c].item].status = "approved"
         /\ \A i \in DOMAIN versions : versions[i].change # call[c].item
         /\ \A d \in Call \ {c} : call[d].pc \in Writing => call[d].item # call[c].item

\* An approval stays one.
ApprovalsStay ==
    \A i \in DOMAIN changes :
        i \in DOMAIN changes' /\ (changes[i].status = "approved" => changes'[i].status = "approved")

\* Nobody is writing but who was.
WritersStay ==
    \A c \in Call : call'[c].pc \in Writing => call[c].pc \in Writing /\ call'[c].item = call[c].item

LEMMA HistoryKept ==
    ASSUME DecisionTypes, HistoryInv, UNCHANGED versions, ApprovalsStay, WritersStay
    PROVE  HistoryInv'
<1>1. OneHistory'
  BY DEF HistoryInv, OneHistory, ApprovalsStay
<1>2. \A i \in DOMAIN versions' : versions'[i].change # 0 => versions'[i].change \in DOMAIN changes'
  BY DEF HistoryInv, ApprovalsStay
<1>3. ASSUME NEW c \in Call, call'[c].pc \in Writing
      PROVE  /\ changes'[call'[c].item].status = "approved"
             /\ \A i \in DOMAIN versions' : versions'[i].change # call'[c].item
             /\ \A d \in Call \ {c} : call'[d].pc \in Writing => call'[d].item # call'[c].item
  <2>1. call[c].pc \in Writing /\ call'[c].item = call[c].item
    BY <1>3 DEF WritersStay
  <2>2. call[c].item \in DOMAIN changes
    BY <2>1 DEF DecisionTypes, Writing
  <2> QED BY <2>1, <2>2 DEF HistoryInv, ApprovalsStay, WritersStay
<1> QED BY <1>1, <1>2, <1>3 DEF HistoryInv

\* Every step keeps one history.
LEMMA HistoryStep == DecisionTypes /\ HistoryInv /\ [Next]_vars => HistoryInv'
<1> SUFFICES ASSUME DecisionTypes, HistoryInv, [Next]_vars PROVE HistoryInv'
  OBVIOUS
<1>0. /\ call \in [Call -> CallRow] /\ changes \in Seq(Change) /\ versions \in Seq(Version)
  BY DEF DecisionTypes
<1>1. UNCHANGED changes => ApprovalsStay
  BY DEF ApprovalsStay
<1>2. ASSUME NEW c \in Call, Answered(c)
      PROVE  WritersStay
  BY <1>0, <1>2, AnsweredEffect DEF WritersStay, Writing
<1>3. ASSUME NEW c \in Call, NEW pc \in Pc \ Writing, Goto(c, pc)
      PROVE  WritersStay
  BY <1>0, <1>3, GotoEffect DEF WritersStay
<1>4. ASSUME NEW c \in Call, NEW pc \in Pc \ Writing, NEW item \in Nat, NEW n \in Node \cup {0},
             NEW seen \in Nat, Begin(c, pc, item, n, seen)
      PROVE  WritersStay
  BY SMTT(30), <1>0, <1>4, BeginEffect DEF WritersStay
<1>5. ASSUME NEW c \in Call, ToolStep(c)
      PROVE  HistoryInv'
  <2>1. UNCHANGED <<changes, versions>>
    BY <1>5 DEF ToolStep, Invoke, ConsumeScopedGrants, AskPermission, WaitForUser, ResolveCredential,
                RequestCredentialReference, Execute, text
  <2>2. CASE \E n \in Node : Invoke(c, n)
    <3>1. PICK n \in Node : Begin(c, ProvisionPermissions, 0, n, 0)
      BY <2>2 DEF Invoke
    <3>2. ProvisionPermissions \in Pc \ Writing
      BY DEF ProvisionPermissions, Pc, Writing
    <3>3. WritersStay
      BY <1>4, <3>1, <3>2
    <3> QED BY <1>1, <2>1, <3>3, HistoryKept
  <2>3. CASE ConsumeScopedGrants(c)
    <3>1. \/ Goto(c, "ask")
          \/ \E i : call' = [call EXCEPT ![c].pc = "authorized", ![c].item = i]
      BY <2>3 DEF ConsumeScopedGrants
    <3>2. ASSUME NEW i, call' = [call EXCEPT ![c].pc = "authorized", ![c].item = i]
          PROVE  WritersStay
      <4> DEFINE row == [call[c] EXCEPT !.pc = "authorized", !.item = i]
      <4>1. call' = [call EXCEPT ![c] = row]
        BY <3>2
      <4>2. row.pc = "authorized"
        BY <1>0 DEF CallRow
      <4> HIDE DEF row
      <4> QED BY <1>0, <4>1, <4>2 DEF WritersStay, Writing
    <3>3. WritersStay
      BY <1>3, <3>1, <3>2 DEF Pc, Writing
    <3> QED BY <1>1, <2>1, <3>3, HistoryKept
  <2>4. CASE AskPermission(c) \/ WaitForUser(c) \/ ResolveCredential(c) \/ RequestCredentialReference(c) \/ Execute(c)
    <3>1. \/ Answered(c)
          \/ \E pc \in {"wait", "execute", "credential"} : Goto(c, pc)
      BY <2>4 DEF AskPermission, WaitForUser, ResolveCredential, RequestCredentialReference, Execute
    <3>2. WritersStay
      BY <1>2, <1>3, <3>1 DEF Pc, Writing
    <3> QED BY <1>1, <2>1, <3>2, HistoryKept
  <2> QED BY <1>5, <2>2, <2>3, <2>4 DEF ToolStep
<1>6. ASSUME NEW c \in Call, PermissionStep(c)
      PROVE  HistoryInv'
  <2>1. UNCHANGED <<changes, versions>>
    BY <1>6 DEF PermissionStep, ResolvePermissionAction, ApprovePermission, DenyPermission,
                ListPendingRequests, UpdateAfterAnswer, ResumeAfterApproval, text
  <2>2. ASSUME NEW i \in DOMAIN asks, NEW answer \in {"once", "node", "task", "deny"},
               ResolvePermissionAction(c, i, answer)
        PROVE  WritersStay
    <3> DEFINE seen == Cardinality(Pending(asks) \ {i})
    <3>1. seen \in Nat /\ i \in Nat
      BY PendingCount, ElementType DEF DecisionTypes
    <3>2. Begin(c, answer, i, 0, seen)
      BY <2>2 DEF ResolvePermissionAction
    <3> HIDE DEF seen
    <3>3. answer \in Pc \ Writing
      BY DEF Pc, Writing
    <3> QED BY <1>4, <3>1, <3>2, <3>3
  <2>3. ASSUME ApprovePermission(c) \/ DenyPermission(c) \/ ListPendingRequests(c)
               \/ UpdateAfterAnswer(c) \/ ResumeAfterApproval(c)
        PROVE  WritersStay
    <3>1. \/ Answered(c)
          \/ \E pc \in {"approved", "denied", "approved-last", "approved-more", "denied-last",
                        "denied-more", "resume"} : Goto(c, pc)
      BY <2>3 DEF ApprovePermission, DenyPermission, ListPendingRequests, UpdateAfterAnswer, ResumeAfterApproval
    <3> QED BY <1>2, <1>3, <3>1 DEF Pc, Writing
  <2> QED BY <1>1, <1>6, <2>1, <2>2, <2>3, HistoryKept DEF PermissionStep
<1>7. ASSUME NEW c \in Call, SubmitUserCommand(c)
      PROVE  HistoryInv'
  <2>1. Begin(c, "change", 0, 0, 0) /\ "change" \in Pc \ Writing /\ UNCHANGED <<changes, versions>>
    BY <1>7 DEF SubmitUserCommand, Pc, Writing, text
  <2>2. WritersStay
    BY <1>4, <2>1
  <2> QED BY <1>1, <2>1, <2>2, HistoryKept
<1>8. ASSUME NEW c \in Call, DecisionNeeded(c) \/ ChangeApplied(c)
      PROVE  HistoryInv'
  <2>1. PICK row \in {[status |-> "pending"], [status |-> "applied"]} : changes' = Append(changes, row)
    BY <1>8 DEF DecisionNeeded, ChangeApplied
  <2>2. row \in Change
    BY DEF Change
  <2>3. ApprovalsStay
    BY <1>0, <2>1, <2>2, AppendEffect DEF ApprovalsStay
  <2> QED BY <1>2, <1>8, <2>3, HistoryKept DEF DecisionNeeded, ChangeApplied
\* A change that was pending is decided.
<1>9. ASSUME NEW i \in DOMAIN changes, NEW verdict \in {"approved", "denied"}, IsPending(changes, i),
             changes' = Decided(changes, i, verdict)
      PROVE  ApprovalsStay /\ changes'[i].status = verdict
  <2>1. changes[i] \in Change
    BY <1>0, ElementType
  <2>2. [changes[i] EXCEPT !.status = verdict] \in Change
        /\ [changes[i] EXCEPT !.status = verdict].status = verdict
    BY <2>1 DEF Change
  <2>3. /\ DOMAIN changes' = DOMAIN changes
        /\ changes'[i] = [changes[i] EXCEPT !.status = verdict]
        /\ \A j \in DOMAIN changes \ {i} : changes'[j] = changes[j]
    BY <1>0, <1>9, <2>2, DecidedEffect
  <2>4. changes'[i].status = verdict /\ changes[i].status # "approved"
    BY <1>9, <2>2, <2>3 DEF IsPending
  <2> QED BY <2>3, <2>4 DEF ApprovalsStay
<1>10. ASSUME NEW c \in Call, NEW i \in DOMAIN changes, ApproveChange(c, i)
       PROVE  HistoryInv'
  <2>1. Begin(c, "version", i, 0, 0) /\ "version" \in Pc /\ i \in Nat /\ i # 0
    BY <1>0, <1>10, ElementType DEF ApproveChange, Pc
  <2>2. call' \in [Call -> CallRow] /\ call'[c].pc = "version" /\ call'[c].item = i
        /\ \A d \in Call \ {c} : call'[d] = call[d]
    BY <1>0, <2>1, BeginEffect
  <2>3. ApprovalsStay /\ changes'[i].status = "approved" /\ UNCHANGED versions
    BY <1>9, <1>10 DEF ApproveChange
  <2>4. changes[i].status # "approved"
    BY <1>10 DEF ApproveChange, IsPending
  <2>5. OneHistory'
    BY <2>3 DEF HistoryInv, OneHistory, ApprovalsStay
  <2>6. \A j \in DOMAIN versions' : versions'[j].change # 0 => versions'[j].change \in DOMAIN changes'
    BY <2>3 DEF HistoryInv, ApprovalsStay
  <2>7. \A j \in DOMAIN versions : versions[j].change # i
    BY <2>1, <2>4 DEF HistoryInv, OneHistory
  <2>8. \A d \in Call : call[d].pc \in Writing => call[d].item # i /\ call[d].item \in DOMAIN changes
    BY <2>4 DEF HistoryInv, DecisionTypes, Writing
  <2>9. ASSUME NEW d \in Call, call'[d].pc \in Writing
        PROVE  /\ changes'[call'[d].item].status = "approved"
               /\ \A j \in DOMAIN versions' : versions'[j].change # call'[d].item
               /\ \A e \in Call \ {d} : call'[e].pc \in Writing => call'[e].item # call'[d].item
    <3>1. CASE d = c
      BY <2>2, <2>3, <2>7, <2>8, <3>1
    <3>2. CASE d # c
      <4>1. call'[d] = call[d]
        BY <2>2, <3>2
      <4>2. /\ changes'[call[d].item].status = "approved"
            /\ \A j \in DOMAIN versions' : versions'[j].change # call[d].item
        BY <2>3, <2>8, <2>9, <4>1 DEF HistoryInv, ApprovalsStay
      <4>3. ASSUME NEW e \in Call \ {d}, call'[e].pc \in Writing
            PROVE  call'[e].item # call[d].item
        <5>1. CASE e = c
          BY <2>2, <2>8, <2>9, <4>1, <5>1
        <5>2. CASE e # c
          BY <2>2, <2>9, <4>1, <4>3, <5>2 DEF HistoryInv
        <5> QED BY <5>1, <5>2
      <4> QED BY <4>1, <4>2, <4>3
    <3> QED BY <3>1, <3>2
  <2> QED BY <2>5, <2>6, <2>9 DEF HistoryInv
<1>11. ASSUME NEW c \in Call, NEW i \in DOMAIN changes, DenyChange(c, i)
       PROVE  HistoryInv'
  <2>1. ApprovalsStay /\ UNCHANGED <<versions, call>>
    BY <1>9, <1>11 DEF DenyChange
  <2> QED BY <2>1, HistoryKept DEF WritersStay
<1>12. ASSUME NEW c \in Call, CurrentInstruction(c)
       PROVE  HistoryInv'
  <2> DEFINE first == [number |-> 1, change |-> 0, text |-> specification]
             seen == IF versions = <<>> THEN 1 ELSE Latest
             row == [call[c] EXCEPT !.pc = "append", !.seen = seen]
  <2>1. /\ call[c].pc = "version"
        /\ versions' = IF versions # <<>> THEN versions ELSE <<first>>
        /\ call' = [call EXCEPT ![c] = row]
        /\ UNCHANGED changes
    BY <1>12 DEF CurrentInstruction, At
  <2>2. row.pc = "append" /\ row.item = call[c].item
    BY <1>0 DEF CallRow
  <2>a. first.change = 0
    OBVIOUS
  <2> HIDE DEF first, row
  <2>3. WritersStay
    BY <1>0, <2>1, <2>2 DEF WritersStay, Writing
  <2>4. CASE versions # <<>>
    BY <1>1, <2>1, <2>3, <2>4, HistoryKept
  <2>5. CASE versions = <<>>
    <3>1. DOMAIN versions' = {1} /\ versions'[1].change = 0
      BY <2>1, <2>5, <2>a
    <3>2. OneHistory'
      BY <3>1 DEF OneHistory
    <3>3. ASSUME NEW d \in Call, call'[d].pc \in Writing
          PROVE  /\ changes'[call'[d].item].status = "approved"
                 /\ \A j \in DOMAIN versions' : versions'[j].change # call'[d].item
                 /\ \A e \in Call \ {d} : call'[e].pc \in Writing => call'[e].item # call'[d].item
      <4>1. call[d].pc \in Writing /\ call'[d].item = call[d].item
        BY <2>3, <3>3 DEF WritersStay
      <4>2. call[d].item \in DOMAIN changes
        BY <4>1 DEF DecisionTypes, Writing
      <4>3. call[d].item # 0
        BY <1>0, <4>2, ElementType
      <4> QED BY <2>1, <2>3, <3>1, <4>1, <4>3 DEF HistoryInv, WritersStay
    <3> QED BY <3>1, <3>2, <3>3 DEF HistoryInv
  <2> QED BY <2>4, <2>5
<1>13. ASSUME NEW c \in Call, AppendInstructionVersion(c)
       PROVE  HistoryInv'
  <2> DEFINE item == call[c].item
             textNow == TextOf(call[c].seen) \cup {item}
             row == [number |-> NextNumber(call[c].seen), change |-> item, text |-> textNow]
             last == Len(versions) + 1
  <2>1. call[c].pc = "append" /\ Goto(c, "replan") /\ versions' = Append(versions, row) /\ UNCHANGED changes
    BY <1>13 DEF AppendInstructionVersion, At
  <2>2. /\ item \in DOMAIN changes /\ changes[item].status = "approved"
        /\ \A i \in DOMAIN versions : versions[i].change # item
        /\ \A d \in Call \ {c} : call[d].pc \in Writing => call[d].item # item
    BY <2>1 DEF HistoryInv, DecisionTypes, Writing
  <2>3. row.change = item /\ item \in row.text
    OBVIOUS
  <2> HIDE DEF row
  <2>4. versions' \in Seq(Version) /\ \A i \in DOMAIN versions' : versions'[i].number = i
    BY DecisionTypesStep DEF DecisionTypes
  <2>5. /\ DOMAIN versions' = DOMAIN versions \cup {last} /\ versions'[last] = row
        /\ \A i \in DOMAIN versions : i # last /\ versions'[i] = versions[i]
    BY <1>0, <2>1
  <2>6. call' \in [Call -> CallRow] /\ call'[c].pc = "replan" /\ \A d \in Call \ {c} : call'[d] = call[d]
    BY <1>0, <2>1, GotoEffect DEF Pc
  <2> HIDE DEF last, item
  <2>7. OneHistory'
    <3>1. \A i, j \in DOMAIN versions' : i # j =>
             versions'[i].number # versions'[j].number /\ versions'[i].change # versions'[j].change
      <4> TAKE i, j \in DOMAIN versions'
      <4> HAVE i # j
      <4>1. versions'[i].number # versions'[j].number
        BY <2>4
      <4>2. versions'[i].change # versions'[j].change
        BY <2>2, <2>3, <2>5 DEF HistoryInv, OneHistory
      <4> QED BY <4>1, <4>2
    <3>2. \A i \in DOMAIN versions' : versions'[i].change # 0 =>
             /\ changes'[versions'[i].change].status = "approved"
             /\ versions'[i].change \in versions'[i].text
      BY <2>1, <2>2, <2>3, <2>5 DEF HistoryInv, OneHistory
    <3> QED BY <3>1, <3>2 DEF OneHistory
  <2>8. \A i \in DOMAIN versions' : versions'[i].change # 0 => versions'[i].change \in DOMAIN changes'
    BY <2>1, <2>2, <2>3, <2>5 DEF HistoryInv
  <2>9. ASSUME NEW d \in Call, call'[d].pc \in Writing
        PROVE  /\ changes'[call'[d].item].status = "approved"
               /\ \A j \in DOMAIN versions' : versions'[j].change # call'[d].item
               /\ \A e \in Call \ {d} : call'[e].pc \in Writing => call'[e].item # call'[d].item
    <3>1. d # c /\ call'[d] = call[d] /\ call[d].pc \in Writing
      BY <2>6, <2>9 DEF Writing
    <3>2. changes'[call'[d].item].status = "approved"
      BY <2>1, <3>1 DEF HistoryInv
    <3>3. \A j \in DOMAIN versions' : versions'[j].change # call'[d].item
      BY <2>2, <2>3, <2>5, <3>1 DEF HistoryInv
    <3>4. ASSUME NEW e \in Call \ {d}, call'[e].pc \in Writing
          PROVE  call'[e].item # call'[d].item
      <4>1. e # c /\ call'[e] = call[e]
        BY <2>6, <3>4 DEF Writing
      <4> QED BY <3>1, <3>4, <4>1 DEF HistoryInv
    <3> QED BY <3>2, <3>3, <3>4
  <2> QED BY <2>7, <2>8, <2>9 DEF HistoryInv
<1>14. ASSUME NEW c \in Call, ReplanRunningGraph(c) \/ CallDies(c)
       PROVE  HistoryInv'
  BY <1>1, <1>2, <1>14, HistoryKept DEF ReplanRunningGraph, CallDies, text
<1>15. ASSUME UNCHANGED <<text, calls>>
       PROVE  HistoryInv'
  BY <1>1, <1>15, HistoryKept DEF WritersStay, text, calls
<1>16. CASE RegisterCredentialReference \/ \E i \in DOMAIN credential : RevokeCredentialReference(i)
  BY <1>15, <1>16 DEF RegisterCredentialReference, RevokeCredentialReference
<1>17. CASE SuspendTenant \/ ResumeTenant \/ \E status \in {"completed", "cancelled"} : TerminalTransition(status)
  BY <1>15, <1>17 DEF SuspendTenant, ResumeTenant, TerminalTransition
<1>18. CASE UNCHANGED vars
  BY <1>15, <1>18 DEF vars
<1> QED
  BY <1>5, <1>6, <1>7, <1>8, <1>10, <1>11, <1>12, <1>13, <1>14, <1>16, <1>17, <1>18
     DEF Next, ChangeStep

\* Concurrent approvals write one history, for any number of requests.
THEOREM ChangesMakeOneHistory == Spec => []OneHistory
<1>1. Init => HistoryInv
  BY DEF Init, HistoryInv, OneHistory, NoCall, Writing
<1>2. HistoryInv => OneHistory
  BY DEF HistoryInv
<1> QED BY <1>1, <1>2, HistoryStep, DecisionsTyped, PTL DEF Spec

-----------------------------------------------------------------------------
(* Decisions: grants                                                        *)

Coming == {"authorized", "credential", "execute"}

\* A use of grant i is a tool call that was let through or one on its way.  A
\* grant for one use has none while it is unspent, and at most one after that.
UsedOnce(i) ==
    /\ grants[i].left > 0 =>
         /\ \A k \in DOMAIN ran : ran[k].grant # i
         /\ \A c \in Call : call[c].pc \in Coming => call[c].item # i
    /\ \A k, l \in DOMAIN ran : ran[k].grant = i /\ ran[l].grant = i => k = l
    /\ \A c, d \in Call : call[c].pc \in Coming /\ call[d].pc \in Coming
                            /\ call[c].item = i /\ call[d].item = i => c = d
    /\ \A k \in DOMAIN ran, c \in Call : ~(ran[k].grant = i /\ call[c].pc \in Coming /\ call[c].item = i)

\* A grant for a node is used for that node.
UsedForItsNode(i) ==
    /\ \A k \in DOMAIN ran : ran[k].grant = i => ran[k].node = grants[i].node
    /\ \A c \in Call : call[c].pc \in Coming /\ call[c].item = i => call[c].node = grants[i].node

\* No use is of a grant still to be given.
UsesAreGiven ==
    /\ \A k \in DOMAIN ran : ran[k].grant \in DOMAIN grants \cup {0}
    /\ \A c \in Call : call[c].pc \in Coming => call[c].item \in DOMAIN grants \cup {0}

GrantInv ==
    /\ UsesAreGiven
    /\ \A i \in DOMAIN grants : /\ grants[i].scope = "once" => UsedOnce(i)
                                /\ grants[i].scope = "node" => UsedForItsNode(i)

\* Nobody is on its way but who was, or who goes by the standing grant.
ComersStay ==
    \A c \in Call : call'[c].pc \in Coming =>
        \/ call'[c].item = 0
        \/ call[c].pc \in Coming /\ call'[c].item = call[c].item /\ call'[c].node = call[c].node

LEMMA GrantsKept ==
    ASSUME DecisionTypes, GrantInv, UNCHANGED <<grants, ran>>, ComersStay
    PROVE  GrantInv'
<1>1. UsesAreGiven'
  BY DEF GrantInv, UsesAreGiven, ComersStay
<1>2. ASSUME NEW i \in DOMAIN grants, grants[i].scope = "once"
      PROVE  UsedOnce(i)'
  <2>1. UsedOnce(i) /\ i # 0
    BY <1>2, ElementType DEF GrantInv, DecisionTypes
  <2> QED BY <2>1 DEF UsedOnce, ComersStay
<1>3. ASSUME NEW i \in DOMAIN grants, grants[i].scope = "node"
      PROVE  UsedForItsNode(i)'
  <2>1. UsedForItsNode(i) /\ i # 0
    BY <1>3, ElementType DEF GrantInv, DecisionTypes
  <2> QED BY <2>1 DEF UsedForItsNode, ComersStay
<1> QED BY <1>1, <1>2, <1>3 DEF GrantInv

\* Every step keeps the grants narrow.
LEMMA GrantStep == DecisionTypes /\ GrantInv /\ [Next]_vars => GrantInv'
<1> SUFFICES ASSUME DecisionTypes, GrantInv, [Next]_vars PROVE GrantInv'
  OBVIOUS
<1>0. /\ call \in [Call -> CallRow] /\ asks \in Seq(Ask) /\ grants \in Seq(Grant) /\ ran \in Seq(Ran)
      /\ \A i \in DOMAIN grants : i # 0
  BY ElementType DEF DecisionTypes
<1>1. ASSUME NEW c \in Call, Answered(c)
      PROVE  ComersStay
  BY <1>0, <1>1, AnsweredEffect DEF ComersStay, Coming
<1>2. ASSUME NEW c \in Call, NEW pc \in Pc, pc \in Coming => call[c].pc \in Coming, Goto(c, pc)
      PROVE  ComersStay
  BY <1>0, <1>2, GotoEffect DEF ComersStay
<1>3. ASSUME NEW c \in Call, NEW pc \in Pc, NEW item \in Nat, NEW n \in Node \cup {0},
             NEW seen \in Nat, Begin(c, pc, item, n, seen), pc \in Coming => item = 0
      PROVE  ComersStay
  BY ZenonT(60), <1>0, <1>3, BeginEffect DEF ComersStay
<1>4. ASSUME NEW c \in Call, NEW n \in Node, Invoke(c, n)
      PROVE  GrantInv'
  <2>1. Begin(c, ProvisionPermissions, 0, n, 0) /\ UNCHANGED <<grants, ran>>
    BY <1>4 DEF Invoke, access
  <2>2. ProvisionPermissions \in Pc
    BY DEF ProvisionPermissions, Pc
  <2>3. ComersStay
    BY <1>3, <2>1, <2>2
  <2> QED BY <2>1, <2>3, GrantsKept
<1>5. ASSUME NEW c \in Call, ConsumeScopedGrants(c)
      PROVE  GrantInv'
  <2> DEFINE usable == {i \in DOMAIN grants : Covers(grants[i], call[c].node)}
             i == CHOOSE i \in usable : \A j \in usable : i <= j
  <2>1. CASE usable = {}
    <3>1. Goto(c, "ask") /\ "ask" \in Pc /\ "ask" \notin Coming /\ UNCHANGED <<grants, ran>>
      BY <1>5, <2>1 DEF ConsumeScopedGrants, Pc, Coming
    <3> QED BY <1>2, <3>1, GrantsKept
  <2>2. CASE usable # {}
    <3>1. /\ call[c].pc = "consume"
          /\ grants' = [grants EXCEPT ![i] = SpendUse(@)]
          /\ call' = [call EXCEPT ![c].pc = "authorized", ![c].item = i]
          /\ UNCHANGED ran
      BY <1>5, <2>2 DEF ConsumeScopedGrants, At
    <3> HIDE DEF usable
    <3>2. usable \subseteq DOMAIN grants /\ usable \subseteq Nat
      BY <1>0, ElementType DEF usable
    <3>3. \E x \in usable : \A y \in usable : x <= y
      BY <2>2, <3>2, LeastNat
    <3>4. i \in usable
      BY <3>3
    <3>5. i \in DOMAIN grants /\ grants[i] \in Grant /\ Covers(grants[i], call[c].node)
      BY <1>0, <3>4, ElementType DEF usable
    <3> HIDE DEF i
    <3> DEFINE g == SpendUse(grants[i])
               row == [call[c] EXCEPT !.pc = "authorized", !.item = i]
    <3>6. /\ g.scope = grants[i].scope /\ g.node = grants[i].node
          /\ g.scope = "once" => g.left = 0
      BY <3>5 DEF SpendUse, Grant
    <3>7. call' = [call EXCEPT ![c] = row] /\ grants' = [grants EXCEPT ![i] = g]
      BY <3>1
    <3>8. row.pc = "authorized" /\ row.item = i /\ row.node = call[c].node
      BY <1>0 DEF CallRow
    <3> HIDE DEF g, row
    <3>9. /\ call'[c] = row /\ \A d \in Call \ {c} : call'[d] = call[d]
          /\ DOMAIN grants' = DOMAIN grants /\ grants'[i] = g
          /\ \A j \in DOMAIN grants \ {i} : grants'[j] = grants[j]
      BY <1>0, <3>5, <3>7
    <3>10. grants[i].left > 0 /\ (grants[i].scope = "node" => grants[i].node = call[c].node)
      BY <3>5 DEF Covers
    <3>11. UsesAreGiven'
      BY <3>1, <3>5, <3>8, <3>9 DEF GrantInv, UsesAreGiven
    <3>12. ASSUME NEW j \in DOMAIN grants, grants'[j].scope = "once"
           PROVE  UsedOnce(j)'
      <4>1. UsedOnce(j)
        BY <3>6, <3>9, <3>12 DEF GrantInv
      <4>2. CASE j = i
        <5>1. /\ \A k \in DOMAIN ran : ran[k].grant # i
              /\ \A d \in Call : call[d].pc \in Coming => call[d].item # i
          BY <3>10, <4>1, <4>2 DEF UsedOnce
        <5>2. ~(grants'[j].left > 0)
          BY <3>6, <3>9, <3>12, <4>2
        <5>3. \A d \in Call : call'[d].pc \in Coming /\ call'[d].item = j => d = c
          BY <3>9, <4>2, <5>1
        <5> QED BY <3>1, <4>2, <5>1, <5>2, <5>3 DEF UsedOnce
      <4>3. CASE j # i
        <5>1. grants'[j] = grants[j]
          BY <3>9, <4>3
        <5>2. \A d \in Call : call'[d].pc \in Coming /\ call'[d].item = j =>
                 call[d].pc \in Coming /\ call[d].item = j
          BY <3>8, <3>9, <4>3
        <5> QED BY <3>1, <4>1, <5>1, <5>2 DEF UsedOnce
      <4> QED BY <4>2, <4>3
    <3>13. ASSUME NEW j \in DOMAIN grants, grants'[j].scope = "node"
           PROVE  UsedForItsNode(j)'
      <4>1. UsedForItsNode(j) /\ grants'[j].node = grants[j].node
        BY <3>6, <3>9, <3>13 DEF GrantInv
      <4>2. \A d \in Call : call'[d].pc \in Coming /\ call'[d].item = j => call'[d].node = grants[j].node
        BY <3>6, <3>8, <3>9, <3>10, <3>13, <4>1 DEF UsedForItsNode
      <4> QED BY <3>1, <4>1, <4>2 DEF UsedForItsNode
    <3> QED BY <3>9, <3>11, <3>12, <3>13 DEF GrantInv
  <2> QED BY <2>1, <2>2
<1>6. ASSUME NEW c \in Call, AskPermission(c) \/ WaitForUser(c) \/ ResolveCredential(c) \/ RequestCredentialReference(c)
      PROVE  GrantInv'
  <2>1. UNCHANGED <<grants, ran>>
    BY <1>6 DEF AskPermission, WaitForUser, ResolveCredential, RequestCredentialReference, access
  <2>2. \/ Answered(c)
        \/ Goto(c, "wait")
        \/ \E pc \in {"execute", "credential"} : Goto(c, pc) /\ call[c].pc = "authorized"
    BY <1>6 DEF AskPermission, WaitForUser, ResolveCredential, RequestCredentialReference, At
  <2>3. ComersStay
    BY <1>1, <1>2, <2>2 DEF Pc, Coming
  <2> QED BY <2>1, <2>3, GrantsKept
<1>7. ASSUME NEW c \in Call, Execute(c)
      PROVE  GrantInv'
  <2> DEFINE row == [node |-> call[c].node, grant |-> call[c].item]
             last == Len(ran) + 1
  <2>1. call[c].pc = "execute" /\ Answered(c) /\ UNCHANGED grants /\ (ran' = Append(ran, row) \/ ran' = ran)
    BY <1>7 DEF Execute, At, access
  <2>2. CASE ran' = ran
    BY <1>1, <2>1, <2>2, GrantsKept
  <2>3. CASE ran' = Append(ran, row)
    <3>1. row \in Ran /\ row.node = call[c].node /\ row.grant = call[c].item
      BY <1>0 DEF CallRow, Ran
    <3> HIDE DEF row
    <3>2. /\ DOMAIN ran' = DOMAIN ran \cup {last} /\ last \notin DOMAIN ran /\ ran'[last] = row
          /\ \A k \in DOMAIN ran : ran'[k] = ran[k]
      BY <1>0, <2>3, <3>1, AppendEffect
    <3> HIDE DEF last
    <3>3. call'[c].pc \notin Coming /\ \A d \in Call \ {c} : call'[d] = call[d]
      BY <1>0, <2>1, AnsweredEffect DEF Coming
    <3>4. call[c].pc \in Coming
      BY <2>1 DEF Coming
    <3>5. UsesAreGiven'
      BY <2>1, <3>1, <3>2, <3>3, <3>4 DEF GrantInv, UsesAreGiven
    <3>6. ASSUME NEW j \in DOMAIN grants, grants[j].scope = "once"
          PROVE  UsedOnce(j)'
      <4>1. UsedOnce(j)
        BY <3>6 DEF GrantInv
      <4>2. \A d \in Call : call'[d].pc \in Coming /\ call'[d].item = j =>
               d # c /\ call[d].pc \in Coming /\ call[d].item = j
        BY <3>3
      <4>3. CASE call[c].item = j
        <5>1. /\ \A k \in DOMAIN ran : ran[k].grant # j
              /\ \A d \in Call \ {c} : ~(call[d].pc \in Coming /\ call[d].item = j)
              /\ ~(grants[j].left > 0)
          BY <3>4, <4>1, <4>3 DEF UsedOnce
        <5>2. \A k \in DOMAIN ran' : ran'[k].grant = j => k = last
          BY <3>1, <3>2, <5>1
        <5> QED BY <2>1, <4>2, <5>1, <5>2 DEF UsedOnce
      <4>4. CASE call[c].item # j
        <5>1. \A k \in DOMAIN ran' : ran'[k].grant = j => k \in DOMAIN ran /\ ran[k].grant = j
          BY <3>1, <3>2, <4>4
        <5> QED BY <2>1, <4>1, <4>2, <5>1 DEF UsedOnce
      <4> QED BY <4>3, <4>4
    <3>7. ASSUME NEW j \in DOMAIN grants, grants[j].scope = "node"
          PROVE  UsedForItsNode(j)'
      <4>1. UsedForItsNode(j)
        BY <3>7 DEF GrantInv
      <4> QED BY <2>1, <3>1, <3>2, <3>3, <3>4, <4>1 DEF UsedForItsNode
    <3> QED BY <2>1, <3>5, <3>6, <3>7 DEF GrantInv
  <2> QED BY <2>1, <2>2, <2>3
<1>8. ASSUME NEW c \in Call, ApprovePermission(c)
      PROVE  GrantInv'
  <2> DEFINE i == call[c].item
             scope == call[c].pc
             g == [scope |-> scope, node |-> asks[i].node, left |-> 1]
  <2>a. PICK last : last = Len(grants) + 1
    OBVIOUS
  <2>1. scope \in {"once", "node", "task"} /\ UNCHANGED ran
    BY <1>8 DEF ApprovePermission
  <2>2. ComersStay
    <3>1. Answered(c) \/ Goto(c, "approved")
      BY <1>8 DEF ApprovePermission
    <3> QED BY <1>1, <1>2, <3>1 DEF Pc, Coming
  <2>3. grants' = grants \/ (scope # "task" /\ grants' = Append(grants, g))
    BY <1>8 DEF ApprovePermission, access
  <2>4. CASE grants' = grants
    BY <2>1, <2>2, <2>4, GrantsKept
  <2>5. CASE scope # "task" /\ grants' = Append(grants, g)
    <3>1. i \in DOMAIN asks
      BY <2>1 DEF DecisionTypes
    <3>2. asks[i] \in Ask
      BY <1>0, <3>1, ElementType
    <3>3. g \in Grant
      BY <2>1, <2>5, <3>2 DEF Ask, Grant
    <3> HIDE DEF g
    <3>4. /\ DOMAIN grants' = DOMAIN grants \cup {last} /\ last \notin DOMAIN grants /\ last # 0
          /\ \A j \in DOMAIN grants : grants'[j] = grants[j]
      BY <1>0, <2>5, <2>a, <3>3, AppendEffect
    <3>5. UsesAreGiven'
      BY <2>1, <2>2, <3>4 DEF GrantInv, UsesAreGiven, ComersStay
    <3>6. /\ \A k \in DOMAIN ran' : ran'[k].grant # last
          /\ \A d \in Call : call'[d].pc \in Coming => call'[d].item # last
      BY <2>1, <2>2, <3>4 DEF GrantInv, UsesAreGiven, ComersStay
    <3>7. UsedOnce(last)' /\ UsedForItsNode(last)'
      BY <3>6 DEF UsedOnce, UsedForItsNode
    <3>8. ASSUME NEW j \in DOMAIN grants
          PROVE  /\ grants'[j].scope = "once" => UsedOnce(j)'
                 /\ grants'[j].scope = "node" => UsedForItsNode(j)'
      <4>1. j # 0 /\ grants'[j] = grants[j]
        BY <1>0, <3>4
      <4>2. grants[j].scope = "once" => UsedOnce(j)'
        BY <2>1, <2>2, <4>1 DEF GrantInv, UsedOnce, ComersStay
      <4>3. grants[j].scope = "node" => UsedForItsNode(j)'
        BY <2>1, <2>2, <4>1 DEF GrantInv, UsedForItsNode, ComersStay
      <4> QED BY <4>1, <4>2, <4>3
    <3> QED BY <3>4, <3>5, <3>7, <3>8 DEF GrantInv
  <2> QED BY <2>3, <2>4, <2>5
<1>9. ASSUME NEW c \in Call, NEW i \in DOMAIN asks, NEW answer \in {"once", "node", "task", "deny"},
             ResolvePermissionAction(c, i, answer)
      PROVE  GrantInv'
  <2> DEFINE seen == Cardinality(Pending(asks) \ {i})
  <2>1. seen \in Nat /\ i \in Nat
    BY PendingCount, ElementType DEF DecisionTypes
  <2>2. Begin(c, answer, i, 0, seen) /\ UNCHANGED <<grants, ran>>
    BY <1>9 DEF ResolvePermissionAction, access
  <2> HIDE DEF seen
  <2>3. answer \in Pc /\ answer \notin Coming
    BY DEF Pc, Coming
  <2>4. ComersStay
    BY <1>3, <2>1, <2>2, <2>3
  <2> QED BY <2>2, <2>4, GrantsKept
<1>10. ASSUME NEW c \in Call, DenyPermission(c) \/ ListPendingRequests(c) \/ UpdateAfterAnswer(c)
              \/ ResumeAfterApproval(c)
       PROVE  GrantInv'
  <2>1. \/ Answered(c)
        \/ \E pc \in {"denied", "approved-last", "approved-more", "denied-last", "denied-more", "resume"} : Goto(c, pc)
    BY <1>10 DEF DenyPermission, ListPendingRequests, UpdateAfterAnswer, ResumeAfterApproval
  <2>2. ComersStay
    BY <1>1, <1>2, <2>1 DEF Pc, Coming
  <2>3. UNCHANGED <<grants, ran>>
    BY <1>10 DEF DenyPermission, ListPendingRequests, UpdateAfterAnswer, ResumeAfterApproval, access
  <2> QED BY <2>2, <2>3, GrantsKept
<1>11. ASSUME NEW c \in Call, NEW i \in DOMAIN changes, ApproveChange(c, i)
       PROVE  GrantInv'
  <2>1. Begin(c, "version", i, 0, 0) /\ UNCHANGED <<grants, ran>> /\ i \in Nat
    BY <1>11, ElementType DEF ApproveChange, access, DecisionTypes
  <2>2. "version" \in Pc /\ "version" \notin Coming
    BY DEF Pc, Coming
  <2>3. ComersStay
    BY <1>3, <2>1, <2>2
  <2> QED BY <2>1, <2>3, GrantsKept
<1>12. ASSUME NEW c \in Call, SubmitUserCommand(c)
       PROVE  GrantInv'
  <2>1. Begin(c, "change", 0, 0, 0) /\ UNCHANGED <<grants, ran>> /\ "change" \in Pc /\ "change" \notin Coming
    BY <1>12 DEF SubmitUserCommand, access, Pc, Coming
  <2>2. ComersStay
    BY <1>3, <2>1
  <2> QED BY <2>1, <2>2, GrantsKept
<1>13. ASSUME NEW c \in Call, CurrentInstruction(c)
       PROVE  GrantInv'
  <2> DEFINE seen == IF versions = <<>> THEN 1 ELSE Latest
             row == [call[c] EXCEPT !.pc = "append", !.seen = seen]
  <2>1. call' = [call EXCEPT ![c] = row] /\ UNCHANGED <<grants, ran>>
    BY <1>13 DEF CurrentInstruction, access
  <2>2. row.pc \notin Coming
    BY <1>0 DEF CallRow, Coming
  <2> HIDE DEF row
  <2>3. ComersStay
    BY <1>0, <2>1, <2>2 DEF ComersStay
  <2> QED BY <2>1, <2>3, GrantsKept
<1>14. ASSUME NEW c \in Call, DecisionNeeded(c) \/ ChangeApplied(c) \/ AppendInstructionVersion(c)
              \/ ReplanRunningGraph(c) \/ CallDies(c)
       PROVE  GrantInv'
  <2>1. Answered(c) \/ Goto(c, "replan")
    BY <1>14 DEF DecisionNeeded, ChangeApplied, AppendInstructionVersion, ReplanRunningGraph, CallDies
  <2>2. ComersStay
    BY <1>1, <1>2, <2>1 DEF Pc, Coming
  <2>3. UNCHANGED <<grants, ran>>
    BY <1>14 DEF DecisionNeeded, ChangeApplied, AppendInstructionVersion, ReplanRunningGraph, CallDies, access
  <2> QED BY <2>2, <2>3, GrantsKept
<1>15. ASSUME UNCHANGED <<access, ran, call>>
       PROVE  GrantInv'
  BY <1>15, GrantsKept DEF ComersStay, access
<1>16. CASE RegisterCredentialReference \/ \E i \in DOMAIN credential : RevokeCredentialReference(i)
  BY <1>15, <1>16 DEF RegisterCredentialReference, RevokeCredentialReference, calls
<1>17. CASE SuspendTenant \/ ResumeTenant \/ \E status \in {"completed", "cancelled"} : TerminalTransition(status)
  BY <1>15, <1>17 DEF SuspendTenant, ResumeTenant, TerminalTransition, calls
<1>18. CASE (\E c \in Call : \E i \in DOMAIN changes : DenyChange(c, i)) \/ UNCHANGED vars
  BY <1>15, <1>18 DEF DenyChange, vars, calls
<1> QED
  BY <1>4, <1>5, <1>6, <1>7, <1>8, <1>9, <1>10, <1>11, <1>12, <1>13, <1>14, <1>16, <1>17, <1>18
     DEF Next, ToolStep, PermissionStep, ChangeStep

\* Two sets that hold at most one thing between them.
LEMMA OneBetweenThem ==
    ASSUME NEW U, NEW C,
           \A x, y \in U : x = y, \A x, y \in C : x = y, U = {} \/ C = {}
    PROVE  Cardinality(U) + Cardinality(C) <= 1
<1>1. ASSUME NEW S, \A x, y \in S : x = y
      PROVE  Cardinality(S) = IF S = {} THEN 0 ELSE 1
  <2>1. CASE S = {}
    BY <2>1, FS_EmptySet
  <2>2. CASE S # {}
    <3>1. PICK x \in S : S = {x}
      BY <1>1, <2>2
    <3> QED BY <2>2, <3>1, FS_Singleton
  <2> QED BY <2>1, <2>2
<1> QED BY <1>1

\* However many calls race for one approval, a grant for one use lets one call
\* through, and a grant for a node lets through calls of that node only.
THEOREM GrantsAreUsedAsGiven == Spec => []GrantsStayNarrow
<1>1. Init => GrantInv
  BY DEF Init, GrantInv, UsesAreGiven, NoCall, Coming
<1>2. GrantInv => GrantsStayNarrow
  <2> SUFFICES ASSUME GrantInv, NEW i \in DOMAIN grants
               PROVE  LET uses == {k \in DOMAIN ran : ran[k].grant = i}
                          coming == {c \in Call : call[c].pc \in {"authorized", "credential", "execute"}
                                                   /\ call[c].item = i}
                      IN /\ grants[i].scope = "once" => Cardinality(uses) + Cardinality(coming) <= 1
                         /\ grants[i].scope = "node" => \A k \in uses : ran[k].node = grants[i].node
    BY DEF GrantsStayNarrow
  <2> DEFINE uses == {k \in DOMAIN ran : ran[k].grant = i}
             coming == {c \in Call : call[c].pc \in {"authorized", "credential", "execute"}
                                      /\ call[c].item = i}
  <2>1. ASSUME grants[i].scope = "once"
        PROVE  Cardinality(uses) + Cardinality(coming) <= 1
    <3>1. UsedOnce(i)
      BY <2>1 DEF GrantInv
    <3>2. /\ \A k, l \in uses : k = l
          /\ \A c, d \in coming : c = d
          /\ uses = {} \/ coming = {}
      BY <3>1 DEF UsedOnce, Coming
    <3> HIDE DEF uses, coming
    <3> QED BY <3>2, OneBetweenThem
  <2>2. ASSUME grants[i].scope = "node"
        PROVE  \A k \in uses : ran[k].node = grants[i].node
    BY <2>2 DEF GrantInv, UsedForItsNode
  <2> QED BY <2>1, <2>2
<1> QED BY <1>1, <1>2, GrantStep, DecisionsTyped, PTL DEF Spec

-----------------------------------------------------------------------------
(* The server: types                                                        *)

Stage == {"idle", "signup", "login", "wrong", "verified", "session", "check", "tenant", "limit", "ready"}
Req ==
    [at : Stage, who : Account \cup {Nobody}, what : Changes \cup {"none"},
     on : Account \cup Task \cup {Nobody}, disabled : BOOLEAN, shut : BOOLEAN]

\* The records are typed.
ApiTypes ==
    /\ request \in [Client -> Req]
    /\ sessions \in [Client -> Account \cup {Nobody}]
    /\ failures \in [Account -> Nat]
    /\ DOMAIN tasks \subseteq Task

\* A request on its way stands for an account; it came while the account was
\* enabled, and if its tenant has been suspended ever since it is before its
\* first check.
RowOK(r, shutTenants) ==
    /\ r.at # "idle" => r.who \in Account
    /\ ~r.disabled
    /\ r.shut => r.at = "check" /\ r.who \in shutTenants
RowsOK == \A c \in Client : RowOK(request[c], closed)

\* What is being guessed at an account: counted, or about to be.
Guessing(a) == {c \in Client : In(c, "wrong") /\ request[c].who = a}
GuessesCounted ==
    \A a \in Account : failures[a] + Cardinality(Guessing(a)) <= LOCKOUT_THRESHOLD + Cardinality(Client) - 1

ApiInv == ApiTypes /\ RowsOK /\ GuessesCounted

\* A request moves on; a request is answered; a sign-in begins.
LEMMA MoveOnEffect ==
    ASSUME request \in [Client -> Req], NEW c \in Client, NEW at \in Stage, MoveOn(c, at)
    PROVE  /\ request' \in [Client -> Req]
           /\ request'[c].at = at /\ request'[c].who = request[c].who /\ request'[c].what = request[c].what
           /\ request'[c].disabled = request[c].disabled /\ request'[c].shut = request[c].shut
           /\ \A d \in Client \ {c} : request'[d] = request[d]
<1> DEFINE row == [request[c] EXCEPT !.at = at]
<1>1. request' = [request EXCEPT ![c] = row]
  BY DEF MoveOn
<1>2. row \in Req /\ row.at = at /\ row.who = request[c].who /\ row.what = request[c].what
      /\ row.disabled = request[c].disabled /\ row.shut = request[c].shut
  BY DEF Req
<1> HIDE DEF row
<1> QED BY <1>1, <1>2

LEMMA IdleType ==
    /\ Idle \in Req
    /\ Idle.at = "idle" /\ Idle.disabled = FALSE /\ Idle.shut = FALSE
BY DEF Idle, Req, Stage

LEMMA AnswerEffect ==
    ASSUME request \in [Client -> Req], NEW c \in Client, Answer(c)
    PROVE  /\ request' \in [Client -> Req]
           /\ request'[c] = Idle
           /\ \A d \in Client \ {c} : request'[d] = request[d]
BY IdleType DEF Answer

LEMMA SigningInType ==
    ASSUME NEW a \in Account, NEW at \in Stage
    PROVE  /\ SigningIn(a, at) \in Req
           /\ SigningIn(a, at).at = at /\ SigningIn(a, at).who = a
           /\ SigningIn(a, at).disabled = FALSE /\ SigningIn(a, at).shut = FALSE
<1>1. Idle \in Req
  BY IdleType
<1>2. [Idle EXCEPT !.at = at, !.who = a] \in Req
  BY <1>1 DEF Req
<1>3. /\ [Idle EXCEPT !.at = at, !.who = a].at = at
      /\ [Idle EXCEPT !.at = at, !.who = a].who = a
      /\ [Idle EXCEPT !.at = at, !.who = a].disabled = Idle.disabled
      /\ [Idle EXCEPT !.at = at, !.who = a].shut = Idle.shut
  BY <1>1 DEF Req
<1> QED BY <1>2, <1>3, IdleType DEF SigningIn

\* Who is let in again may be recorded in the requests of others, which are
\* otherwise as they were.
LEMMA ReadmittingEffect ==
    ASSUME request \in [Client -> Req], NEW c \in Client, NEW a,
           AnswerReadmitting(c, a, Enabled) \/ AnswerReadmitting(c, a, Reopened)
    PROVE  /\ request' \in [Client -> Req]
           /\ request'[c] = Idle
           /\ \A d \in Client \ {c} :
                /\ request'[d].at = request[d].at /\ request'[d].who = request[d].who
                /\ request'[d].what = request[d].what
                /\ request'[d].disabled => request[d].disabled
                /\ request'[d].shut => request[d].shut
           /\ AnswerReadmitting(c, a, Reopened) =>
                \A d \in Client \ {c} : request[d].who = a => ~request'[d].shut
<1>1. ASSUME NEW r \in Req
      PROVE  /\ Enabled(r) \in Req /\ Enabled(r).at = r.at /\ Enabled(r).who = r.who /\ Enabled(r).what = r.what
             /\ Enabled(r).disabled = FALSE /\ Enabled(r).shut = r.shut
             /\ Reopened(r) \in Req /\ Reopened(r).at = r.at /\ Reopened(r).who = r.who /\ Reopened(r).what = r.what
             /\ Reopened(r).disabled = r.disabled /\ Reopened(r).shut = FALSE
  BY DEF Enabled, Reopened, Req
<1>2. CASE AnswerReadmitting(c, a, Reopened)
  <2>1. /\ request' \in [Client -> Req] /\ request'[c] = Idle
        /\ \A d \in Client \ {c} :
             request'[d] = IF request[d].who = a THEN Reopened(request[d]) ELSE request[d]
    <3>1. request' = [d \in Client |-> IF d = c THEN Idle
                                       ELSE IF request[d].who = a THEN Reopened(request[d]) ELSE request[d]]
      BY <1>2 DEF AnswerReadmitting
    <3>2. \A d \in Client : request[d] \in Req
      OBVIOUS
    <3>3. \A d \in Client : (IF d = c THEN Idle
                              ELSE IF request[d].who = a THEN Reopened(request[d]) ELSE request[d]) \in Req
      BY <1>1, <3>2, IdleType
    <3> QED BY <3>1, <3>3
  <2>2. ASSUME NEW d \in Client \ {c}
        PROVE  /\ request'[d].at = request[d].at /\ request'[d].who = request[d].who
               /\ request'[d].what = request[d].what
               /\ request'[d].disabled => request[d].disabled
               /\ request'[d].shut => request[d].shut
               /\ request[d].who = a => ~request'[d].shut
    <3>1. request[d] \in Req
      OBVIOUS
    <3>2. CASE request[d].who = a
      <4>1. request'[d] = Reopened(request[d])
        BY <2>1, <3>2
      <4>2. /\ Reopened(request[d]).at = request[d].at /\ Reopened(request[d]).who = request[d].who
            /\ Reopened(request[d]).what = request[d].what
            /\ Reopened(request[d]).disabled = request[d].disabled
            /\ Reopened(request[d]).shut = FALSE
        BY <1>1, <3>1
      <4> QED BY <4>1, <4>2
    <3>3. CASE request[d].who # a
      BY <2>1, <3>3
    <3> QED BY <3>2, <3>3
  <2> QED BY <2>1, <2>2
<1>3. CASE AnswerReadmitting(c, a, Enabled) /\ ~AnswerReadmitting(c, a, Reopened)
  <2>1. /\ request' \in [Client -> Req] /\ request'[c] = Idle
        /\ \A d \in Client \ {c} :
             request'[d] = IF request[d].who = a THEN Enabled(request[d]) ELSE request[d]
    <3>1. request' = [d \in Client |-> IF d = c THEN Idle
                                       ELSE IF request[d].who = a THEN Enabled(request[d]) ELSE request[d]]
      BY <1>3 DEF AnswerReadmitting
    <3>2. \A d \in Client : request[d] \in Req
      OBVIOUS
    <3>3. \A d \in Client : (IF d = c THEN Idle
                              ELSE IF request[d].who = a THEN Enabled(request[d]) ELSE request[d]) \in Req
      BY <1>1, <3>2, IdleType
    <3> QED BY <3>1, <3>3
  <2>2. ASSUME NEW d \in Client \ {c}
        PROVE  /\ request'[d].at = request[d].at /\ request'[d].who = request[d].who
               /\ request'[d].what = request[d].what
               /\ request'[d].disabled => request[d].disabled
               /\ request'[d].shut => request[d].shut
    <3>1. request[d] \in Req
      OBVIOUS
    <3>2. CASE request[d].who = a
      <4>1. request'[d] = Enabled(request[d])
        BY <2>1, <3>2
      <4>2. /\ Enabled(request[d]).at = request[d].at /\ Enabled(request[d]).who = request[d].who
            /\ Enabled(request[d]).what = request[d].what
            /\ Enabled(request[d]).disabled = FALSE
            /\ Enabled(request[d]).shut = request[d].shut
        BY <1>1, <3>1
      <4> QED BY <4>1, <4>2
    <3>3. CASE request[d].who # a
      BY <2>1, <3>3
    <3> QED BY <3>2, <3>3
  <2> QED BY <1>3, <2>1, <2>2
<1> QED BY <1>2, <1>3

\* A route's object is an account, a task or nothing.
LEMMA TargetType ==
    ASSUME ApiTypes, NEW change
    PROVE  Target(change) \subseteq Account \cup Task \cup {Nobody}
<1>1. Exposed \subseteq Account
  BY ApiAssumption DEF ApiAssumption
<1> QED BY <1>1 DEF Target, ApiTypes

-----------------------------------------------------------------------------
(* The server: steps                                                        *)

LEMMA GuessingFinite ==
    ASSUME NEW S, S \subseteq Client
    PROVE  /\ IsFiniteSet(S) /\ Cardinality(S) \in Nat
           /\ Cardinality(S) <= Cardinality(Client)
           /\ Cardinality(Client) \in Nat
           /\ \A R \in SUBSET S : Cardinality(R) \in Nat /\ Cardinality(R) <= Cardinality(S)
<1>1. IsFiniteSet(Client)
  BY ApiAssumption DEF ApiAssumption
<1>2. IsFiniteSet(S)
  BY <1>1, FS_Subset
<1>3. \A R \in SUBSET S : IsFiniteSet(R) /\ Cardinality(R) <= Cardinality(S)
  BY <1>2, FS_Subset
<1> QED BY <1>1, <1>2, <1>3, FS_Subset, FS_CardinalityType

\* A step that starts no guess and counts none more keeps the account of them.
LEMMA NoNewGuess ==
    ASSUME ApiTypes, GuessesCounted, failures' \in [Account -> Nat],
           \A a \in Account : failures'[a] <= failures[a],
           \A d \in Client : request'[d].at = "wrong" =>
                request[d].at = "wrong" /\ request'[d].who = request[d].who
    PROVE  GuessesCounted'
<1> SUFFICES ASSUME NEW a \in Account
             PROVE  failures'[a] + Cardinality(Guessing(a)') <= LOCKOUT_THRESHOLD + Cardinality(Client) - 1
  BY DEF GuessesCounted
<1>1. Guessing(a)' \subseteq Guessing(a) /\ Guessing(a) \subseteq Client
  BY DEF Guessing, In
<1>2. /\ Cardinality(Guessing(a)) \in Nat /\ Cardinality(Guessing(a)') \in Nat
      /\ Cardinality(Guessing(a)') <= Cardinality(Guessing(a)) /\ Cardinality(Client) \in Nat
  BY <1>1, GuessingFinite
<1>3. failures[a] + Cardinality(Guessing(a)) <= LOCKOUT_THRESHOLD + Cardinality(Client) - 1
  BY DEF GuessesCounted
<1>4. failures[a] \in Nat /\ failures'[a] \in Nat /\ failures'[a] <= failures[a] /\ LOCKOUT_THRESHOLD \in Nat
  BY ApiAssumption DEF ApiAssumption, ApiTypes
<1> HIDE DEF Guessing
<1> QED BY <1>2, <1>3, <1>4

\* A step of one request that is no guess.
LEMMA OneRow ==
    ASSUME ApiInv, NEW c \in Client, request' \in [Client -> Req],
           RowOK(request'[c], closed'), request'[c].at # "wrong", closed \subseteq closed',
           \A d \in Client \ {c} : request'[d] = request[d],
           failures' \in [Account -> Nat], \A a \in Account : failures'[a] <= failures[a],
           sessions' \in [Client -> Account \cup {Nobody}], DOMAIN tasks' \subseteq Task
    PROVE  ApiInv'
<1>1. RowsOK'
  BY DEF ApiInv, RowsOK, RowOK
<1>2. GuessesCounted'
  BY NoNewGuess DEF ApiInv
<1> QED BY <1>1, <1>2 DEF ApiInv, ApiTypes

\* A step that leaves the requests as they are.
LEMMA NoRow ==
    ASSUME ApiInv, UNCHANGED <<request, closed>>,
           failures' \in [Account -> Nat], \A a \in Account : failures'[a] <= failures[a],
           sessions' \in [Client -> Account \cup {Nobody}], DOMAIN tasks' \subseteq Task
    PROVE  ApiInv'
<1>1. RowsOK'
  BY DEF ApiInv, RowsOK
<1>2. GuessesCounted'
  BY NoNewGuess DEF ApiInv
<1> QED BY <1>1, <1>2 DEF ApiInv, ApiTypes

\* What a request that is answered, or moves on from where it may, leaves behind.
LEMMA AnsweredRow ==
    ASSUME ApiInv, NEW c \in Client, Answer(c), closed \subseteq closed',
           failures' \in [Account -> Nat], \A a \in Account : failures'[a] <= failures[a],
           sessions' \in [Client -> Account \cup {Nobody}], DOMAIN tasks' \subseteq Task
    PROVE  ApiInv'
<1>1. request \in [Client -> Req]
  BY DEF ApiInv, ApiTypes
<1>2. RowOK(Idle, closed') /\ Idle.at # "wrong"
  BY IdleType DEF RowOK
<1> QED BY <1>1, <1>2, AnswerEffect, OneRow

LEMMA MovedRow ==
    ASSUME ApiInv, NEW c \in Client, NEW at \in Stage, MoveOn(c, at), at # "wrong", request[c].at # "idle",
           request[c].at = "check" => request[c].who \notin closed,
           closed' = closed,
           failures' \in [Account -> Nat], \A a \in Account : failures'[a] <= failures[a],
           sessions' \in [Client -> Account \cup {Nobody}], DOMAIN tasks' \subseteq Task
    PROVE  ApiInv'
<1>1. request \in [Client -> Req] /\ RowOK(request[c], closed)
  BY DEF ApiInv, ApiTypes, RowsOK
<1>2. /\ request' \in [Client -> Req] /\ request'[c].at = at /\ request'[c].who = request[c].who
      /\ request'[c].disabled = request[c].disabled /\ request'[c].shut = request[c].shut
      /\ \A d \in Client \ {c} : request'[d] = request[d]
  BY <1>1, MoveOnEffect
<1>3. request[c] \in Req /\ request'[c] \in Req
  BY <1>1, <1>2
<1>4. RowOK(request'[c], closed')
  BY <1>1, <1>2, <1>3 DEF RowOK, Req
<1> QED BY <1>2, <1>4, OneRow

\* A sign-in at any of its stages.
LEMMA SigningInRow ==
    ASSUME ApiInv, NEW c \in Client, NEW a \in Account, NEW at \in Stage \ {"wrong"},
           request' = [request EXCEPT ![c] = SigningIn(a, at)], closed' = closed,
           failures' \in [Account -> Nat], \A b \in Account : failures'[b] <= failures[b],
           sessions' \in [Client -> Account \cup {Nobody}], DOMAIN tasks' \subseteq Task
    PROVE  ApiInv'
<1>1. request \in [Client -> Req]
  BY DEF ApiInv, ApiTypes
<1>2. /\ SigningIn(a, at) \in Req /\ SigningIn(a, at).at = at /\ SigningIn(a, at).who = a
      /\ SigningIn(a, at).disabled = FALSE /\ SigningIn(a, at).shut = FALSE
  BY SigningInType
<1>3. /\ request' \in [Client -> Req] /\ request'[c] = SigningIn(a, at)
      /\ \A d \in Client \ {c} : request'[d] = request[d]
  BY <1>1, <1>2
<1>4. RowOK(request'[c], closed')
  BY <1>2, <1>3 DEF RowOK
<1> QED BY <1>2, <1>3, <1>4, OneRow

\* What holds in a state that keeps failures, sessions or tasks.
LEMMA KeptTypes ==
    ASSUME ApiInv
    PROVE  /\ UNCHANGED failures => failures' \in [Account -> Nat] /\ \A a \in Account : failures'[a] <= failures[a]
           /\ UNCHANGED sessions => sessions' \in [Client -> Account \cup {Nobody}]
           /\ UNCHANGED tasks => DOMAIN tasks' \subseteq Task
           /\ UNCHANGED closed => closed' = closed /\ closed \subseteq closed'
<1>1. failures \in [Account -> Nat] /\ sessions \in [Client -> Account \cup {Nobody}] /\ DOMAIN tasks \subseteq Task
  BY DEF ApiInv, ApiTypes
<1>2. \A a \in Account : failures[a] <= failures[a]
  BY <1>1
<1> QED BY <1>1, <1>2

LEMMA SignInKeeps ==
    ASSUME ApiInv, NEW c \in Client, SignInStep(c)
    PROVE  ApiInv'
<1> USE KeptTypes
<1>0. /\ request \in [Client -> Req] /\ sessions \in [Client -> Account \cup {Nobody}]
      /\ failures \in [Account -> Nat] /\ RowOK(request[c], closed)
      /\ Exposed \subseteq Account
  BY ApiAssumption DEF ApiInv, ApiTypes, RowsOK, ApiAssumption
<1>1. ASSUME NEW a \in Account, BootstrapOwner(c, a)
      PROVE  ApiInv'
  BY <1>1, NoRow DEF BootstrapOwner
<1>2. ASSUME NEW a \in Account, SignUp(c, a)
      PROVE  ApiInv'
  <2>1. "signup" \in Stage \ {"wrong"}
    BY DEF Stage
  <2> QED BY <1>2, <2>1, SigningInRow DEF SignUp, identity
<1>3. ASSUME NEW a \in Account, NEW password, BeginLogin(c, a, password)
      PROVE  ApiInv'
  <2>1. /\ UNCHANGED <<sessions, failures, closed, tasks>>
        /\ ~(failures[a] >= LOCKOUT_THRESHOLD)
        /\ request' = [request EXCEPT ![c] = SigningIn(a, IF a \in Exists /\ password = "right" THEN "verified" ELSE "wrong")]
    BY <1>3 DEF BeginLogin, LockedOut, identity
  <2>2. CASE a \in Exists /\ password = "right"
    <3>1. request' = [request EXCEPT ![c] = SigningIn(a, "verified")]
      BY <2>1, <2>2
    <3>2. "verified" \in Stage \ {"wrong"}
      BY DEF Stage
    <3> QED BY <2>1, <3>1, <3>2, SigningInRow
  <2>3. CASE ~(a \in Exists /\ password = "right")
    <3>1. request' = [request EXCEPT ![c] = SigningIn(a, "wrong")]
      BY <2>1, <2>3
    <3>2. /\ SigningIn(a, "wrong") \in Req /\ SigningIn(a, "wrong").at = "wrong"
          /\ SigningIn(a, "wrong").who = a /\ SigningIn(a, "wrong").disabled = FALSE
          /\ SigningIn(a, "wrong").shut = FALSE
      BY ZenonT(60), SigningInType DEF Stage
    <3>3. /\ request' \in [Client -> Req] /\ request'[c] = SigningIn(a, "wrong")
          /\ \A d \in Client \ {c} : request'[d] = request[d]
      BY <1>0, <3>1, <3>2
    <3>4. ApiTypes' /\ RowsOK'
      <4>1. RowOK(request'[c], closed')
        BY <3>2, <3>3 DEF RowOK
      <4>2. \A d \in Client \ {c} : RowOK(request'[d], closed')
        BY <2>1, <3>3 DEF ApiInv, RowsOK
      <4> QED BY <2>1, <3>3, <4>1, <4>2 DEF ApiTypes, RowsOK
    <3>5. ASSUME NEW b \in Account
          PROVE  failures'[b] + Cardinality(Guessing(b)') <= LOCKOUT_THRESHOLD + Cardinality(Client) - 1
      <4>1. /\ Guessing(b) \subseteq Client /\ Guessing(b)' \subseteq Client
            /\ b # a => Guessing(b)' \subseteq Guessing(b)
        BY <3>2, <3>3 DEF Guessing, In
      <4> HIDE DEF Guessing
      <4>2. /\ Cardinality(Guessing(b)) \in Nat /\ Cardinality(Guessing(b)') \in Nat
            /\ Cardinality(Client) \in Nat /\ Cardinality(Guessing(b)') <= Cardinality(Client)
            /\ b # a => Cardinality(Guessing(b)') <= Cardinality(Guessing(b))
        BY <4>1, GuessingFinite
      <4>3. failures'[b] = failures[b] /\ failures[b] \in Nat /\ LOCKOUT_THRESHOLD \in Nat
        BY <1>0, <2>1, ApiAssumption DEF ApiAssumption
      <4>4. CASE b = a
        BY <2>1, <4>2, <4>3, <4>4
      <4>5. CASE b # a
        <5>1. failures[b] + Cardinality(Guessing(b)) <= LOCKOUT_THRESHOLD + Cardinality(Client) - 1
          BY DEF ApiInv, GuessesCounted
        <5> QED BY <4>2, <4>3, <4>5, <5>1
      <4> QED BY <4>4, <4>5
    <3> QED BY <3>4, <3>5 DEF ApiInv, GuessesCounted
  <2> QED BY <2>2, <2>3
<1>4. ASSUME CreateMember(c)
      PROVE  ApiInv'
  <2>1. "login" \in Stage
    BY DEF Stage
  <2> QED BY <1>4, <2>1, MovedRow DEF CreateMember, In
<1>5. ASSUME LoginFails(c)
      PROVE  ApiInv'
  <2> DEFINE a == request[c].who
  <2>1. /\ request[c].at = "wrong" /\ failures' = [failures EXCEPT ![a] = failures[a] + 1]
        /\ Answer(c) /\ UNCHANGED <<sessions, closed, tasks>>
    BY <1>5 DEF LoginFails, In
  <2>2. a \in Account
    BY <1>0, <2>1 DEF RowOK
  <2> HIDE DEF a
  <2>3. request' \in [Client -> Req] /\ request'[c] = Idle /\ \A d \in Client \ {c} : request'[d] = request[d]
    BY <1>0, <2>1, AnswerEffect
  <2>4. ApiTypes' /\ RowsOK'
    <3>1. RowOK(request'[c], closed')
      BY <2>3, IdleType DEF RowOK
    <3>2. \A d \in Client \ {c} : RowOK(request'[d], closed')
      BY <2>1, <2>3 DEF ApiInv, RowsOK
    <3>3. failures' \in [Account -> Nat]
      BY <1>0, <2>1, <2>2
    <3> QED BY <2>1, <2>3, <3>1, <3>2, <3>3 DEF ApiTypes, RowsOK
  <2>5. ASSUME NEW b \in Account
        PROVE  failures'[b] + Cardinality(Guessing(b)') <= LOCKOUT_THRESHOLD + Cardinality(Client) - 1
    <3>1. /\ Guessing(b) \subseteq Client /\ Guessing(b)' \subseteq Guessing(b)
          /\ b = a => c \in Guessing(b) /\ Guessing(b)' \subseteq Guessing(b) \ {c}
      BY <2>1, <2>3, IdleType DEF Guessing, In, a
    <3>2. failures[b] + Cardinality(Guessing(b)) <= LOCKOUT_THRESHOLD + Cardinality(Client) - 1
      BY DEF ApiInv, GuessesCounted
    <3> HIDE DEF Guessing
    <3>3. /\ IsFiniteSet(Guessing(b)) /\ Cardinality(Guessing(b)) \in Nat /\ Cardinality(Guessing(b)') \in Nat
          /\ Cardinality(Client) \in Nat /\ Cardinality(Guessing(b)') <= Cardinality(Guessing(b))
      BY <3>1, GuessingFinite
    <3>4. failures[b] \in Nat /\ LOCKOUT_THRESHOLD \in Nat
      BY <1>0, ApiAssumption DEF ApiAssumption
    <3>5. CASE b = a
      <4>1. failures'[b] = failures[b] + 1
        BY <1>0, <2>1, <3>5
      <4>2. Cardinality(Guessing(b) \ {c}) = Cardinality(Guessing(b)) - 1
        BY <3>1, <3>3, <3>5, FS_RemoveElement
      <4>3. Guessing(b) \ {c} \subseteq Client /\ Guessing(b)' \in SUBSET (Guessing(b) \ {c})
        BY <3>1, <3>5
      <4>4. Cardinality(Guessing(b)') <= Cardinality(Guessing(b) \ {c})
        BY <4>3, GuessingFinite
      <4> QED BY <3>2, <3>3, <3>4, <4>1, <4>2, <4>4
    <3>6. CASE b # a
      <4>1. failures'[b] = failures[b]
        BY <1>0, <2>1, <3>6
      <4> QED BY <3>2, <3>3, <3>4, <4>1
    <3> QED BY <3>5, <3>6
  <2> QED BY <2>4, <2>5 DEF ApiInv, GuessesCounted
<1>6. ASSUME LoginSucceeds(c)
      PROVE  ApiInv'
  <2>1. failures' \in [Account -> Nat] /\ \A a \in Account : failures'[a] <= failures[a]
    BY <1>0, <1>6 DEF LoginSucceeds
  <2>2. "session" \in Stage
    BY DEF Stage
  <2>3. MoveOn(c, "session") /\ request[c].at = "verified" /\ UNCHANGED <<sessions, closed, tasks>>
    BY <1>6 DEF LoginSucceeds, In
  <2> QED BY <2>1, <2>2, <2>3, MovedRow
<1>7. ASSUME CreateSession(c)
      PROVE  ApiInv'
  <2>1. /\ request[c].at = "session" /\ sessions' = [sessions EXCEPT ![c] = request[c].who]
        /\ Answer(c) /\ UNCHANGED <<failures, closed, tasks>>
    BY <1>7 DEF CreateSession, In
  <2>2. sessions' \in [Client -> Account \cup {Nobody}]
    BY <1>0, <2>1 DEF RowOK
  <2> QED BY <2>1, <2>2, AnsweredRow
<1>8. ASSUME RevokeSession(c) \/ SessionExpires(c)
      PROVE  ApiInv'
  <2>1. sessions' = [sessions EXCEPT ![c] = Nobody] /\ UNCHANGED <<failures, closed, tasks, request>>
    BY <1>8 DEF RevokeSession, SessionExpires
  <2>2. sessions' \in [Client -> Account \cup {Nobody}]
    BY <1>0, <2>1
  <2> QED BY <2>1, <2>2, NoRow
<1> QED BY <1>0, <1>1, <1>2, <1>3, <1>4, <1>5, <1>6, <1>7, <1>8 DEF SignInStep

\* A request that arrives stands for an active account.
LEMMA IdentifyKeeps ==
    ASSUME ApiInv, NEW c \in Client, NEW change \in Changes, NEW on \in Target(change), Identify(c, change, on)
    PROVE  ApiInv'
<1> USE KeptTypes
<1> DEFINE p == ResolveSession(c)
           at == IF change \in TaskChanges \cup TenantChanges THEN "check" ELSE "ready"
           row == [at |-> at, who |-> p, what |-> change, on |-> on, disabled |-> p \in Exists /\ ~Active(p),
                   shut |-> at = "check" /\ p \in closed]
<1>1. /\ p # Nobody /\ request' = [request EXCEPT ![c] = row]
      /\ UNCHANGED <<users, sessions, failures, closed, tasks>>
  BY DEF Identify, Of, identity
<1>2. p \in Account /\ Active(p)
  <2>1. sessions[c] \in Account \cup {Nobody}
    BY DEF ApiInv, ApiTypes
  <2> QED BY <1>1, <2>1 DEF ResolveSession
<1>3. at \in Stage /\ at # "wrong"
  BY DEF Stage
<1>4. on \in Account \cup Task \cup {Nobody}
  BY TargetType DEF ApiInv
<1>5. row.disabled = FALSE
  BY <1>2
<1>6. row.shut => row.at = "check" /\ row.who \in closed
  OBVIOUS
<1>7. row \in Req
  <2>1. (at = "check" /\ p \in closed) \in BOOLEAN /\ (p \in Exists /\ ~Active(p)) \in BOOLEAN
    OBVIOUS
  <2> HIDE DEF p, at
  <2> QED BY <1>2, <1>3, <1>4, <2>1 DEF Req
<1>8. row.who = p /\ row.at = at
  OBVIOUS
<1> HIDE DEF row, p, at
<1>9. request' \in [Client -> Req] /\ request'[c] = row /\ \A d \in Client \ {c} : request'[d] = request[d]
  BY <1>1, <1>7 DEF ApiInv, ApiTypes
<1>10. RowOK(request'[c], closed')
  BY <1>1, <1>2, <1>5, <1>6, <1>8, <1>9 DEF RowOK
<1> QED BY <1>1, <1>3, <1>8, <1>9, <1>10, OneRow

\* Enabling an account or resuming a tenant touches the requests of its own.
LEMMA ReadmittingKeeps ==
    ASSUME ApiInv, NEW c \in Client, SetUserStatusRoute(c) \/ ResumeRoute(c)
    PROVE  ApiInv'
<1> USE KeptTypes
<1> DEFINE a == request[c].on
<1>0. /\ request \in [Client -> Req] /\ sessions \in [Client -> Account \cup {Nobody}]
      /\ \A d \in Client : RowOK(request[d], closed)
  BY DEF ApiInv, ApiTypes, RowsOK
<1> HIDE DEF a
<1>1. ASSUME NEW b, AnswerReadmitting(c, b, Enabled) \/ AnswerReadmitting(c, b, Reopened),
             UNCHANGED <<failures, sessions, tasks>>,
             closed' = closed \/ (closed' = closed \ {b} /\ AnswerReadmitting(c, b, Reopened))
      PROVE  ApiInv'
  <2>1. /\ request' \in [Client -> Req]
        /\ request'[c] = Idle
        /\ \A d \in Client \ {c} :
             /\ request'[d].at = request[d].at /\ request'[d].who = request[d].who
             /\ request'[d].disabled => request[d].disabled
             /\ request'[d].shut => request[d].shut
        /\ AnswerReadmitting(c, b, Reopened) =>
             \A d \in Client \ {c} : request[d].who = b => ~request'[d].shut
    BY <1>0, <1>1, ReadmittingEffect
  <2>2. ASSUME NEW d \in Client
        PROVE  RowOK(request'[d], closed')
    <3>1. CASE d = c
      BY <2>1, <3>1, IdleType DEF RowOK
    <3>2. CASE d # c
      <4>1. RowOK(request[d], closed)
        BY <1>0
      <4>2. request'[d].shut => request[d].who \in closed'
        BY <1>1, <2>1, <3>2, <4>1 DEF RowOK
      <4> QED BY <2>1, <3>2, <4>1, <4>2 DEF RowOK
    <3> QED BY <3>1, <3>2
  <2>3. \A d \in Client : request'[d].at = "wrong" => request[d].at = "wrong" /\ request'[d].who = request[d].who
    BY <2>1, IdleType
  <2>4. GuessesCounted'
    BY <1>1, <2>3, NoNewGuess DEF ApiInv
  <2> QED BY <1>1, <2>1, <2>2, <2>4 DEF ApiInv, ApiTypes, RowsOK
<1>2. CASE SetUserStatusRoute(c)
  <2>1. /\ \/ AnswerReadmitting(c, a, Enabled) /\ UNCHANGED sessions
           \/ RevokeUserSessions(a) /\ Answer(c)
        /\ UNCHANGED <<failures, closed, tasks>>
    BY <1>2 DEF SetUserStatusRoute, a
  <2>2. CASE AnswerReadmitting(c, a, Enabled) /\ UNCHANGED sessions
    BY <1>1, <2>1, <2>2
  <2>3. CASE RevokeUserSessions(a) /\ Answer(c)
    <3>1. sessions' \in [Client -> Account \cup {Nobody}]
      BY <1>0, <2>3 DEF RevokeUserSessions
    <3> QED BY <2>1, <2>3, <3>1, AnsweredRow
  <2> QED BY <2>1, <2>2, <2>3
<1>3. CASE ResumeRoute(c)
  <2>1. AnswerReadmitting(c, a, Reopened) /\ closed' = closed \ {a} /\ UNCHANGED <<failures, sessions, tasks>>
    BY <1>3 DEF ResumeRoute, identity, a
  <2> QED BY <1>1, <2>1
<1> QED BY <1>2, <1>3

LEMMA RouteKeeps ==
    ASSUME ApiInv, NEW c \in Client, RouteStep(c)
    PROVE  ApiInv'
<1> USE KeptTypes
<1>0. /\ request \in [Client -> Req] /\ sessions \in [Client -> Account \cup {Nobody}]
      /\ failures \in [Account -> Nat] /\ RowOK(request[c], closed) /\ DOMAIN tasks \subseteq Task
  BY DEF ApiInv, ApiTypes, RowsOK
<1>1. ASSUME NEW change \in Changes, NEW on \in Target(change), Identify(c, change, on)
      PROVE  ApiInv'
  BY <1>1, IdentifyKeeps
<1>2. ASSUME CheckTask(c)
      PROVE  ApiInv'
  <2>1. /\ request[c].at = "check" /\ request[c].who \notin closed
        /\ UNCHANGED <<failures, sessions, closed, tasks>>
        /\ \E at \in {"tenant", "ready"} : MoveOn(c, at)
    BY <1>2 DEF CheckTask, In, AssertTaskAccess, identity
  <2>2. PICK at \in {"tenant", "ready"} : MoveOn(c, at)
    BY <2>1
  <2>3. at \in Stage /\ at # "wrong"
    BY DEF Stage
  <2> QED BY <2>1, <2>2, <2>3, MovedRow
<1>3. ASSUME CheckTenant(c)
      PROVE  ApiInv'
  <2>1. /\ request[c].at \in {"tenant", "check"} /\ request[c].who \notin closed
        /\ UNCHANGED <<failures, sessions, closed, tasks>>
        /\ \E at \in {"limit", "ready"} : MoveOn(c, at)
    BY <1>3 DEF CheckTenant, In, TenantIsActive, identity
  <2>2. PICK at \in {"limit", "ready"} : MoveOn(c, at)
    BY <2>1
  <2>3. at \in Stage /\ at # "wrong"
    BY DEF Stage
  <2> QED BY <2>1, <2>2, <2>3, MovedRow
<1>4. ASSUME EnforceActiveTaskLimit(c)
      PROVE  ApiInv'
  <2>1. request[c].at = "limit" /\ UNCHANGED <<failures, sessions, closed, tasks>> /\ MoveOn(c, "ready")
    BY <1>4 DEF EnforceActiveTaskLimit, In, identity
  <2>2. "ready" \in Stage
    BY DEF Stage
  <2> QED BY <2>1, <2>2, MovedRow
<1>5. ASSUME Refuse(c) \/ HandOver(c)
      PROVE  ApiInv'
  <2>1. Answer(c) /\ UNCHANGED <<failures, sessions, closed, tasks>>
    BY <1>5 DEF Refuse, HandOver, identity
  <2> QED BY <2>1, AnsweredRow
<1>6. ASSUME ChangePassword(c)
      PROVE  ApiInv'
  <2>1. /\ request[c].at = "ready" /\ RevokeUserSessions(request[c].who)
        /\ request' = [request EXCEPT ![c] = SigningIn(request[c].who, "session")]
        /\ UNCHANGED <<failures, closed, tasks>>
    BY <1>6 DEF ChangePassword, In
  <2>2. sessions' \in [Client -> Account \cup {Nobody}]
    BY <1>0, <2>1 DEF RevokeUserSessions
  <2>3. "session" \in Stage \ {"wrong"} /\ request[c].who \in Account
    BY <1>0, <2>1 DEF Stage, RowOK
  <2> QED BY <2>1, <2>2, <2>3, SigningInRow
<1>7. ASSUME CreateTask(c) \/ AuthorizeTask(c) \/ CancelTask(c)
      PROVE  ApiInv'
  <2>1. Answer(c) /\ UNCHANGED <<failures, sessions, closed>>
    BY <1>7 DEF CreateTask, AuthorizeTask, CancelTask, identity
  <2>2. DOMAIN tasks' \subseteq Task
    <3>1. CASE CreateTask(c)
      <4>1. PICK t \in Task \ DOMAIN tasks : tasks' = With(tasks, t, [owner |-> request[c].who, active |-> TRUE])
        BY <3>1 DEF CreateTask
      <4> QED BY <1>0, <4>1 DEF With
    <3>2. CASE AuthorizeTask(c) \/ CancelTask(c)
      BY <1>0, <3>2 DEF AuthorizeTask, CancelTask
    <3> QED BY <1>7, <3>1, <3>2
  <2> QED BY <2>1, <2>2, AnsweredRow
<1>8. ASSUME CreateUserRoute(c)
      PROVE  ApiInv'
  <2>1. Answer(c) /\ UNCHANGED <<failures, sessions, closed, tasks>>
    BY <1>8 DEF CreateUserRoute
  <2> QED BY <2>1, AnsweredRow
<1>9. ASSUME SuspendRoute(c)
      PROVE  ApiInv'
  <2>1. Answer(c) /\ UNCHANGED <<failures, sessions, tasks>> /\ closed \subseteq closed'
    BY <1>9 DEF SuspendRoute, identity
  <2> QED BY <2>1, AnsweredRow
<1> QED
  BY <1>1, <1>2, <1>3, <1>4, <1>5, <1>6, <1>7, <1>8, <1>9, ReadmittingKeeps DEF RouteStep

\* The inductive invariant of the server.
THEOREM RequestsAreSound == ApiSpec => []ApiInv
<1>1. ApiInit => ApiInv
  <2> SUFFICES ASSUME ApiInit
               PROVE  ApiInv
    OBVIOUS
  <2>1. ApiTypes
    BY IdleType DEF ApiInit, ApiTypes
  <2>2. RowsOK
    BY IdleType DEF ApiInit, RowsOK, RowOK
  <2>3. ASSUME NEW a \in Account
        PROVE  failures[a] + Cardinality(Guessing(a)) <= LOCKOUT_THRESHOLD + Cardinality(Client) - 1
    <3>1. Guessing(a) = {} /\ Guessing(a) \subseteq Client /\ failures[a] = 0
      BY IdleType DEF ApiInit, Guessing, In
    <3>2. Cardinality(Guessing(a)) = 0 /\ Cardinality(Client) \in Nat
      BY <3>1, FS_EmptySet, GuessingFinite
    <3>3. LOCKOUT_THRESHOLD \in Nat /\ LOCKOUT_THRESHOLD >= 1
      BY ApiAssumption DEF ApiAssumption
    <3> QED BY <3>1, <3>2, <3>3
  <2> QED BY <2>1, <2>2, <2>3 DEF ApiInv, GuessesCounted
<1>2. ApiInv /\ [ApiNext]_apiVars => ApiInv'
  <2> SUFFICES ASSUME ApiInv, [ApiNext]_apiVars
               PROVE  ApiInv'
    OBVIOUS
  <2>1. ASSUME NEW a \in Account, FailureForgotten(a)
        PROVE  ApiInv'
    <3>1. /\ failures[a] > 0 /\ failures' = [failures EXCEPT ![a] = failures[a] - 1]
          /\ UNCHANGED <<sessions, closed, tasks, request>>
      BY <2>1 DEF FailureForgotten
    <3>2. failures \in [Account -> Nat]
      BY DEF ApiInv, ApiTypes
    <3>3. failures' \in [Account -> Nat] /\ \A b \in Account : failures'[b] <= failures[b]
      BY <3>1, <3>2
    <3> QED BY <3>1, <3>3, KeptTypes, NoRow
  <2>2. ASSUME Restart
        PROVE  ApiInv'
    <3>1. /\ failures' = [a \in Account |-> 0] /\ request' = [c \in Client |-> Idle]
          /\ UNCHANGED <<sessions, closed, tasks>>
      BY <2>2 DEF Restart
    <3>2. failures' \in [Account -> Nat] /\ \A b \in Account : failures'[b] <= failures[b]
      BY <3>1 DEF ApiInv, ApiTypes
    <3>3. RowsOK' /\ \A d \in Client : request'[d].at # "wrong"
      BY <3>1, IdleType DEF RowsOK, RowOK
    <3>4. GuessesCounted'
      BY <3>2, <3>3, NoNewGuess DEF ApiInv
    <3>5. ApiTypes'
      BY <3>1, <3>2, KeptTypes, IdleType DEF ApiTypes
    <3> QED BY <3>3, <3>4, <3>5 DEF ApiInv
  <2>3. CASE UNCHANGED apiVars
    <3>1. UNCHANGED <<failures, sessions, closed, tasks, request>>
      BY <2>3 DEF apiVars, identity
    <3> QED BY <3>1, KeptTypes, NoRow
  <2> QED BY <2>1, <2>2, <2>3, SignInKeeps, RouteKeeps DEF ApiNext
<1> QED BY <1>1, <1>2, PTL DEF ApiSpec

\* However many sign-ins run side by side, an account gets no more wrong ones in
\* a row, within the window and one run of the server, than the threshold and the
\* requests that may be under way; a right one starts the row again.
THEOREM WrongSignInsAreBounded == ApiSpec => []WrongInARowBounded
<1>1. ApiInv => WrongInARowBounded
  <2> SUFFICES ASSUME ApiInv, NEW a \in Account
               PROVE  failures[a] <= LOCKOUT_THRESHOLD + Cardinality(Client) - 1
    BY DEF WrongInARowBounded
  <2>1. Guessing(a) \subseteq Client
    BY DEF Guessing
  <2>2. Cardinality(Guessing(a)) \in Nat /\ Cardinality(Client) \in Nat
    BY <2>1, GuessingFinite
  <2>3. failures[a] + Cardinality(Guessing(a)) <= LOCKOUT_THRESHOLD + Cardinality(Client) - 1
    BY DEF ApiInv, GuessesCounted
  <2>4. failures[a] \in Nat /\ LOCKOUT_THRESHOLD \in Nat
    BY ApiAssumption DEF ApiAssumption, ApiInv, ApiTypes
  <2> QED BY <2>2, <2>3, <2>4
<1> QED BY <1>1, RequestsAreSound, PTL

\* A request that came while its account was disabled, or its tenant suspended,
\* does not get as far as its change, whatever runs between its checks.
THEOREM ShutOutStaysOut == ApiSpec => []ShutOutGetsNothing
<1>1. ApiInv => ShutOutGetsNothing
  BY DEF ApiInv, RowsOK, RowOK, ShutOutGetsNothing, In
<1> QED BY <1>1, RequestsAreSound, PTL
=============================================================================
