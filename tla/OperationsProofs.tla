-------------------------- MODULE OperationsProofs --------------------------
(***************************************************************************)
(* Theorems about the 24/7 operations control, for any number of people,   *)
(* agents, models, processes, tasks and requests: the admin control center *)
(* of AdminOps, and the supervised systems of OpsControl.  The modules     *)
(* share no variable; each theorem is of one of them.                      *)
(***************************************************************************)
EXTENDS OpsControl, AdminOps, FiniteSetTheorems, SequenceTheorems,
        WellFoundedInduction, TLAPS

-----------------------------------------------------------------------------
(* Requests in the order they were filed                                    *)

\* A set of numbers has a least one.
LEMMA LeastNat ==
    ASSUME NEW T, T \subseteq Nat, T # {}
    PROVE  \E x \in T : \A y \in T : x <= y
<1>1. PICK x \in T : \A y \in T : ~(<<y, x>> \in OpToRel(<, Nat))
  BY WFMin, NatLessThanWellFounded
<1>2. ASSUME NEW y \in T
      PROVE  x <= y
  <2>1. x \in Nat /\ y \in Nat
    OBVIOUS
  <2>2. ~(y < x)
    BY <1>1, <2>1 DEF OpToRel
  <2> QED BY <2>1, <2>2
<1> QED BY <1>2

\* The member of a set that n others come before.
Below(S, r) == {s \in S : s < r}

LEMMA NthExists ==
    ASSUME NEW S, S \subseteq Nat, IsFiniteSet(S), NEW n \in Nat, n < Cardinality(S)
    PROVE  \E r \in S : Cardinality(Below(S, r)) = n
<1> DEFINE Missing == {i \in Nat : i < Cardinality(S) /\ \A r \in S : Cardinality(Below(S, r)) # i}
<1>0. Cardinality(S) \in Nat
  BY FS_CardinalityType
<1>1. SUFFICES ASSUME Missing # {}
               PROVE  FALSE
  OBVIOUS
<1>2. PICK i \in Missing : \A j \in Missing : i <= j
  BY <1>1, LeastNat
<1>3. i \in Nat /\ i < Cardinality(S) /\ \A r \in S : Cardinality(Below(S, r)) # i
  BY <1>2
<1>4. CASE i = 0
  <2>1. S # {}
    BY <1>0, <1>3, FS_EmptySet
  <2>2. PICK r \in S : \A s \in S : r <= s
    BY <2>1, LeastNat
  <2>3. Below(S, r) = {}
    <3>1. \A s \in S : s \in Nat /\ r \in Nat /\ r <= s
      BY <2>2
    <3>2. \A s \in S : ~(s < r)
      BY <3>1
    <3> QED BY <3>2 DEF Below
  <2> QED BY <1>3, <1>4, <2>3, FS_EmptySet
<1>5. CASE i # 0
  <2>1. i - 1 \in Nat /\ i - 1 < Cardinality(S) /\ i - 1 \notin Missing
    BY <1>0, <1>2, <1>3, <1>5
  <2>2. PICK q \in S : Cardinality(Below(S, q)) = i - 1
    BY <2>1
  <2> DEFINE Up == Below(S, q) \cup {q}
             Rest == {s \in S : s > q}
  <2>3. Up \subseteq S /\ q \notin Below(S, q) /\ IsFiniteSet(Below(S, q))
    <3>1. Below(S, q) \subseteq S /\ q \notin Below(S, q)
      BY DEF Below
    <3> QED BY <3>1, FS_Subset
  <2>4. Cardinality(Up) = i
    <3>1. Cardinality(Up) = Cardinality(Below(S, q)) + 1
      BY <2>3, FS_AddElement
    <3> QED BY <1>3, <2>2, <3>1
  <2>5. Rest # {}
    <3>1. SUFFICES ASSUME Rest = {}
                   PROVE  FALSE
      OBVIOUS
    <3>2. \A s \in S : s \in Nat /\ ~(s > q)
      BY <3>1
    <3>3. \A s \in S : s < q \/ s = q
      BY <3>2
    <3>4. S = Up
      BY <2>3, <3>3 DEF Below
    <3> QED BY <1>0, <1>3, <2>4, <3>4
  <2>6. PICK r \in Rest : \A s \in Rest : r <= s
    BY <2>5, LeastNat
  <2>7. Below(S, r) = Up
    <3>1. r \in S /\ r > q /\ q \in Nat /\ r \in Nat
      BY <2>6
    <3>2. ASSUME NEW s \in S
          PROVE  s < r <=> s \in Up
      <4>1. s \in Nat
        OBVIOUS
      <4>2. s < r <=> ~(s > q)
        BY <2>6, <3>1, <4>1
      <4>3. ~(s > q) <=> s < q \/ s = q
        BY <3>1, <4>1
      <4> QED BY <4>2, <4>3 DEF Below
    <3> QED BY <2>3, <3>2 DEF Below
  <2> QED BY <1>3, <2>4, <2>6, <2>7
<1> QED BY <1>4, <1>5

\* The last of a set has all the others before it.
LEMMA LastIsGreatest ==
    ASSUME NEW S, S \subseteq Nat, IsFiniteSet(S), NEW r \in S,
           Cardinality(Below(S, r)) = Cardinality(S) - 1
    PROVE  \A s \in S : s <= r
<1> SUFFICES ASSUME NEW s \in S, ~(s <= r)
             PROVE  FALSE
  OBVIOUS
<1>1. Below(S, r) \subseteq (S \ {r}) \ {s} /\ s \in S \ {r}
  BY DEF Below
<1>2. IsFiniteSet(S \ {r}) /\ Cardinality(S \ {r}) = Cardinality(S) - 1 /\ Cardinality(S) \in Nat
  BY FS_RemoveElement, FS_CardinalityType
<1>3. /\ IsFiniteSet((S \ {r}) \ {s}) /\ Cardinality((S \ {r}) \ {s}) = Cardinality(S) - 1 - 1
  BY <1>1, <1>2, FS_RemoveElement
<1>4. Cardinality(Below(S, r)) <= Cardinality(S) - 1 - 1
  BY <1>1, <1>3, FS_Subset
<1> QED BY <1>2, <1>4

-----------------------------------------------------------------------------
(* The admin control center: models and their tests                         *)

\* What is proved of them: a test the gateway runs is answered by the model it
\* is of.
TestInv ==
    /\ test \in [Tester -> [of : Model \cup {"none"}, by : Model \cup {"none"}]]
    /\ test["gateway"].of = test["gateway"].by
    /\ slot \in Model
    /\ passed \in [Model -> [Tester -> SUBSET Model]]
    /\ TestsNameTheirModel

LEMMA TestStep == TestInv /\ [AdminNext]_adminVars => TestInv'
<1> SUFFICES ASSUME TestInv, [AdminNext]_adminVars
             PROVE  TestInv'
  OBVIOUS
<1>0. /\ test \in [Tester -> [of : Model \cup {"none"}, by : Model \cup {"none"}]]
      /\ test["gateway"].of = test["gateway"].by /\ slot \in Model
      /\ passed \in [Model -> [Tester -> SUBSET Model]]
      /\ \A m \in Model : passed[m]["gateway"] \subseteq {m}
      /\ Tester = {"gateway", "builder"}
      /\ NoTest \in [of : Model \cup {"none"}, by : Model \cup {"none"}] /\ NoTest.of = NoTest.by
  BY DEF TestInv, TestsNameTheirModel, Tester, NoTest
<1>1. CASE UNCHANGED models
  BY <1>0, <1>1 DEF TestInv, TestsNameTheirModel, models
<1>2. CASE AssignModel
  BY <1>0, <1>2 DEF AssignModel, TestInv, TestsNameTheirModel
<1>3. ASSUME NEW t \in Tester, StartTest(t)
      PROVE  TestInv'
  <2> DEFINE row == [of |-> slot, by |-> IF t = "gateway" THEN slot ELSE "none"]
  <2>1. test' = [test EXCEPT ![t] = row] /\ UNCHANGED <<slot, passed>>
    BY <1>3 DEF StartTest
  <2>2. row \in [of : Model \cup {"none"}, by : Model \cup {"none"}] /\ (t = "gateway" => row.of = row.by)
    BY <1>0
  <2> HIDE DEF row
  <2> QED BY <1>0, <2>1, <2>2 DEF TestInv, TestsNameTheirModel
<1>4. CASE AcceptanceIsAnswered
  BY <1>0, <1>4 DEF AcceptanceIsAnswered, TestInv, TestsNameTheirModel
<1>5. ASSUME NEW t \in Tester, TestIsLost(t)
      PROVE  TestInv'
  BY <1>0, <1>5 DEF TestIsLost, TestInv, TestsNameTheirModel
<1>6. ASSUME NEW t \in Tester, RecordTest(t)
      PROVE  TestInv'
  <2> DEFINE of == test[t].of
             by == test[t].by
  <2>1. /\ by \in Model /\ test' = [test EXCEPT ![t] = NoTest] /\ UNCHANGED slot
        /\ passed' = [passed EXCEPT ![of] = [passed[of] EXCEPT ![t] = passed[of][t] \cup {by}]]
    BY <1>6 DEF RecordTest, Tested
  <2>2. t = "gateway" => of = by
    BY <1>0
  <2> HIDE DEF of, by
  <2>3. ASSUME NEW m \in Model
        PROVE  passed'[m] \in [Tester -> SUBSET Model] /\ passed'[m]["gateway"] \subseteq {m}
    BY <1>0, <2>1, <2>2
  <2>4. passed' \in [Model -> [Tester -> SUBSET Model]]
    BY <1>0, <2>1, <2>3
  <2>5. /\ test' \in [Tester -> [of : Model \cup {"none"}, by : Model \cup {"none"}]]
        /\ test'["gateway"].of = test'["gateway"].by
    BY <1>0, <2>1
  <2> QED BY <1>0, <2>1, <2>3, <2>4, <2>5 DEF TestInv, TestsNameTheirModel
<1>7. AskingNext \/ TickNext => UNCHANGED models
  BY DEF AskingNext, TickNext, ReadHalt, ReadModes, AgentControlRoute, GpuRoute, EmergencyRoute, TimePasses, CreateApproval, OpenDecision,
         Decide, AskApproved, BeginTick, EndTick, RestartServer, Report, BeatAges, Accept, CarryOut, GatewayDies
<1> QED BY <1>1, <1>2, <1>3, <1>4, <1>5, <1>6, <1>7 DEF AdminNext, ModelNext, adminVars, models

\* A health check the gateway recorded for a model was answered by that model,
\* however often the slot is given another one meanwhile.
THEOREM HealthChecksNameTheirModel == AdminSpec => []TestsNameTheirModel
<1>1. AdminInit => TestInv
  BY DEF AdminInit, TestInv, TestsNameTheirModel, NoTest, Tester
<1>2. TestInv => TestsNameTheirModel
  BY DEF TestInv
<1> QED BY <1>1, <1>2, TestStep, PTL DEF AdminSpec

-----------------------------------------------------------------------------
(* The admin control center: controls and approvals                         *)

CtlRow ==
    [target : Agent \cup {"gateway"}, action : AgentAction \cup GatewayAction, from : Nat,
     status : {"requested", "accepted", "expired", "completed", "failed"}, old : BOOLEAN]

CoordTick ==
    [pc : {"idle", "emergency", "modes", "advance"}, skip : SUBSET Agent, knew : SUBSET Nat]

CtlTypes ==
    /\ ctl \in Seq(CtlRow)
    /\ agentMode \in [Agent -> {"running", "paused"}]
    /\ approval \in [Approval -> {"none", "pending", "approved", "denied"}]
    /\ admin \in [Admin -> [pc : {"idle", "decide", "ask"}, of : Nat]]
    /\ \A a \in Admin : admin[a].pc # "idle" => admin[a].of \in Approval
    /\ coord \in [Coordinator -> CoordTick]
    /\ inbox \subseteq DOMAIN ctl
    /\ \A r \in inbox : ctl[r].target = "gateway"

\* The record of a request stays what it was, but for its status and age.
RowsStay ==
    /\ ctl' \in Seq(CtlRow) /\ DOMAIN ctl' = DOMAIN ctl
    /\ \A r \in DOMAIN ctl : /\ ctl'[r].target = ctl[r].target /\ ctl'[r].action = ctl[r].action
                             /\ ctl'[r].from = ctl[r].from
\* One more is recorded.
RowAdded(target, action, from) ==
    /\ ctl' \in Seq(CtlRow)
    /\ DOMAIN ctl' = DOMAIN ctl \cup {Len(ctl) + 1} /\ Len(ctl) + 1 \notin DOMAIN ctl
    /\ \A r \in DOMAIN ctl : ctl'[r] = ctl[r] /\ r < Len(ctl) + 1
    /\ ctl'[Len(ctl) + 1] = [target |-> target, action |-> action, from |-> from,
                             status |-> "requested", old |-> FALSE]

LEMMA RecordEffect ==
    ASSUME ctl \in Seq(CtlRow), NEW target \in Agent \cup {"gateway"},
           NEW action \in AgentAction \cup GatewayAction, NEW from \in Nat, Record(target, action, from)
    PROVE  RowAdded(target, action, from)
<1> DEFINE row == [target |-> target, action |-> action, from |-> from, status |-> "requested", old |-> FALSE]
<1>1. row \in CtlRow /\ ctl' = Append(ctl, row)
  BY DEF Record, CtlRow
<1> SUFFICES /\ ctl' \in Seq(CtlRow)
             /\ DOMAIN ctl' = DOMAIN ctl \cup {Len(ctl) + 1} /\ Len(ctl) + 1 \notin DOMAIN ctl
             /\ \A r \in DOMAIN ctl : ctl'[r] = ctl[r] /\ r < Len(ctl) + 1
             /\ ctl'[Len(ctl) + 1] = row
  BY DEF RowAdded
<1> HIDE DEF row
<1> QED BY <1>1

\* An element of a sequence has its type, and its place is a number.
LEMMA ElementType ==
    ASSUME NEW T, NEW s \in Seq(T), NEW i \in DOMAIN s
    PROVE  s[i] \in T /\ i \in Nat /\ i # 0 /\ i \in 1..Len(s)
OBVIOUS

\* A sequence with each element changed is one as long.
LEMMA MappedSeq ==
    ASSUME NEW T, NEW s \in Seq(T), NEW f, f = [i \in DOMAIN s |-> f[i]], \A i \in DOMAIN s : f[i] \in T
    PROVE  f \in Seq(T) /\ DOMAIN f = DOMAIN s /\ Len(f) = Len(s)
OBVIOUS

LEMMA StatusRow ==
    ASSUME NEW r \in CtlRow, NEW status \in {"requested", "accepted", "expired", "completed", "failed"}
    PROVE  /\ [r EXCEPT !.status = status] \in CtlRow /\ [r EXCEPT !.status = status].status = status
           /\ [r EXCEPT !.status = status].target = r.target /\ [r EXCEPT !.status = status].action = r.action
           /\ [r EXCEPT !.status = status].from = r.from
BY DEF CtlRow

\* What was asked of a target is a finite set of numbers, and so is every part of it.
LEMMA FinitelyMany ==
    ASSUME ctl \in Seq(CtlRow), NEW S \in SUBSET (DOMAIN ctl)
    PROVE  S \subseteq Nat /\ IsFiniteSet(S) /\ Cardinality(S) \in Nat
<1>1. DOMAIN ctl = 1..Len(ctl) /\ Len(ctl) \in Nat
  OBVIOUS
<1>2. IsFiniteSet(1..Len(ctl))
  BY <1>1, FS_Interval
<1> QED BY <1>1, <1>2, FS_Subset, FS_CardinalityType

\* Nothing changes about what was asked of an agent.
AgentsAsBefore ==
    /\ RowsStay /\ UNCHANGED agentMode
    /\ \A r \in DOMAIN ctl : ctl[r].target \in Agent => ctl'[r].status = ctl[r].status
    /\ \A c \in Coordinator : coord'[c] = coord[c] \/ coord'[c].pc # "advance"

\* What the coordinator's tick does to what was asked of agents.
TickAnswers(c) ==
    /\ RowsStay
    /\ \A r \in DOMAIN ctl :
          ctl'[r].status = IF ctl[r].status = "requested" /\ ctl[r].target \in Agent
                           THEN IF ctl[r].old THEN "expired" ELSE "completed" ELSE ctl[r].status
    /\ \A agent \in Agent : agentMode'[agent] = Applied(agent)
    /\ \A d \in Coordinator \ {c} : coord'[d] = coord[d]
    /\ coord'[c].pc # "advance"

\* What it goes by for the rest of the tick.
ModesAreRead(c) ==
    /\ UNCHANGED <<ctl, agentMode>> /\ RowsStay
    /\ \A d \in Coordinator \ {c} : coord'[d] = coord[d]
    /\ coord'[c].skip = {agent \in Agent : agentMode[agent] = "paused"}
    /\ coord'[c].knew = {r \in DOMAIN ctl : ctl[r].status = "completed"}

LEMMA BeginTickEffect ==
    ASSUME CtlTypes, NEW c \in Coordinator, BeginTick(c)
    PROVE  CtlTypes' /\ TickAnswers(c)
<1>0. /\ ctl \in Seq(CtlRow) /\ agentMode \in [Agent -> {"running", "paused"}]
      /\ coord \in [Coordinator -> CoordTick]
  BY DEF CtlTypes
<1> DEFINE status(r) == IF ctl[r].old THEN "expired" ELSE "completed"
           row(r) == IF \E agent \in Agent : r \in AskedOf(agent)
                     THEN [ctl[r] EXCEPT !.status = status(r)] ELSE ctl[r]
<1>1. ctl' = [r \in DOMAIN ctl |-> row(r)]
  BY DEF BeginTick
<1>2. ASSUME NEW r \in DOMAIN ctl
      PROVE  /\ row(r) \in CtlRow
             /\ row(r).target = ctl[r].target /\ row(r).action = ctl[r].action /\ row(r).from = ctl[r].from
             /\ row(r).status = IF ctl[r].status = "requested" /\ ctl[r].target \in Agent
                                THEN status(r) ELSE ctl[r].status
  <2>1. ctl[r] \in CtlRow
    BY <1>0, ElementType
  <2>2. (\E agent \in Agent : r \in AskedOf(agent)) <=> ctl[r].status = "requested" /\ ctl[r].target \in Agent
    BY DEF AskedOf
  <2>3. status(r) \in {"requested", "accepted", "expired", "completed", "failed"}
    OBVIOUS
  <2> HIDE DEF status
  <2>4. CASE ctl[r].status = "requested" /\ ctl[r].target \in Agent
    <3>1. row(r) = [ctl[r] EXCEPT !.status = status(r)]
      BY <2>2, <2>4
    <3> HIDE DEF row
    <3> DEFINE s == status(r)
    <3>2. s \in {"requested", "accepted", "expired", "completed", "failed"} /\ s = status(r)
      BY <2>3
    <3> HIDE DEF s
    <3>3. /\ [ctl[r] EXCEPT !.status = s] \in CtlRow /\ [ctl[r] EXCEPT !.status = s].status = s
          /\ [ctl[r] EXCEPT !.status = s].target = ctl[r].target
          /\ [ctl[r] EXCEPT !.status = s].action = ctl[r].action
          /\ [ctl[r] EXCEPT !.status = s].from = ctl[r].from
      BY ZenonT(60), <2>1, <3>2, StatusRow
    <3> QED BY <2>4, <3>1, <3>2, <3>3
  <2>5. CASE ~(ctl[r].status = "requested" /\ ctl[r].target \in Agent)
    BY <2>1, <2>2, <2>5
  <2> QED BY <2>4, <2>5
<1>3. ctl' = [r \in DOMAIN ctl |-> ctl'[r]] /\ \A r \in DOMAIN ctl : ctl'[r] = row(r)
  BY <1>1
<1> HIDE DEF row
<1>4. ctl' \in Seq(CtlRow) /\ DOMAIN ctl' = DOMAIN ctl
  <2>1. \A r \in DOMAIN ctl : ctl'[r] \in CtlRow
    BY <1>2, <1>3
  <2> QED BY <1>0, <1>3, <2>1, MappedSeq
<1>5. RowsStay
  BY <1>2, <1>3, <1>4 DEF RowsStay
<1>6. /\ agentMode' \in [Agent -> {"running", "paused"}]
      /\ \A agent \in Agent : agentMode'[agent] = Applied(agent)
  <2>1. agentMode' = [agent \in Agent |-> Applied(agent)]
    BY DEF BeginTick
  <2>2. \A agent \in Agent : Applied(agent) \in {"running", "paused"}
    BY <1>0 DEF Applied, ModeFor
  <2> QED BY <2>1, <2>2
<1>7. /\ coord' \in [Coordinator -> CoordTick]
      /\ coord'[c].pc # "advance"
      /\ \A d \in Coordinator \ {c} : coord'[d] = coord[d]
  <2>1. coord' = [coord EXCEPT ![c].pc = "emergency"]
    BY DEF BeginTick
  <2> QED BY <1>0, <2>1 DEF CoordTick
<1>8. \A r \in inbox : ctl'[r].target = "gateway"
  BY <1>5 DEF CtlTypes, RowsStay
<1>9. UNCHANGED <<approval, admin, inbox>>
  BY DEF BeginTick, people, gateway
<1>10. CtlTypes'
  BY <1>4, <1>6, <1>7, <1>8, <1>9 DEF CtlTypes
<1>11. TickAnswers(c)
  BY <1>2, <1>3, <1>5, <1>6, <1>7 DEF TickAnswers
<1> QED BY <1>10, <1>11

LEMMA AcceptEffect ==
    ASSUME CtlTypes, Accept
    PROVE  CtlTypes' /\ AgentsAsBefore
<1>0. ctl \in Seq(CtlRow) /\ "gateway" \notin Agent
  BY AdminAssumption DEF CtlTypes, AdminAssumption
<1> DEFINE status(r) == IF ctl[r].old THEN "expired" ELSE "accepted"
           row(r) == IF r \in AskedOf("gateway") THEN [ctl[r] EXCEPT !.status = status(r)] ELSE ctl[r]
<1>1. /\ ctl' = [r \in DOMAIN ctl |-> row(r)]
      /\ inbox' = Live("gateway")
      /\ UNCHANGED <<agentMode, approval, admin, coord>>
  BY DEF Accept, people, Live
<1>2. ASSUME NEW r \in DOMAIN ctl
      PROVE  /\ row(r) \in CtlRow
             /\ row(r).target = ctl[r].target /\ row(r).action = ctl[r].action /\ row(r).from = ctl[r].from
             /\ ctl[r].target \in Agent => row(r).status = ctl[r].status
  <2>1. ctl[r] \in CtlRow
    BY <1>0, ElementType
  <2>2. status(r) \in {"requested", "accepted", "expired", "completed", "failed"}
    OBVIOUS
  <2> HIDE DEF status
  <2>3. CASE r \in AskedOf("gateway")
    <3>1. ctl[r].target = "gateway"
      BY <2>3 DEF AskedOf
    <3> QED BY <1>0, <2>1, <2>2, <2>3, <3>1, StatusRow
  <2>4. CASE r \notin AskedOf("gateway")
    BY <2>1, <2>4
  <2> QED BY <2>3, <2>4
<1>3. ctl' = [r \in DOMAIN ctl |-> ctl'[r]] /\ \A r \in DOMAIN ctl : ctl'[r] = row(r)
  BY <1>1
<1> HIDE DEF row
<1>4. ctl' \in Seq(CtlRow) /\ DOMAIN ctl' = DOMAIN ctl
  <2>1. \A r \in DOMAIN ctl : ctl'[r] \in CtlRow
    BY <1>2, <1>3
  <2> QED BY <1>0, <1>3, <2>1, MappedSeq
<1>5. RowsStay
  BY <1>2, <1>3, <1>4 DEF RowsStay
<1>6. inbox' \subseteq DOMAIN ctl /\ \A r \in inbox' : ctl[r].target = "gateway"
  BY <1>1 DEF AskedOf, Live
<1> QED BY <1>1, <1>2, <1>3, <1>4, <1>5, <1>6 DEF CtlTypes, AgentsAsBefore, RowsStay

\* Everything that leaves the records alone.
LEMMA OtherEffect ==
    ASSUME CtlTypes, UNCHANGED <<ctl, agentMode>>, inbox' \subseteq inbox,
           approval' \in [Approval -> {"none", "pending", "approved", "denied"}],
           admin' \in [Admin -> [pc : {"idle", "decide", "ask"}, of : Nat]],
           \A a \in Admin : admin'[a].pc # "idle" => admin'[a].of \in Approval,
           coord' \in [Coordinator -> CoordTick],
           \A c \in Coordinator : coord'[c] = coord[c] \/ coord'[c].pc # "advance"
    PROVE  CtlTypes' /\ AgentsAsBefore
BY DEF CtlTypes, AgentsAsBefore, RowsStay

LEMMA CarryOutEffect ==
    ASSUME CtlTypes, CarryOut
    PROVE  CtlTypes' /\ AgentsAsBefore
<1>0. /\ ctl \in Seq(CtlRow) /\ inbox \subseteq DOMAIN ctl /\ "gateway" \notin Agent
      /\ \A r \in inbox : ctl[r].target = "gateway"
  BY AdminAssumption DEF CtlTypes, AdminAssumption
<1> DEFINE r == OldestFirst(inbox)[1]
<1>1. r \in inbox
  <2>1. inbox \subseteq Nat /\ IsFiniteSet(inbox) /\ Cardinality(inbox) \in Nat /\ inbox # {}
    BY <1>0, FinitelyMany DEF CarryOut
  <2>2. 0 < Cardinality(inbox)
    BY <2>1, FS_EmptySet
  <2>3. \E q \in inbox : Cardinality(Below(inbox, q)) = 0
    BY <2>1, <2>2, NthExists
  <2>4. 1 \in 1..Cardinality(inbox) /\ 1 - 1 = 0
    BY <2>1, <2>2
  <2>5. OldestFirst(inbox)[1] = CHOOSE q \in inbox : Cardinality({s \in inbox : s < q}) = 1 - 1
    BY <2>4 DEF OldestFirst
  <2> QED BY <2>3, <2>4, <2>5 DEF Below
<1>2. PICK status \in {"completed", "failed"} : ctl' = [ctl EXCEPT ![r].status = status]
  BY DEF CarryOut
<1>3. inbox' = inbox \ {r} /\ UNCHANGED <<agentMode, approval, admin, coord>>
  BY DEF CarryOut, people
<1> HIDE DEF r
<1> DEFINE row == [ctl[r] EXCEPT !.status = status]
<1>4. ctl' = [ctl EXCEPT ![r] = row]
  BY <1>2
<1>5. /\ row \in CtlRow /\ row.target = ctl[r].target /\ row.action = ctl[r].action /\ row.from = ctl[r].from
      /\ ctl[r].target = "gateway"
  <2>1. ctl[r] \in CtlRow
    BY <1>0, <1>1, ElementType
  <2>2. status \in {"requested", "accepted", "expired", "completed", "failed"}
    OBVIOUS
  <2>3. /\ [ctl[r] EXCEPT !.status = status] \in CtlRow
        /\ [ctl[r] EXCEPT !.status = status].target = ctl[r].target
        /\ [ctl[r] EXCEPT !.status = status].action = ctl[r].action
        /\ [ctl[r] EXCEPT !.status = status].from = ctl[r].from
    BY <2>1, <2>2, StatusRow
  <2> QED BY <1>0, <1>1, <2>3
<1> HIDE DEF row
<1>6. ctl' \in Seq(CtlRow) /\ DOMAIN ctl' = DOMAIN ctl /\ ctl'[r] = row /\ \A q \in DOMAIN ctl \ {r} : ctl'[q] = ctl[q]
  BY <1>0, <1>1, <1>4, <1>5
<1>7. RowsStay
  BY <1>5, <1>6 DEF RowsStay
<1>8. /\ inbox' \subseteq DOMAIN ctl' /\ \A q \in inbox' : ctl'[q].target = "gateway"
  BY <1>0, <1>3, <1>6
<1> QED BY <1>0, <1>3, <1>5, <1>6, <1>7, <1>8 DEF CtlTypes, AgentsAsBefore

\* Time passes for one request.
LEMMA TimePassesEffect ==
    ASSUME CtlTypes, TimePasses
    PROVE  CtlTypes' /\ AgentsAsBefore
<1>0. ctl \in Seq(CtlRow) /\ inbox \subseteq DOMAIN ctl /\ \A q \in inbox : ctl[q].target = "gateway"
  BY DEF CtlTypes
<1>1. PICK r \in DOMAIN ctl : ctl' = [ctl EXCEPT ![r].old = TRUE]
  BY DEF TimePasses
<1> DEFINE row == [ctl[r] EXCEPT !.old = TRUE]
<1>2. ctl' = [ctl EXCEPT ![r] = row] /\ UNCHANGED <<agentMode, approval, admin, inbox, coord>>
  BY <1>1 DEF TimePasses, people, gateway
<1>3. /\ row \in CtlRow /\ row.target = ctl[r].target /\ row.action = ctl[r].action /\ row.from = ctl[r].from
      /\ row.status = ctl[r].status
  <2>1. ctl[r] \in CtlRow
    BY <1>0, ElementType
  <2> QED BY <2>1 DEF CtlRow
<1> HIDE DEF row
<1>4. ctl' \in Seq(CtlRow) /\ DOMAIN ctl' = DOMAIN ctl /\ ctl'[r] = row /\ \A q \in DOMAIN ctl \ {r} : ctl'[q] = ctl[q]
  BY <1>0, <1>2, <1>3
<1> QED BY <1>0, <1>2, <1>3, <1>4 DEF CtlTypes, AgentsAsBefore, RowsStay

\* A request is recorded, and nothing else about agents changes.
Recorded(from) ==
    /\ \E target \in Agent \cup {"gateway"}, action \in AgentAction \cup GatewayAction :
           RowAdded(target, action, from)
    /\ UNCHANGED <<agentMode, coord, inbox>>

LEMMA RecordedTypes ==
    ASSUME CtlTypes, NEW from \in Nat, Recorded(from),
           approval' \in [Approval -> {"none", "pending", "approved", "denied"}],
           admin' \in [Admin -> [pc : {"idle", "decide", "ask"}, of : Nat]],
           \A a \in Admin : admin'[a].pc # "idle" => admin'[a].of \in Approval
    PROVE  CtlTypes'
<1>1. PICK target \in Agent \cup {"gateway"}, action \in AgentAction \cup GatewayAction : RowAdded(target, action, from)
  BY DEF Recorded
<1> QED BY <1>1 DEF CtlTypes, RowAdded, Recorded

\* What a person decides about one approval.
Deciding(a) == /\ admin[a].pc = "decide" /\ approval[admin[a].of] = "pending"
               /\ \E decision \in {"approved", "denied"} :
                      /\ approval' = [approval EXCEPT ![admin[a].of] = decision]
                      /\ admin' = [admin EXCEPT ![a] = IF decision = "approved"
                                                       THEN [pc |-> "ask", of |-> admin[a].of] ELSE Ready]
Asking(a) == /\ admin[a].pc = "ask" /\ Recorded(admin[a].of)
             /\ UNCHANGED approval /\ admin' = [admin EXCEPT ![a] = Ready]

\* Nobody decides anything and nothing that was decided is forgotten.
NothingDecided ==
    /\ \A i \in Approval : approval'[i] = approval[i] \/ (approval[i] = "none" /\ approval'[i] = "pending")
    /\ \A a \in Admin : admin'[a] = admin[a] \/ admin'[a].pc # "ask"

ControlStepKinds ==
    \/ AgentsAsBefore /\ NothingDecided
    \/ AgentsAsBefore /\ \E a \in Admin : Deciding(a)
    \/ Recorded(Nothing) /\ NothingDecided
    \/ \E a \in Admin : Asking(a)
    \/ \E c \in Coordinator : TickAnswers(c) /\ NothingDecided
    \/ \E c \in Coordinator : ModesAreRead(c) /\ NothingDecided

LEMMA ControlStep == CtlTypes /\ [AdminNext]_adminVars => CtlTypes' /\ ControlStepKinds
<1> SUFFICES ASSUME CtlTypes, [AdminNext]_adminVars
             PROVE  CtlTypes' /\ ControlStepKinds
  OBVIOUS
<1>0. /\ ctl \in Seq(CtlRow)
      /\ approval \in [Approval -> {"none", "pending", "approved", "denied"}]
      /\ admin \in [Admin -> [pc : {"idle", "decide", "ask"}, of : Nat]]
      /\ \A a \in Admin : admin[a].pc # "idle" => admin[a].of \in Approval
      /\ coord \in [Coordinator -> CoordTick]
      /\ Ready \in [pc : {"idle", "decide", "ask"}, of : Nat] /\ Ready.pc = "idle"
      /\ Waiting \in CoordTick /\ Waiting.pc = "idle"
      /\ Approval \subseteq Nat
  BY DEF CtlTypes, Ready, Waiting, Nothing, Approval, CoordTick
<1> HIDE DEF Ready, Waiting
<1>1. ASSUME UNCHANGED <<ctl, agentMode, coord>>, inbox' \subseteq inbox, NothingDecided,
             approval' \in [Approval -> {"none", "pending", "approved", "denied"}],
             admin' \in [Admin -> [pc : {"idle", "decide", "ask"}, of : Nat]],
             \A a \in Admin : admin'[a].pc # "idle" => admin'[a].of \in Approval
      PROVE  CtlTypes' /\ ControlStepKinds
  <2>1. CtlTypes' /\ AgentsAsBefore
    BY <1>0, <1>1, OtherEffect
  <2> QED BY <1>1, <2>1 DEF ControlStepKinds
<1>2. ASSUME UNCHANGED <<ctl, agentMode, coord, approval, admin>>, inbox' \subseteq inbox
      PROVE  CtlTypes' /\ ControlStepKinds
  <2>1. NothingDecided
    BY <1>2 DEF NothingDecided
  <2> QED BY <1>0, <1>1, <1>2, <2>1
<1>3. CASE UNCHANGED adminVars \/ ModelNext \/ EmergencyRoute \/ Report \/ BeatAges \/ GatewayDies
  <2>1. UNCHANGED <<ctl, agentMode, coord, approval, admin>> /\ inbox' \subseteq inbox
    BY <1>3 DEF adminVars, ModelNext, AssignModel, StartTest, AcceptanceIsAnswered, TestIsLost, RecordTest,
                EmergencyRoute, Report, BeatAges, GatewayDies, control, people, gateway
  <2> QED BY <1>2, <2>1
<1>4. CASE AgentControlRoute \/ GpuRoute
  <2>1. /\ \E target \in Agent \cup {"gateway"}, action \in AgentAction \cup GatewayAction :
               Record(target, action, Nothing)
        /\ UNCHANGED <<agentMode, coord, inbox, approval, admin>>
    BY <1>4 DEF AgentControlRoute, GpuRoute, people, gateway
  <2>2. Nothing \in Nat
    BY DEF Nothing
  <2>3. Recorded(Nothing)
    BY <1>0, <2>1, <2>2, RecordEffect DEF Recorded
  <2>4. CtlTypes'
    BY <1>0, <2>1, <2>2, <2>3, RecordedTypes
  <2>5. NothingDecided
    BY <2>1 DEF NothingDecided
  <2> QED BY <2>3, <2>4, <2>5 DEF ControlStepKinds
<1>5. CASE TimePasses \/ Accept \/ CarryOut
  <2>1. CtlTypes' /\ AgentsAsBefore
    BY <1>5, TimePassesEffect, AcceptEffect, CarryOutEffect
  <2>2. NothingDecided
    BY <1>5 DEF TimePasses, Accept, CarryOut, people, NothingDecided
  <2> QED BY <2>1, <2>2 DEF ControlStepKinds
<1>6. CASE CreateApproval
  <2>1. PICK i \in Approval : approval[i] = "none" /\ approval' = [approval EXCEPT ![i] = "pending"]
    BY <1>6 DEF CreateApproval
  <2>2. UNCHANGED <<ctl, agentMode, coord, admin, inbox>>
    BY <1>6 DEF CreateApproval, control, gateway
  <2>3. approval' \in [Approval -> {"none", "pending", "approved", "denied"}]
    BY <1>0, <2>1
  <2>4. NothingDecided
    BY <1>0, <2>1, <2>2 DEF NothingDecided
  <2> QED BY <1>0, <1>1, <2>2, <2>3, <2>4
<1>7. ASSUME NEW a \in Admin, OpenDecision(a)
      PROVE  CtlTypes' /\ ControlStepKinds
  <2>1. PICK i \in Approval : admin' = [admin EXCEPT ![a] = [pc |-> "decide", of |-> i]]
    BY <1>7 DEF OpenDecision
  <2>2. UNCHANGED <<ctl, agentMode, coord, approval, inbox>>
    BY <1>7 DEF OpenDecision, control, gateway
  <2> DEFINE row == [pc |-> "decide", of |-> i]
  <2>3. row \in [pc : {"idle", "decide", "ask"}, of : Nat] /\ row.pc = "decide" /\ row.of = i
    BY <1>0
  <2>4. admin' = [admin EXCEPT ![a] = row]
    BY <2>1
  <2> HIDE DEF row
  <2>5. /\ admin' \in [Admin -> [pc : {"idle", "decide", "ask"}, of : Nat]]
        /\ \A b \in Admin : admin'[b].pc # "idle" => admin'[b].of \in Approval
    BY <1>0, <2>3, <2>4
  <2>6. NothingDecided
    BY <1>0, <2>2, <2>3, <2>4 DEF NothingDecided
  <2> QED BY <1>0, <1>1, <2>2, <2>5, <2>6
<1>8. ASSUME NEW a \in Admin, Decide(a)
      PROVE  CtlTypes' /\ ControlStepKinds
  <2>1. admin[a].pc = "decide" /\ UNCHANGED <<ctl, agentMode, coord, inbox>> /\ admin[a].of \in Approval
    BY <1>0, <1>8 DEF Decide, control, gateway
  <2>2. CASE approval[admin[a].of] = "pending"
    <3>1. Deciding(a)
      BY <1>8, <2>1, <2>2 DEF Decide, Deciding, StillPending
    <3>2. PICK decision \in {"approved", "denied"} :
              /\ approval' = [approval EXCEPT ![admin[a].of] = decision]
              /\ admin' = [admin EXCEPT ![a] = IF decision = "approved"
                                               THEN [pc |-> "ask", of |-> admin[a].of] ELSE Ready]
      BY <3>1 DEF Deciding
    <3> DEFINE row == IF decision = "approved" THEN [pc |-> "ask", of |-> admin[a].of] ELSE Ready
    <3>3. row \in [pc : {"idle", "decide", "ask"}, of : Nat] /\ (row.pc # "idle" => row.of = admin[a].of)
      BY <1>0, <2>1
    <3>4. admin' = [admin EXCEPT ![a] = row]
      BY <3>2
    <3> HIDE DEF row
    <3>5. /\ admin' \in [Admin -> [pc : {"idle", "decide", "ask"}, of : Nat]]
          /\ \A b \in Admin : admin'[b].pc # "idle" => admin'[b].of \in Approval
      BY <1>0, <2>1, <3>3, <3>4
    <3>6. approval' \in [Approval -> {"none", "pending", "approved", "denied"}]
      BY <1>0, <3>2
    <3>7. CtlTypes' /\ AgentsAsBefore
      BY <1>0, <2>1, <3>5, <3>6, OtherEffect
    <3> QED BY <3>1, <3>7 DEF ControlStepKinds
  <2>3. CASE approval[admin[a].of] # "pending"
    <3>1. UNCHANGED approval /\ admin' = [admin EXCEPT ![a] = Ready]
      BY <1>8, <2>3 DEF Decide, StillPending
    <3>2. NothingDecided
      BY <1>0, <3>1 DEF NothingDecided
    <3>3. /\ admin' \in [Admin -> [pc : {"idle", "decide", "ask"}, of : Nat]]
          /\ \A b \in Admin : admin'[b].pc # "idle" => admin'[b].of \in Approval
      BY <1>0, <3>1
    <3> QED BY <1>0, <1>1, <2>1, <3>1, <3>2, <3>3
  <2> QED BY <2>2, <2>3
<1>9. ASSUME NEW a \in Admin, AskApproved(a)
      PROVE  CtlTypes' /\ ControlStepKinds
  <2>1. /\ \E target \in Agent \cup {"gateway"}, action \in AgentAction \cup GatewayAction :
               Record(target, action, admin[a].of)
        /\ UNCHANGED <<agentMode, coord, inbox, approval>>
        /\ admin' = [admin EXCEPT ![a] = Ready] /\ admin[a].pc = "ask"
    BY <1>9 DEF AskApproved, gateway
  <2>2. admin[a].of \in Nat
    BY <1>0
  <2>3. Recorded(admin[a].of)
    BY <1>0, <2>1, <2>2, RecordEffect DEF Recorded
  <2>4. /\ admin' \in [Admin -> [pc : {"idle", "decide", "ask"}, of : Nat]]
        /\ \A b \in Admin : admin'[b].pc # "idle" => admin'[b].of \in Approval
    BY <1>0, <2>1
  <2>5. CtlTypes'
    BY <1>0, <2>1, <2>2, <2>3, <2>4, RecordedTypes
  <2>6. Asking(a)
    BY <2>1, <2>3 DEF Asking
  <2> QED BY <2>5, <2>6 DEF ControlStepKinds
<1>10. ASSUME NEW c \in Coordinator, BeginTick(c)
       PROVE  CtlTypes' /\ ControlStepKinds
  <2>1. CtlTypes' /\ TickAnswers(c)
    BY <1>10, BeginTickEffect
  <2>2. NothingDecided
    BY <1>10 DEF BeginTick, people, NothingDecided
  <2> QED BY <2>1, <2>2 DEF ControlStepKinds
<1>11. ASSUME NEW c \in Coordinator, ReadHalt(c) \/ EndTick(c) \/ RestartServer(c)
       PROVE  CtlTypes' /\ ControlStepKinds
  <2>1. /\ \/ coord' = [coord EXCEPT ![c] = Waiting]
           \/ \E pc \in {"idle", "modes"} : coord' = [coord EXCEPT ![c].pc = pc]
        /\ UNCHANGED <<ctl, agentMode, approval, inbox>>
        /\ UNCHANGED admin \/ \E gone \in SUBSET Admin :
              admin' = [a \in Admin |-> IF a \in gone THEN Ready ELSE admin[a]]
    BY <1>11 DEF ReadHalt, EndTick, RestartServer, control, people, gateway
  <2>2. /\ coord' \in [Coordinator -> CoordTick]
        /\ \A d \in Coordinator : coord'[d] = coord[d] \/ coord'[d].pc # "advance"
    <3>1. \E row \in CoordTick : row.pc # "advance" /\ coord' = [coord EXCEPT ![c] = row]
      <4>1. ASSUME NEW pc \in {"idle", "modes"}, coord' = [coord EXCEPT ![c].pc = pc]
            PROVE  \E row \in CoordTick : row.pc # "advance" /\ coord' = [coord EXCEPT ![c] = row]
        <5> DEFINE row == [coord[c] EXCEPT !.pc = pc]
        <5>1. row \in CoordTick /\ row.pc # "advance"
          BY <1>0 DEF CoordTick
        <5>2. coord' = [coord EXCEPT ![c] = row]
          BY <1>0, <4>1
        <5> QED BY <5>1, <5>2
      <4> QED BY <1>0, <2>1, <4>1
    <3> QED BY <1>0, <3>1
  <2>3. /\ admin' \in [Admin -> [pc : {"idle", "decide", "ask"}, of : Nat]]
        /\ \A b \in Admin : admin'[b].pc # "idle" => admin'[b].of \in Approval
        /\ \A b \in Admin : admin'[b] = admin[b] \/ admin'[b].pc # "ask"
    BY <1>0, <2>1
  <2>4. CtlTypes' /\ AgentsAsBefore
    BY <1>0, <2>1, <2>2, <2>3, OtherEffect
  <2> QED BY <2>1, <2>3, <2>4 DEF ControlStepKinds, NothingDecided
<1>12. ASSUME NEW c \in Coordinator, ReadModes(c)
       PROVE  CtlTypes' /\ ControlStepKinds
  <2> DEFINE left == {agent \in Agent : agentMode[agent] = "paused"}
             answered == {r \in DOMAIN ctl : ctl[r].status = "completed"}
             row == [pc |-> "advance", skip |-> left, knew |-> answered]
  <2>1. coord' = [coord EXCEPT ![c] = row] /\ UNCHANGED <<ctl, agentMode, approval, admin, inbox>>
    BY <1>12 DEF ReadModes, control, people, gateway
  <2>2. row \in CoordTick /\ row.skip = left /\ row.knew = answered
    <3>1. DOMAIN ctl \subseteq Nat
      BY <1>0
    <3> QED BY <3>1 DEF CoordTick
  <2> HIDE DEF row, left, answered
  <2>3. /\ coord' \in [Coordinator -> CoordTick] /\ coord'[c] = row
        /\ \A d \in Coordinator \ {c} : coord'[d] = coord[d]
    BY <1>0, <2>1, <2>2
  <2>4. RowsStay /\ CtlTypes' /\ NothingDecided
    BY <1>0, <2>1, <2>3 DEF RowsStay, CtlTypes, NothingDecided
  <2>5. ModesAreRead(c)
    BY <2>1, <2>2, <2>3, <2>4 DEF ModesAreRead, left, answered
  <2> QED BY <2>4, <2>5 DEF ControlStepKinds
<1> QED
  BY <1>3, <1>4, <1>5, <1>6, <1>7, <1>8, <1>9, <1>10, <1>11, <1>12 DEF AdminNext, AskingNext, TickNext

LEMMA ControlInit == AdminInit => CtlTypes
<1> SUFFICES ASSUME AdminInit
             PROVE  CtlTypes
  OBVIOUS
<1>1. ctl \in Seq(CtlRow) /\ inbox = {}
  BY DEF AdminInit
<1>2. /\ Ready \in [pc : {"idle", "decide", "ask"}, of : Nat] /\ Ready.pc = "idle"
      /\ Waiting \in CoordTick
  BY DEF Ready, Waiting, Nothing, CoordTick
<1> QED BY <1>1, <1>2 DEF AdminInit, CtlTypes

\* The inductive invariant of approvals: what was carried out, and what is about
\* to be, has been approved, and there is one of either for an approval.
Asks(a) == admin[a].pc = "ask"
CarriedOutOnce ==
    /\ \A r \in DOMAIN ctl : ctl[r].from # Nothing => /\ ctl[r].from \in Approval
                                                      /\ approval[ctl[r].from] = "approved"
    /\ \A a \in Admin : Asks(a) => approval[admin[a].of] = "approved"
    /\ \A r, q \in DOMAIN ctl : ctl[r].from = ctl[q].from /\ ctl[r].from # Nothing => r = q
    /\ \A a, b \in Admin : Asks(a) /\ Asks(b) /\ admin[a].of = admin[b].of => a = b
    /\ \A r \in DOMAIN ctl, a \in Admin : Asks(a) => ctl[r].from # admin[a].of

LEMMA ApprovalStep == CtlTypes /\ CarriedOutOnce /\ [AdminNext]_adminVars => CarriedOutOnce'
<1> SUFFICES ASSUME CtlTypes, CarriedOutOnce, ControlStepKinds
             PROVE  CarriedOutOnce'
  BY ControlStep
<1>0. /\ ctl \in Seq(CtlRow)
      /\ approval \in [Approval -> {"none", "pending", "approved", "denied"}]
      /\ admin \in [Admin -> [pc : {"idle", "decide", "ask"}, of : Nat]]
      /\ \A a \in Admin : admin[a].pc # "idle" => admin[a].of \in Approval
      /\ Ready.pc = "idle" /\ Nothing \notin Approval
  BY DEF CtlTypes, Ready, Nothing, Approval
<1> HIDE DEF Ready, Nothing
<1>1. ASSUME NothingDecided
      PROVE  /\ \A i \in Approval : approval[i] = "approved" => approval'[i] = "approved"
             /\ \A a \in Admin : Asks(a)' => Asks(a) /\ admin'[a] = admin[a]
  BY <1>1 DEF NothingDecided, Asks
<1>2. ASSUME RowsStay, NothingDecided
      PROVE  CarriedOutOnce'
  BY <1>0, <1>1, <1>2 DEF CarriedOutOnce, RowsStay, Asks
<1>3. ASSUME Recorded(Nothing), NothingDecided
      PROVE  CarriedOutOnce'
  <2>1. /\ DOMAIN ctl' = DOMAIN ctl \cup {Len(ctl) + 1} /\ Len(ctl) + 1 \notin DOMAIN ctl
        /\ \A r \in DOMAIN ctl : ctl'[r] = ctl[r]
        /\ ctl'[Len(ctl) + 1].from = Nothing
    BY <1>3 DEF Recorded, RowAdded
  <2>2. \A a \in Admin : Asks(a) => admin[a].of # Nothing
    BY <1>0 DEF Asks
  <2> QED BY <1>0, <1>1, <1>3, <2>1, <2>2 DEF CarriedOutOnce, Asks
<1>4. ASSUME NEW a \in Admin, AgentsAsBefore, Deciding(a)
      PROVE  CarriedOutOnce'
  <2> DEFINE i == admin[a].of
  <2>1. i \in Approval /\ approval[i] = "pending" /\ ~Asks(a)
    BY <1>0, <1>4 DEF Deciding, Asks
  <2>2. /\ \A j \in Approval \ {i} : approval'[j] = approval[j]
        /\ \A b \in Admin \ {a} : admin'[b] = admin[b]
        /\ Asks(a)' => admin'[a].of = i /\ approval'[i] = "approved"
    <3>1. PICK decision \in {"approved", "denied"} :
              /\ approval' = [approval EXCEPT ![i] = decision]
              /\ admin' = [admin EXCEPT ![a] = IF decision = "approved" THEN [pc |-> "ask", of |-> i] ELSE Ready]
      BY <1>4 DEF Deciding
    <3> HIDE DEF i
    <3>2. admin'[a] = IF decision = "approved" THEN [pc |-> "ask", of |-> i] ELSE Ready
      BY <1>0, <3>1
    <3>3. approval'[i] = decision
      BY <1>0, <2>1, <3>1
    <3> QED BY <1>0, <3>1, <3>2, <3>3 DEF Asks
  <2>3. /\ \A r \in DOMAIN ctl : ctl[r].from # i
        /\ \A b \in Admin : Asks(b) => admin[b].of # i
    BY <1>0, <2>1 DEF CarriedOutOnce
  <2>4. DOMAIN ctl' = DOMAIN ctl /\ \A r \in DOMAIN ctl : ctl'[r].from = ctl[r].from
    BY <1>4 DEF AgentsAsBefore, RowsStay
  <2> HIDE DEF i
  <2>5. \A b \in Admin : Asks(b)' => (b = a /\ admin'[b].of = i) \/ (Asks(b) /\ admin'[b] = admin[b])
    BY <2>2 DEF Asks
  <2>6. \A b \in Admin : Asks(b) => admin[b].of \in Approval
    BY <1>0 DEF Asks
  <2> QED BY <2>1, <2>2, <2>3, <2>4, <2>5, <2>6 DEF CarriedOutOnce
<1>5. ASSUME NEW a \in Admin, Asking(a)
      PROVE  CarriedOutOnce'
  <2>1. /\ DOMAIN ctl' = DOMAIN ctl \cup {Len(ctl) + 1} /\ Len(ctl) + 1 \notin DOMAIN ctl
        /\ \A r \in DOMAIN ctl : ctl'[r] = ctl[r]
        /\ ctl'[Len(ctl) + 1].from = admin[a].of
        /\ UNCHANGED approval
    BY <1>5 DEF Asking, Recorded, RowAdded
  <2>2. Asks(a) /\ ~Asks(a)' /\ \A b \in Admin \ {a} : admin'[b] = admin[b]
    BY <1>0, <1>5 DEF Asking, Asks
  <2>3. /\ \A r \in DOMAIN ctl : ctl[r].from # admin[a].of
        /\ \A b \in Admin : Asks(b) /\ b # a => admin[b].of # admin[a].of
        /\ approval[admin[a].of] = "approved" /\ admin[a].of \in Approval
    BY <1>0, <2>2 DEF CarriedOutOnce, Asks
  <2>4. \A b \in Admin : Asks(b)' => b # a /\ Asks(b) /\ admin'[b] = admin[b]
    BY <2>2 DEF Asks
  <2> QED BY <2>1, <2>3, <2>4 DEF CarriedOutOnce
<1> QED BY <1>2, <1>3, <1>4, <1>5 DEF ControlStepKinds, AgentsAsBefore, TickAnswers, ModesAreRead

\* An approval is carried out at most once, and only if it was approved, however
\* many administrators decide on it at the same time.
THEOREM ApprovalsAreUsedOnce == AdminSpec => []ApprovedOnce
<1>1. AdminInit => CtlTypes /\ CarriedOutOnce
  <2> SUFFICES ASSUME AdminInit
               PROVE  CarriedOutOnce
    BY ControlInit
  <2>1. DOMAIN ctl = {} /\ \A a \in Admin : ~Asks(a)
    BY DEF AdminInit, Asks, Ready
  <2> QED BY <2>1 DEF CarriedOutOnce
<1>2. CtlTypes /\ CarriedOutOnce => ApprovedOnce
  <2> SUFFICES ASSUME CtlTypes, CarriedOutOnce, NEW i \in Approval
               PROVE  Cardinality({r \in DOMAIN ctl : ctl[r].from = i} \cup
                            {<<a>> : a \in {b \in Admin : admin[b] = [pc |-> "ask", of |-> i]}}) <= 1
    BY DEF ApprovedOnce, CarriedOutOnce
  <2> DEFINE done == {r \in DOMAIN ctl : ctl[r].from = i}
             doing == {b \in Admin : admin[b] = [pc |-> "ask", of |-> i]}
             S == done \cup {<<a>> : a \in doing}
  <2>1. i # Nothing
    BY DEF Approval, Nothing
  <2>2. \A r, q \in done : r = q
    BY <2>1 DEF CarriedOutOnce
  <2>3. \A a \in doing : Asks(a) /\ admin[a].of = i
    BY DEF Asks
  <2>4. \A a, b \in doing : a = b
    BY <2>3 DEF CarriedOutOnce
  <2>5. done = {} \/ doing = {}
    BY <2>3 DEF CarriedOutOnce
  <2> HIDE DEF done, doing
  <2>6. \A x, y \in S : x = y
    BY <2>2, <2>4, <2>5
  <2> HIDE DEF S
  <2>7. CASE S = {}
    <3>1. Cardinality(S) = 0
      BY <2>7, FS_EmptySet
    <3> QED BY <3>1 DEF S, done, doing
  <2>8. CASE S # {}
    <3>1. PICK x \in S : S = {x}
      BY <2>6, <2>8
    <3>2. Cardinality(S) = 1
      BY <3>1, FS_Singleton
    <3> QED BY <3>2 DEF S, done, doing
  <2> QED BY <2>7, <2>8
<1> QED BY <1>1, <1>2, ControlStep, ApprovalStep, PTL DEF AdminSpec

-----------------------------------------------------------------------------
(* The admin control center: paused agents                                  *)

Answered(agent) == {r \in DOMAIN ctl : ctl[r].target = agent /\ ctl[r].status = "completed"}
Known(c, agent) == {r \in coord[c].knew : ctl[r].target = agent}

\* The inductive invariant: what is answered came before what is not, and the
\* newest answer is in force; a tick under way skips whom the newest answer that
\* it knew of pauses.
PausesInForce ==
    /\ \A agent \in Agent : \A r \in Answered(agent), q \in AskedOf(agent) : r < q
    /\ \A agent \in Agent : \A r \in Answered(agent) :
           (\A q \in Answered(agent) : q <= r) /\ ctl[r].action = "pause" => agentMode[agent] = "paused"
TicksObey ==
    \A c \in Coordinator, agent \in Agent : coord[c].pc = "advance" =>
        /\ coord[c].knew \subseteq DOMAIN ctl /\ Known(c, agent) \subseteq Answered(agent)
        /\ \A r \in Known(c, agent) :
              (\A q \in Known(c, agent) : q <= r) /\ ctl[r].action = "pause" => agent \in coord[c].skip

\* The newest live request decides, if there is one.
LEMMA AppliedIsNewest ==
    ASSUME CtlTypes, NEW agent \in Agent, NEW r \in Live(agent), \A q \in Live(agent) : q <= r
    PROVE  Applied(agent) = IF ctl[r].action = "pause" THEN "paused" ELSE "running"
<1> DEFINE L == Live(agent)
           n == Cardinality(L)
<1>1. L \in SUBSET (DOMAIN ctl) /\ L # {} /\ r \in L
  BY DEF Live, AskedOf
<1>2. L \subseteq Nat /\ IsFiniteSet(L) /\ n \in Nat /\ n # 0
  <2>1. L \subseteq Nat /\ IsFiniteSet(L) /\ n \in Nat
    BY <1>1, FinitelyMany DEF CtlTypes
  <2> QED BY <1>1, <2>1, FS_EmptySet
<1>3. OldestFirst(L)[n] = CHOOSE q \in L : Cardinality({s \in L : s < q}) = n - 1
  <2>1. n \in 1..n
    BY <1>2
  <2> QED BY <2>1 DEF OldestFirst
<1>4. \E q \in L : Cardinality(Below(L, q)) = n - 1
  <2>1. n - 1 \in Nat /\ n - 1 < n
    BY <1>2
  <2> HIDE DEF L
  <2> QED BY <1>2, <2>1, NthExists
<1>5. OldestFirst(L)[n] \in L /\ Cardinality(Below(L, OldestFirst(L)[n])) = n - 1
  <2> HIDE DEF L, n
  <2> QED BY <1>3, <1>4 DEF Below
<1>6. \A q \in L : q <= OldestFirst(L)[n]
  <2> HIDE DEF L
  <2> QED BY <1>2, <1>5, LastIsGreatest
<1>7. OldestFirst(L)[n] = r
  <2>1. r <= OldestFirst(L)[n] /\ OldestFirst(L)[n] <= r /\ r \in Nat /\ OldestFirst(L)[n] \in Nat
    BY <1>1, <1>2, <1>5, <1>6
  <2> HIDE DEF L, n
  <2> QED BY <2>1
<1> QED BY <1>1, <1>7 DEF Applied, Live, ModeFor

LEMMA PauseStep ==
    CtlTypes /\ PausesInForce /\ [AdminNext]_adminVars => PausesInForce'
<1> SUFFICES ASSUME CtlTypes, PausesInForce, ControlStepKinds
             PROVE  PausesInForce'
  BY ControlStep
<1>0. ctl \in Seq(CtlRow) /\ "gateway" \notin Agent /\ DOMAIN ctl \subseteq Nat
  BY AdminAssumption DEF CtlTypes, AdminAssumption
<1>1. ASSUME AgentsAsBefore
      PROVE  PausesInForce'
  <2>1. \A agent \in Agent : Answered(agent)' = Answered(agent) /\ AskedOf(agent)' = AskedOf(agent)
    BY <1>1 DEF AgentsAsBefore, RowsStay, Answered, AskedOf
  <2>2. \A agent \in Agent : \A r \in Answered(agent) : ctl'[r].action = ctl[r].action
    BY <1>1 DEF AgentsAsBefore, RowsStay, Answered
  <2>3. UNCHANGED agentMode
    BY <1>1 DEF AgentsAsBefore
  <2> QED BY <2>1, <2>2, <2>3 DEF PausesInForce
<1>2. ASSUME NEW from \in Nat, Recorded(from)
      PROVE  PausesInForce'
  <2>1. PICK target \in Agent \cup {"gateway"}, action \in AgentAction \cup GatewayAction :
            RowAdded(target, action, from)
    BY <1>2 DEF Recorded
  <2>2. /\ DOMAIN ctl' = DOMAIN ctl \cup {Len(ctl) + 1}
        /\ \A r \in DOMAIN ctl : ctl'[r] = ctl[r] /\ r < Len(ctl) + 1
        /\ ctl'[Len(ctl) + 1].status = "requested"
    BY <2>1 DEF RowAdded
  <2>3. \A agent \in Agent : /\ Answered(agent)' = Answered(agent)
                             /\ AskedOf(agent)' \subseteq AskedOf(agent) \cup {Len(ctl) + 1}
    BY <2>2 DEF Answered, AskedOf
  <2>4. \A agent \in Agent : Answered(agent) \subseteq DOMAIN ctl
    BY DEF Answered
  <2>5. UNCHANGED agentMode
    BY <1>2 DEF Recorded
  <2> QED BY <2>2, <2>3, <2>4, <2>5 DEF PausesInForce
<1>3. ASSUME NEW c \in Coordinator, TickAnswers(c)
      PROVE  PausesInForce'
  <2>1. /\ DOMAIN ctl' = DOMAIN ctl
        /\ \A r \in DOMAIN ctl : /\ ctl'[r].target = ctl[r].target /\ ctl'[r].action = ctl[r].action
                                 /\ ctl'[r].status = IF ctl[r].status = "requested" /\ ctl[r].target \in Agent
                                                     THEN IF ctl[r].old THEN "expired" ELSE "completed"
                                                     ELSE ctl[r].status
    BY <1>3 DEF TickAnswers, RowsStay
  <2>2. \A agent \in Agent : AskedOf(agent)' = {} /\ Answered(agent)' = Answered(agent) \cup Live(agent)
    <3>1. ASSUME NEW agent \in Agent, NEW r \in DOMAIN ctl
          PROVE  /\ r \notin AskedOf(agent)'
                 /\ r \in Answered(agent)' <=> r \in Answered(agent) \/ r \in Live(agent)
      BY <2>1 DEF AskedOf, Answered, Live
    <3>2. ASSUME NEW agent \in Agent
          PROVE  /\ AskedOf(agent)' \subseteq DOMAIN ctl /\ Answered(agent)' \subseteq DOMAIN ctl
                 /\ Answered(agent) \subseteq DOMAIN ctl /\ Live(agent) \subseteq DOMAIN ctl
      BY <2>1 DEF AskedOf, Answered, Live
    <3> QED BY <3>1, <3>2
  <2>3. ASSUME NEW agent \in Agent, NEW r \in Answered(agent)', \A q \in Answered(agent)' : q <= r,
               ctl'[r].action = "pause"
        PROVE  agentMode'[agent] = "paused"
    <3>0. agentMode'[agent] = Applied(agent) /\ r \in DOMAIN ctl /\ ctl[r].action = "pause"
      BY <1>3, <2>1, <2>3 DEF TickAnswers, Answered
    <3>1. CASE Live(agent) = {}
      <4>1. agentMode'[agent] = agentMode[agent]
        BY <3>0, <3>1 DEF Applied, Live
      <4>2. r \in Answered(agent) /\ \A q \in Answered(agent) : q <= r
        BY <2>2, <2>3, <3>1
      <4> QED BY <3>0, <4>1, <4>2 DEF PausesInForce
    <3>2. CASE Live(agent) # {}
      <4>1. r \in Live(agent)
        <5>1. PICK q \in Live(agent) : TRUE
          BY <3>2
        <5>2. q \in AskedOf(agent) /\ q <= r /\ q \in Nat /\ r \in Nat
          BY <1>0, <2>2, <2>3, <3>0 DEF Live, AskedOf
        <5>3. r \notin Answered(agent)
          <6>1. SUFFICES ASSUME r \in Answered(agent)
                         PROVE  FALSE
            OBVIOUS
          <6>2. r < q
            BY <5>2, <6>1 DEF PausesInForce
          <6> QED BY <5>2, <6>2
        <5> QED BY <2>2, <2>3, <5>3
      <4>2. \A q \in Live(agent) : q <= r
        BY <2>2, <2>3
      <4> QED BY <3>0, <4>1, <4>2, AppliedIsNewest
    <3> QED BY <3>1, <3>2
  <2> QED BY <2>2, <2>3 DEF PausesInForce
<1>4. ASSUME NEW a \in Admin, Asking(a)
      PROVE  PausesInForce'
  <2>1. admin[a].of \in Nat
    BY DEF CtlTypes
  <2> QED BY <1>2, <1>4, <2>1 DEF Asking
<1>5. Nothing \in Nat
  BY DEF Nothing
<1>6. ASSUME NEW c \in Coordinator, ModesAreRead(c)
      PROVE  PausesInForce'
  BY <1>6 DEF ModesAreRead, PausesInForce, Answered, AskedOf
<1> QED BY <1>1, <1>2, <1>3, <1>4, <1>5, <1>6 DEF ControlStepKinds

\* A tick under way goes by what it read, and what was answered stays answered.
LEMMA TickStep ==
    CtlTypes /\ PausesInForce /\ TicksObey /\ [AdminNext]_adminVars => TicksObey'
<1> SUFFICES ASSUME CtlTypes, PausesInForce, TicksObey, ControlStepKinds,
                    NEW c \in Coordinator, NEW agent \in Agent, coord'[c].pc = "advance"
             PROVE  /\ coord'[c].knew \subseteq DOMAIN ctl'
                    /\ Known(c, agent)' \subseteq Answered(agent)'
                    /\ \A r \in Known(c, agent)' :
                         (\A q \in Known(c, agent)' : q <= r) /\ ctl'[r].action = "pause"
                           => agent \in coord'[c].skip
  BY ControlStep DEF TicksObey
<1>0. "gateway" \notin Agent
  BY AdminAssumption DEF AdminAssumption
<1>1. CASE coord'[c] = coord[c] /\ DOMAIN ctl \subseteq DOMAIN ctl' /\ \A r \in DOMAIN ctl :
              /\ ctl'[r].target = ctl[r].target /\ ctl'[r].action = ctl[r].action
              /\ ctl[r].target \in Agent /\ ctl[r].status = "completed" => ctl'[r].status = "completed"
  <2>1. coord[c].knew \subseteq DOMAIN ctl /\ Known(c, agent) \subseteq Answered(agent)
    BY <1>1 DEF TicksObey
  <2>2. Known(c, agent)' = Known(c, agent)
    BY <1>1, <2>1 DEF Known
  <2>3. Answered(agent) \subseteq Answered(agent)'
    BY <1>1 DEF Answered
  <2>4. Known(c, agent) \subseteq DOMAIN ctl
    BY <2>1 DEF Known
  <2> QED BY <1>1, <2>1, <2>2, <2>3, <2>4 DEF TicksObey
<1>2. CASE AgentsAsBefore
  BY <1>1, <1>2 DEF AgentsAsBefore, RowsStay
<1>3. ASSUME NEW from \in Nat, Recorded(from)
      PROVE  coord'[c] = coord[c] /\ DOMAIN ctl \subseteq DOMAIN ctl' /\ \A r \in DOMAIN ctl : ctl'[r] = ctl[r]
  BY <1>3 DEF Recorded, RowAdded
<1>4. ASSUME NEW d \in Coordinator, TickAnswers(d)
      PROVE  coord'[c] = coord[c] /\ DOMAIN ctl \subseteq DOMAIN ctl' /\ \A r \in DOMAIN ctl :
                /\ ctl'[r].target = ctl[r].target /\ ctl'[r].action = ctl[r].action
                /\ ctl[r].status = "completed" => ctl'[r].status = "completed"
  BY <1>4 DEF TickAnswers, RowsStay
<1>5. ASSUME NEW d \in Coordinator, ModesAreRead(d), d # c
      PROVE  coord'[c] = coord[c] /\ UNCHANGED ctl
  BY <1>5 DEF ModesAreRead
<1>6. CASE ModesAreRead(c)
  <2>1. /\ UNCHANGED ctl /\ coord'[c].knew \subseteq DOMAIN ctl
        /\ Known(c, agent)' = Answered(agent) /\ Answered(agent)' = Answered(agent)
        /\ agentMode[agent] = "paused" => agent \in coord'[c].skip
    BY <1>6 DEF ModesAreRead, Known, Answered
  <2> QED BY <2>1 DEF PausesInForce
<1>7. CASE \E a \in Admin : Asking(a)
  <2>1. \A a \in Admin : admin[a].of \in Nat
    BY DEF CtlTypes
  <2> QED BY <1>1, <1>3, <1>7, <2>1 DEF Asking
<1>8. CASE Recorded(Nothing)
  <2>1. Nothing \in Nat
    BY DEF Nothing
  <2> QED BY <1>1, <1>3, <1>8, <2>1
<1> QED BY <1>1, <1>2, <1>4, <1>5, <1>6, <1>7, <1>8 DEF ControlStepKinds

\* However many servers run a coordinator, one that read the modes after the
\* newest answered request for an agent said that it is paused does not advance
\* the agent.
THEOREM PausesAreObeyed == AdminSpec => []PausedAgentsAreLeftAlone
<1>1. AdminInit => CtlTypes /\ PausesInForce /\ TicksObey
  <2> SUFFICES ASSUME AdminInit
               PROVE  PausesInForce /\ TicksObey
    BY ControlInit
  <2>1. DOMAIN ctl = {} /\ \A c \in Coordinator : coord[c].pc = "idle"
    BY DEF AdminInit, Waiting
  <2> QED BY <2>1 DEF PausesInForce, TicksObey, Answered, AskedOf
<1>2. CtlTypes /\ TicksObey => PausedAgentsAreLeftAlone
  <2> SUFFICES ASSUME CtlTypes, TicksObey, NEW agent \in Agent, NEW c \in Coordinator,
                      Answered(agent) # {},
                      OldestFirst(Answered(agent))[Cardinality(Answered(agent))] \in coord[c].knew,
                      ctl[OldestFirst(Answered(agent))[Cardinality(Answered(agent))]].action = "pause"
               PROVE  agent \notin Advanced(c)
    BY DEF PausedAgentsAreLeftAlone, Answered
  <2> DEFINE A == Answered(agent)
             n == Cardinality(A)
             r == OldestFirst(A)[n]
  <2>1. A \subseteq Nat /\ IsFiniteSet(A) /\ n \in Nat /\ n # 0
    <3>1. A \in SUBSET (DOMAIN ctl)
      BY DEF Answered
    <3>2. A \subseteq Nat /\ IsFiniteSet(A) /\ n \in Nat
      BY <3>1, FinitelyMany DEF CtlTypes
    <3> QED BY <3>2, FS_EmptySet
  <2>2. r = CHOOSE q \in A : Cardinality({s \in A : s < q}) = n - 1
    <3>1. n \in 1..n
      BY <2>1
    <3> QED BY <3>1 DEF OldestFirst
  <2>3. \E q \in A : Cardinality(Below(A, q)) = n - 1
    <3>1. n - 1 \in Nat /\ n - 1 < n
      BY <2>1
    <3> HIDE DEF A
    <3> QED BY <2>1, <3>1, NthExists
  <2>4. r \in A /\ Cardinality(Below(A, r)) = n - 1
    <3> HIDE DEF A, n, r
    <3> QED BY <2>2, <2>3 DEF Below
  <2>5. \A q \in A : q <= r
    <3> HIDE DEF A, r
    <3> QED BY <2>1, <2>4, LastIsGreatest
  <2>6. CASE coord[c].pc = "advance"
    <3>1. Known(c, agent) \subseteq A /\ r \in Known(c, agent)
      <4>1. ctl[r].target = agent
        BY <2>4 DEF Answered
      <4> QED BY <2>6, <4>1 DEF TicksObey, Known
    <3> HIDE DEF A, r
    <3>2. \A q \in Known(c, agent) : q <= r
      BY <2>5, <3>1
    <3>3. agent \in coord[c].skip
      BY <2>6, <3>1, <3>2 DEF TicksObey, r, A, n
    <3> QED BY <3>3 DEF Advanced
  <2>7. CASE coord[c].pc # "advance"
    BY <2>7 DEF Advanced
  <2> QED BY <2>6, <2>7
<1>3. CtlTypes /\ PausesInForce /\ TicksObey /\ [AdminNext]_adminVars
        => CtlTypes' /\ PausesInForce' /\ TicksObey'
  BY ControlStep, PauseStep, TickStep
<1> QED BY <1>1, <1>2, <1>3, PTL DEF AdminSpec

-----------------------------------------------------------------------------
(* The supervised systems: a pause that is reported done                    *)

Memory ==
    [pc : {"off", "loop", "stopping", "controls", "apply", "answer", "claim"},
     mode : {"running", "paused"}, inbox : Seq(Nat),
     run : {"none", "marking", "working", "complete", "caught", "closing"},
     task : Task \cup {NoTask},
     abort : {"none", "interrupt", "stop", "lease_lost", "timeout"},
     outcome : {"none", "cancel", "abandon", "requeue", "waiting", "retryable", "fatal"},
     pending : SUBSET Nat]

ReqRow ==
    [action : {"pause", "resume", "stop_task"}, task : Task \cup {NoTask},
     status : {"requested", "accepted", "expired", "completed"}]

\* What a process is about to answer it has carried out: of a pause, that no
\* task of its own is running.  Its inbox names requests that were filed.
InboxOK(m, requests) ==
    /\ \A i \in DOMAIN m.inbox : m.inbox[i] \in DOMAIN requests
    /\ m.pc = "answer" => /\ m.inbox # <<>>
                          /\ requests[Head(m.inbox)].action = "pause" => m.run = "none"

OpsInv ==
    /\ req \in Seq(ReqRow)
    /\ proc \in [Proc -> Memory]
    /\ system \in [mode : {"running", "paused"}, owner : Proc \cup {NoProc}, expired : BOOLEAN]
    /\ \A p \in Proc : InboxOK(proc[p], req)

\* A change of one field or more keeps what is not named.
LEMMA AbortedType ==
    ASSUME NEW m \in Memory, NEW why \in {"interrupt", "stop", "lease_lost", "timeout"}
    PROVE  /\ Aborted(m, why) \in Memory
           /\ Aborted(m, why).pc = m.pc /\ Aborted(m, why).inbox = m.inbox /\ Aborted(m, why).run = m.run
           /\ Aborted(m, why).pending = m.pending /\ Aborted(m, why).mode = m.mode
BY DEF Aborted, Memory

LEMMA ThrownType ==
    ASSUME NEW m \in Memory, NEW outcome \in {"waiting", "retryable", "fatal"}
    PROVE  /\ Thrown(m, outcome) \in Memory
           /\ Thrown(m, outcome).pc = m.pc /\ Thrown(m, outcome).inbox = m.inbox
           /\ Thrown(m, outcome).run = "caught" /\ Thrown(m, outcome).pending = m.pending
<1> DEFINE o == CASE m.abort = "stop"          -> "cancel"
                  [] m.abort = "lease_lost"    -> "abandon"
                  [] m.abort = "interrupt"     -> "requeue"
                  [] m.abort = "timeout" /\ outcome = "waiting" -> "retryable"
                  [] OTHER                     -> outcome
<1>1. Thrown(m, outcome) = [m EXCEPT !.run = "caught", !.outcome = o]
  BY DEF Thrown
<1>2. o \in {"cancel", "abandon", "requeue", "waiting", "retryable", "fatal"}
  OBVIOUS
<1> HIDE DEF o
<1> QED BY ZenonT(60), <1>1, <1>2 DEF Memory

LEMMA OffType == Off \in Memory /\ Off.pc = "off" /\ Off.inbox = <<>> /\ Off.run = "none"
<1>1. <<>> \in Seq(Nat)
  OBVIOUS
<1> QED BY <1>1 DEF Off, Memory

LEMMA TailType ==
    ASSUME NEW s \in Seq(Nat), s # <<>>
    PROVE  /\ Tail(s) \in Seq(Nat) /\ Head(s) \in Nat
           /\ Head(s) = s[1] /\ 1 \in DOMAIN s
           /\ \A i \in DOMAIN Tail(s) : i + 1 \in DOMAIN s /\ Tail(s)[i] = s[i + 1]
<1>1. Tail(s) \in Seq(Nat) /\ Len(Tail(s)) = Len(s) - 1 /\ Len(s) \in Nat /\ Len(s) # 0
  BY HeadTailProperties
<1>2. \A i \in DOMAIN Tail(s) : i + 1 \in DOMAIN s /\ Tail(s)[i] = s[i + 1]
  BY <1>1, HeadTailProperties
<1> QED BY <1>1, <1>2, HeadTailProperties

LEMMA EntrustedType ==
    ASSUME NEW m \in Memory, m.inbox # <<>>
    PROVE  /\ Entrusted(m) \in Memory
           /\ Entrusted(m).pc = m.pc /\ Entrusted(m).inbox = Tail(m.inbox) /\ Entrusted(m).run = m.run
<1> DEFINE p == m.pending \cup {Head(m.inbox)}
           q == Tail(m.inbox)
<1>1. Entrusted(m) = [m EXCEPT !.pending = p, !.inbox = q]
  BY DEF Entrusted
<1>2. m.inbox \in Seq(Nat) /\ m.pending \in SUBSET Nat
  BY DEF Memory
<1>3. p \in SUBSET Nat /\ q \in Seq(Nat)
  BY <1>2, TailType
<1> HIDE DEF p, q
<1>4. Entrusted(m).inbox = q
  BY <1>1 DEF Memory
<1> QED BY <1>1, <1>3, <1>4 DEF Memory, q

\* The requests in the order they were filed.
LEMMA InOrderType ==
    ASSUME NEW S, S \subseteq Nat, IsFiniteSet(S)
    PROVE  InOrder(S) \in Seq(Nat) /\ \A i \in DOMAIN InOrder(S) : InOrder(S)[i] \in S
<1> DEFINE n == Cardinality(S)
<1>1. n \in Nat
  BY FS_CardinalityType
<1>2. ASSUME NEW i \in 1..n
      PROVE  (CHOOSE r \in S : Cardinality({s \in S : s < r}) = i - 1) \in S
  <2>1. i - 1 \in Nat /\ i - 1 < n
    BY <1>1, <1>2
  <2> HIDE DEF n
  <2>2. \E r \in S : Cardinality(Below(S, r)) = i - 1
    BY <2>1, NthExists DEF n
  <2> QED BY <2>2 DEF Below
<1> DEFINE nth(i) == CHOOSE r \in S : Cardinality({s \in S : s < r}) = i - 1
<1>3. InOrder(S) = [i \in 1..n |-> nth(i)]
  BY DEF InOrder
<1>4. \A i \in 1..n : nth(i) \in S
  BY <1>2
<1> HIDE DEF n, nth
<1>5. /\ DOMAIN InOrder(S) = 1..n
      /\ \A i \in 1..n : InOrder(S)[i] \in S /\ InOrder(S)[i] \in Nat
      /\ InOrder(S) = [i \in 1..n |-> InOrder(S)[i]]
  BY <1>3, <1>4
<1>6. InOrder(S) \in [1..n -> Nat]
  BY <1>5
<1> QED BY <1>1, <1>5, <1>6, SeqDef

\* The requests that were filed stay, and what they ask for.
ReqKept ==
    /\ req' \in Seq(ReqRow) /\ DOMAIN req \subseteq DOMAIN req'
    /\ \A r \in DOMAIN req : req'[r].action = req[r].action

LEMMA InboxKept ==
    ASSUME ReqKept, NEW m \in Memory, InboxOK(m, req)
    PROVE  InboxOK(m, req')
<1>1. m.inbox \in Seq(Nat)
  BY DEF Memory
<1>2. m.inbox # <<>> => Head(m.inbox) = m.inbox[1] /\ 1 \in DOMAIN m.inbox
  BY <1>1, TailType
<1>3. m.inbox # <<>> => Head(m.inbox) \in DOMAIN req
  BY <1>2 DEF InboxOK
<1> QED BY <1>3 DEF InboxOK, ReqKept

LEMMA OpsKept ==
    ASSUME OpsInv, ReqKept, NEW p \in Proc,
           system' \in [mode : {"running", "paused"}, owner : Proc \cup {NoProc}, expired : BOOLEAN],
           proc' \in [Proc -> Memory], \A q \in Proc \ {p} : proc'[q] = proc[q],
           InboxOK(proc'[p], req')
    PROVE  OpsInv'
<1>1. ASSUME NEW q \in Proc \ {p}
      PROVE  InboxOK(proc'[q], req')
  BY InboxKept DEF OpsInv
<1> QED BY <1>1 DEF OpsInv, ReqKept

LEMMA ReqUnchanged ==
    ASSUME OpsInv, UNCHANGED req
    PROVE  ReqKept
BY DEF OpsInv, ReqKept

\* A step of the run of p's task, which leaves its loop where it is.
LEMMA RunKept ==
    ASSUME OpsInv, NEW p \in Proc, ReqKept, UNCHANGED system, NEW m \in Memory,
           proc' = [proc EXCEPT ![p] = m],
           m.pc = proc[p].pc, m.inbox = proc[p].inbox,
           proc[p].run = "none" => m.run = "none"
    PROVE  OpsInv'
<1>1. proc \in [Proc -> Memory] /\ InboxOK(proc[p], req)
  BY DEF OpsInv
<1>2. proc' \in [Proc -> Memory] /\ proc'[p] = m /\ \A q \in Proc \ {p} : proc'[q] = proc[q]
  BY <1>1
<1>3. InboxOK(m, req)
  BY <1>1 DEF InboxOK
<1>4. InboxOK(proc'[p], req')
  BY <1>2, <1>3, InboxKept
<1> QED BY <1>2, <1>4, OpsKept DEF OpsInv

\* A step of the loop of p to a place where nothing is answered, with the
\* requests that wait as they were or fewer.
LEMMA LoopKept ==
    ASSUME OpsInv, NEW p \in Proc, UNCHANGED req, NEW m \in Memory,
           system' \in [mode : {"running", "paused"}, owner : Proc \cup {NoProc}, expired : BOOLEAN],
           proc' = [proc EXCEPT ![p] = m], m.pc # "answer",
           m.inbox = proc[p].inbox \/ m.inbox = <<>> \/ (proc[p].inbox # <<>> /\ m.inbox = Tail(proc[p].inbox))
    PROVE  OpsInv'
<1>1. proc \in [Proc -> Memory] /\ InboxOK(proc[p], req) /\ proc[p] \in Memory
  BY DEF OpsInv
<1>2. proc' \in [Proc -> Memory] /\ proc'[p] = m /\ \A q \in Proc \ {p} : proc'[q] = proc[q]
  BY <1>1
<1>3. \A i \in DOMAIN m.inbox : m.inbox[i] \in DOMAIN req
  <2>1. proc[p].inbox \in Seq(Nat)
    BY <1>1 DEF Memory
  <2>2. CASE m.inbox = proc[p].inbox
    BY <1>1, <2>2 DEF InboxOK
  <2>3. CASE m.inbox = <<>>
    BY <2>3
  <2>4. CASE proc[p].inbox # <<>> /\ m.inbox = Tail(proc[p].inbox)
    BY <1>1, <2>1, <2>4, TailType DEF InboxOK
  <2> QED BY <2>2, <2>3, <2>4
<1>4. InboxOK(proc'[p], req')
  BY <1>2, <1>3 DEF InboxOK
<1> QED BY <1>2, <1>4, OpsKept, ReqUnchanged

\* A request that is resolved keeps what it asks for.
LEMMA ReqReplaced ==
    ASSUME req \in Seq(ReqRow), NEW r, req' = [req EXCEPT ![r].status = "completed"]
    PROVE  ReqKept /\ \A q \in DOMAIN req \ {r} : req'[q] = req[q]
<1> DEFINE row == [req[r] EXCEPT !.status = "completed"]
<1>1. req' = [req EXCEPT ![r] = row]
  OBVIOUS
<1>2. CASE r \in DOMAIN req
  <2>1. req[r] \in ReqRow
    BY <1>2, ElementType
  <2>2. row \in ReqRow /\ row.action = req[r].action
    BY <2>1 DEF ReqRow
  <2> HIDE DEF row
  <2>3. req' \in Seq(ReqRow) /\ DOMAIN req' = DOMAIN req /\ req'[r] = row /\ \A q \in DOMAIN req \ {r} : req'[q] = req[q]
    BY <1>1, <1>2, <2>2
  <2> QED BY <2>2, <2>3 DEF ReqKept
<1>3. CASE r \notin DOMAIN req
  <2>1. req' = req
    BY <1>1, <1>3
  <2> QED BY <2>1 DEF ReqKept
<1> QED BY <1>2, <1>3

System == [mode : {"running", "paused"}, owner : Proc \cup {NoProc}, expired : BOOLEAN]

\* What the run of a task does, and what is done to it.
LEMMA RunStepKeeps ==
    ASSUME OpsInv, NEW p \in Proc,
           RunStep(p) \/ HandlerEnds(p) \/ LoseTaskLease(p) \/ TaskTimeout(p)
    PROVE  OpsInv'
<1>0. proc \in [Proc -> Memory] /\ proc[p] \in Memory /\ req \in Seq(ReqRow)
  BY DEF OpsInv
<1>1. ASSUME NEW m \in Memory, proc' = [proc EXCEPT ![p] = m], UNCHANGED <<system, req>>,
             m.pc = proc[p].pc, m.inbox = proc[p].inbox, proc[p].run = "none" => m.run = "none"
      PROVE  OpsInv'
  BY <1>1, RunKept, ReqUnchanged
\* The run goes on to its next place.
<1>2. ASSUME NEW run \in {"marking", "working", "complete", "caught", "closing"},
             NEW abort \in {proc[p].abort, "none"}, NEW outcome \in {proc[p].outcome, "none"},
             proc' = [proc EXCEPT ![p] = [proc[p] EXCEPT !.run = run, !.abort = abort, !.outcome = outcome]],
             proc[p].run # "none", UNCHANGED <<system, req>>
      PROVE  OpsInv'
  <2> DEFINE m == [proc[p] EXCEPT !.run = run, !.abort = abort, !.outcome = outcome]
  <2>1. m \in Memory /\ m.pc = proc[p].pc /\ m.inbox = proc[p].inbox
    BY ZenonT(60), <1>0 DEF Memory
  <2>2. proc' = [proc EXCEPT ![p] = m]
    BY <1>2
  <2> HIDE DEF m
  <2> QED BY <1>1, <1>2, <2>1, <2>2
<1>3. ASSUME NEW outcome \in {"waiting", "retryable", "fatal"}, proc' = [proc EXCEPT ![p] = Thrown(proc[p], outcome)],
             proc[p].run # "none", UNCHANGED <<system, req>>
      PROVE  OpsInv'
  <2>1. /\ Thrown(proc[p], outcome) \in Memory
        /\ Thrown(proc[p], outcome).pc = proc[p].pc /\ Thrown(proc[p], outcome).inbox = proc[p].inbox
    BY <1>0, ThrownType
  <2> QED BY <1>1, <1>3, <2>1
<1>4. ASSUME NEW why \in {"interrupt", "stop", "lease_lost", "timeout"},
             proc' = [proc EXCEPT ![p] = Aborted(proc[p], why)], UNCHANGED <<system, req>>
      PROVE  OpsInv'
  <2>1. /\ Aborted(proc[p], why) \in Memory /\ Aborted(proc[p], why).pc = proc[p].pc
        /\ Aborted(proc[p], why).inbox = proc[p].inbox /\ Aborted(proc[p], why).run = proc[p].run
    BY <1>0, AbortedType
  <2> QED BY <1>1, <1>4, <2>1
<1>5. CASE MarkRunning(p)
  <2>1. proc[p].run # "none" /\ UNCHANGED <<system, req>>
    BY <1>5 DEF MarkRunning
  <2>2. CASE Owns(p)
    <3>1. proc' = [proc EXCEPT ![p] = [proc[p] EXCEPT !.run = "working", !.abort = proc[p].abort, !.outcome = proc[p].outcome]]
      <4>1. proc' = [proc EXCEPT ![p].run = "working"]
        BY <1>5, <2>2 DEF MarkRunning
      <4> QED BY <1>0, <4>1 DEF Memory
    <3> QED BY <1>2, <2>1, <3>1
  <2>3. CASE ~Owns(p)
    <3>1. proc' = [proc EXCEPT ![p] = Thrown(proc[p], "retryable")]
      BY <1>5, <2>3 DEF MarkRunning
    <3> QED BY <1>3, <2>1, <3>1
  <2> QED BY <2>2, <2>3
<1>6. CASE HandlerEnds(p)
  <2>1. proc[p].run # "none" /\ UNCHANGED <<system, req>>
    BY <1>6 DEF HandlerEnds
  <2>2. CASE proc' = [proc EXCEPT ![p].run = "complete"]
    <3>1. proc' = [proc EXCEPT ![p] = [proc[p] EXCEPT !.run = "complete", !.abort = proc[p].abort, !.outcome = proc[p].outcome]]
      BY <1>0, <2>2 DEF Memory
    <3> QED BY <1>2, <2>1, <3>1
  <2>3. ASSUME NEW o \in {"waiting", "retryable", "fatal"}, proc' = [proc EXCEPT ![p] = Thrown(proc[p], o)]
        PROVE  OpsInv'
    BY <1>3, <2>1, <2>3
  <2> QED BY <1>6, <2>2, <2>3 DEF HandlerEnds
<1>7. CASE CompleteTask(p)
  <2>1. proc[p].run # "none" /\ UNCHANGED <<system, req>>
    BY <1>7 DEF CompleteTask
  <2>2. CASE Owns(p)
    <3>1. proc' = [proc EXCEPT ![p] = [proc[p] EXCEPT !.run = "closing", !.abort = "none", !.outcome = proc[p].outcome]]
      <4>1. proc' = [proc EXCEPT ![p].run = "closing", ![p].abort = "none"]
        BY <1>7, <2>2 DEF CompleteTask
      <4> QED BY <1>0, <4>1 DEF Memory
    <3> QED BY <1>2, <2>1, <3>1
  <2>3. CASE ~Owns(p)
    <3>1. proc' = [proc EXCEPT ![p] = Thrown(proc[p], "retryable")]
      BY <1>7, <2>3 DEF CompleteTask
    <3> QED BY <1>3, <2>1, <3>1
  <2> QED BY <2>2, <2>3
<1>8. CASE CatchRun(p)
  <2>1. /\ proc[p].run # "none" /\ UNCHANGED <<system, req>>
        /\ proc' = [proc EXCEPT ![p] = [proc[p] EXCEPT !.run = "closing", !.abort = "none", !.outcome = "none"]]
    BY <1>0, <1>8 DEF CatchRun, Memory
  <2> QED BY <1>2, <2>1
<1>9. CASE AnswerPending(p)
  <2>1. PICK r \in proc[p].pending :
            /\ req' = [req EXCEPT ![r].status = "completed"]
            /\ proc' = [proc EXCEPT ![p].pending = @ \ {r}]
    BY <1>9 DEF AnswerPending
  <2> DEFINE left == proc[p].pending \ {r}
             m == [proc[p] EXCEPT !.pending = left]
  <2>2. proc' = [proc EXCEPT ![p] = m] /\ UNCHANGED system
    BY <1>9, <2>1 DEF AnswerPending
  <2>3. left \in SUBSET Nat
    BY <1>0 DEF Memory
  <2> HIDE DEF left
  <2>4. m \in Memory /\ m.pc = proc[p].pc /\ m.inbox = proc[p].inbox /\ m.run = proc[p].run
    BY <1>0, <2>3 DEF Memory
  <2> HIDE DEF m
  <2> QED BY <1>0, <2>1, <2>2, <2>4, ReqReplaced, RunKept
<1>10. CASE EndRun(p)
  <2> DEFINE m == [proc[p] EXCEPT !.run = "none", !.task = NoTask]
  <2>1. m \in Memory /\ m.pc = proc[p].pc /\ m.inbox = proc[p].inbox /\ m.run = "none"
    BY <1>0 DEF Memory
  <2>2. proc' = [proc EXCEPT ![p] = m] /\ UNCHANGED <<system, req>>
    BY <1>10 DEF EndRun
  <2> HIDE DEF m
  <2> QED BY <1>1, <2>1, <2>2
<1>11. CASE LoseTaskLease(p) \/ TaskTimeout(p)
  <2>1. /\ \E why \in {"lease_lost", "timeout"} : proc' = [proc EXCEPT ![p] = Aborted(proc[p], why)]
        /\ UNCHANGED <<system, req>>
    BY <1>11 DEF LoseTaskLease, TaskTimeout
  <2> QED BY <1>4, <2>1
<1> QED BY <1>5, <1>6, <1>7, <1>8, <1>9, <1>10, <1>11 DEF RunStep

\* What the loop of a process does in a tick.
LEMMA TickKeeps ==
    ASSUME OpsInv, NEW p \in Proc, Tick(p)
    PROVE  OpsInv'
<1>0. proc \in [Proc -> Memory] /\ proc[p] \in Memory /\ req \in Seq(ReqRow) /\ system \in System
      /\ InboxOK(proc[p], req) /\ proc[p].inbox \in Seq(Nat)
  BY DEF OpsInv, Memory, System
<1>1. ASSUME NEW m \in Memory, proc' = [proc EXCEPT ![p] = m], UNCHANGED req, system' \in System,
             m.pc # "answer", m.inbox = proc[p].inbox
      PROVE  OpsInv'
  BY <1>1, LoopKept DEF System
\* What is about to be answered is the head of the inbox.
<1>2. ASSUME NEW m \in Memory, proc' = [proc EXCEPT ![p] = m], UNCHANGED req, system' \in System,
             m.inbox = proc[p].inbox, m.inbox # <<>>,
             req[Head(m.inbox)].action = "pause" => m.run = "none"
      PROVE  OpsInv'
  <2>1. proc' \in [Proc -> Memory] /\ proc'[p] = m /\ \A q \in Proc \ {p} : proc'[q] = proc[q]
    BY <1>0, <1>2
  <2>2. InboxOK(m, req)
    BY <1>0, <1>2 DEF InboxOK
  <2>3. InboxOK(proc'[p], req')
    BY <1>2, <2>1, <2>2
  <2> QED BY <1>2, <2>1, <2>3, OpsKept, ReqUnchanged DEF System
\* A request is entrusted to the run.
<1>3. ASSUME NEW why \in {"interrupt", "stop"}, NEW e \in Memory, proc[p].inbox # <<>>,
             e.inbox = proc[p].inbox, e.pc = "apply",
             proc' = [proc EXCEPT ![p] = Aborted(Entrusted(e), why)], UNCHANGED req, system' \in System
      PROVE  OpsInv'
  <2>1. Entrusted(e) \in Memory /\ Entrusted(e).pc = "apply" /\ Entrusted(e).inbox = Tail(proc[p].inbox)
    BY <1>3, EntrustedType
  <2> DEFINE m == Aborted(Entrusted(e), why)
  <2>2. m \in Memory /\ m.pc = "apply" /\ m.inbox = Tail(proc[p].inbox)
    BY <2>1, AbortedType
  <2> HIDE DEF m
  <2>3. proc' = [proc EXCEPT ![p] = m]
    BY <1>3 DEF m
  <2> QED BY <1>3, <2>2, <2>3, LoopKept DEF System
<1>4. CASE EnsureLease(p)
  <2> DEFINE m == [proc[p] EXCEPT !.pc = "controls"]
  <2>1. m \in Memory /\ m.pc = "controls" /\ m.inbox = proc[p].inbox
    BY <1>0 DEF Memory
  <2>2. proc' = [proc EXCEPT ![p] = m] /\ UNCHANGED req
    BY <1>4 DEF EnsureLease
  <2>3. system' \in System
    BY <1>0, <1>4 DEF EnsureLease, System
  <2> HIDE DEF m
  <2> QED BY <1>1, <2>1, <2>2, <2>3
<1>5. CASE AcceptControlRequests(p)
  <2>1. PICK late \in SUBSET Requested :
            /\ req' = [r \in DOMAIN req |->
                         IF r \in late THEN [req[r] EXCEPT !.status = "expired"]
                         ELSE IF r \in Requested THEN [req[r] EXCEPT !.status = "accepted"]
                         ELSE req[r]]
            /\ proc' = [proc EXCEPT ![p].pc = "apply", ![p].inbox = InOrder(Requested \ late)]
    BY <1>5 DEF AcceptControlRequests
  <2>2. UNCHANGED system
    BY <1>5 DEF AcceptControlRequests
  <2>3. ReqKept
    <3> DEFINE row(r) == IF r \in late THEN [req[r] EXCEPT !.status = "expired"]
                         ELSE IF r \in Requested THEN [req[r] EXCEPT !.status = "accepted"]
                         ELSE req[r]
    <3>1. ASSUME NEW r \in DOMAIN req
          PROVE  row(r) \in ReqRow /\ row(r).action = req[r].action
      <4>1. req[r] \in ReqRow
        BY <1>0, ElementType
      <4>2. /\ [req[r] EXCEPT !.status = "expired"] \in ReqRow
            /\ [req[r] EXCEPT !.status = "expired"].action = req[r].action
            /\ [req[r] EXCEPT !.status = "accepted"] \in ReqRow
            /\ [req[r] EXCEPT !.status = "accepted"].action = req[r].action
        BY <4>1 DEF ReqRow
      <4> QED BY <4>1, <4>2
    <3>2. req' = [r \in DOMAIN req |-> req'[r]] /\ \A r \in DOMAIN req : req'[r] = row(r)
      BY <2>1
    <3> HIDE DEF row
    <3>3. \A r \in DOMAIN req : req'[r] \in ReqRow
      BY <3>1, <3>2
    <3>4. req' \in Seq(ReqRow) /\ DOMAIN req' = DOMAIN req
      BY <1>0, <3>2, <3>3, MappedSeq
    <3> QED BY <3>1, <3>2, <3>4 DEF ReqKept
  <2> DEFINE S == Requested \ late
             box == InOrder(S)
  <2>4. S \subseteq DOMAIN req /\ S \subseteq Nat /\ IsFiniteSet(S)
    <3>1. S \subseteq 1..Len(req) /\ DOMAIN req = 1..Len(req) /\ Len(req) \in Nat
      BY <1>0 DEF Requested
    <3>2. IsFiniteSet(1..Len(req))
      BY <3>1, FS_Interval
    <3>3. IsFiniteSet(S)
      BY <3>1, <3>2, FS_Subset
    <3> QED BY <3>1, <3>3
  <2> HIDE DEF S
  <2>5. box \in Seq(Nat) /\ \A i \in DOMAIN box : box[i] \in S
    BY <2>4, InOrderType
  <2> HIDE DEF box
  <2> DEFINE m == [proc[p] EXCEPT !.pc = "apply", !.inbox = box]
  <2>6. m \in Memory /\ m.pc = "apply" /\ m.inbox = box
    BY <1>0, <2>5 DEF Memory
  <2>7. proc' = [proc EXCEPT ![p] = m]
    BY <2>1 DEF box, S
  <2> HIDE DEF m
  <2>8. proc' \in [Proc -> Memory] /\ proc'[p] = m /\ \A q \in Proc \ {p} : proc'[q] = proc[q]
    BY <1>0, <2>6, <2>7
  <2>9. InboxOK(proc'[p], req')
    BY <2>3, <2>4, <2>5, <2>6, <2>8 DEF InboxOK, ReqKept
  <2> QED BY <1>0, <2>2, <2>3, <2>8, <2>9, OpsKept DEF System
<1>6. CASE ApplyResume(p)
  <2> DEFINE m == [proc[p] EXCEPT !.mode = "running", !.pc = "answer"]
  <2>1. m \in Memory /\ m.inbox = proc[p].inbox
    BY <1>0 DEF Memory
  <2>2. proc' = [proc EXCEPT ![p] = m] /\ UNCHANGED req /\ proc[p].inbox # <<>>
        /\ req[Head(proc[p].inbox)].action = "resume"
    BY <1>6 DEF ApplyResume, Request
  <2>3. system' \in System
    BY <1>0, <1>6 DEF ApplyResume, System
  <2> HIDE DEF m
  <2> QED BY <1>2, <2>1, <2>2, <2>3
<1>7. CASE ApplyPause(p)
  <2> DEFINE e == [proc[p] EXCEPT !.mode = "paused"]
  <2>1. e \in Memory /\ e.inbox = proc[p].inbox /\ e.pc = "apply" /\ e.run = proc[p].run
    BY <1>0, <1>7 DEF Memory, ApplyPause
  <2>2. proc' = [proc EXCEPT ![p] = PauseEffect(e)] /\ UNCHANGED req /\ proc[p].inbox # <<>>
    BY <1>7 DEF ApplyPause
  <2>3. system' \in System
    BY <1>0, <1>7 DEF ApplyPause, System
  <2> HIDE DEF e
  <2>4. CASE e.run # "none"
    <3>1. proc' = [proc EXCEPT ![p] = Aborted(Entrusted(e), "interrupt")]
      BY <2>2, <2>4 DEF PauseEffect
    <3> QED BY <1>3, <2>1, <2>2, <2>3, <3>1
  <2>5. CASE e.run = "none"
    <3> DEFINE m == [e EXCEPT !.pc = "answer"]
    <3>1. m \in Memory /\ m.inbox = e.inbox /\ m.run = e.run
      BY <2>1 DEF Memory
    <3>2. proc' = [proc EXCEPT ![p] = m]
      BY <2>2, <2>5 DEF PauseEffect
    <3> HIDE DEF m
    <3> QED BY <1>2, <2>1, <2>2, <2>3, <2>5, <3>1, <3>2
  <2> QED BY <2>4, <2>5
<1>8. CASE ApplyStopTask(p)
  <2>1. /\ proc[p].inbox # <<>> /\ req[Head(proc[p].inbox)].action = "stop_task" /\ proc[p].pc = "apply"
        /\ UNCHANGED <<system, req>>
        /\ \/ proc' = [proc EXCEPT ![p] = Aborted(Entrusted(proc[p]), "stop")]
           \/ proc' = [proc EXCEPT ![p].pc = "answer"]
    BY <1>8 DEF ApplyStopTask, Request
  <2>2. CASE proc' = [proc EXCEPT ![p] = Aborted(Entrusted(proc[p]), "stop")]
    BY <1>0, <1>3, <2>1, <2>2
  <2>3. CASE proc' = [proc EXCEPT ![p].pc = "answer"]
    <3> DEFINE m == [proc[p] EXCEPT !.pc = "answer"]
    <3>1. m \in Memory /\ m.inbox = proc[p].inbox
      BY <1>0 DEF Memory
    <3>2. proc' = [proc EXCEPT ![p] = m]
      BY <2>3
    <3> HIDE DEF m
    <3> QED BY <1>0, <1>2, <2>1, <3>1, <3>2
  <2> QED BY <2>1, <2>2, <2>3
<1>9. CASE AnswerControl(p)
  <2>1. /\ proc[p].pc = "answer" /\ UNCHANGED system
        /\ req' = [req EXCEPT ![Head(proc[p].inbox)].status = "completed"]
        /\ proc' = [proc EXCEPT ![p].pc = "apply", ![p].inbox = Tail(proc[p].inbox)]
    BY <1>9 DEF AnswerControl
  <2>2. proc[p].inbox # <<>>
    BY <1>0, <2>1 DEF InboxOK
  <2>3. ReqKept
    BY <1>0, <2>1, ReqReplaced
  <2> DEFINE box == Tail(proc[p].inbox)
  <2>4. box \in Seq(Nat) /\ \A i \in DOMAIN box : box[i] \in DOMAIN req
    BY <1>0, <2>2, TailType DEF InboxOK
  <2>5. proc' = [proc EXCEPT ![p].pc = "apply", ![p].inbox = box]
    BY <2>1
  <2> HIDE DEF box
  <2> DEFINE m == [proc[p] EXCEPT !.pc = "apply", !.inbox = box]
  <2>6. m \in Memory /\ m.pc = "apply" /\ m.inbox = box
    BY <1>0, <2>4 DEF Memory
  <2>7. proc' = [proc EXCEPT ![p] = m]
    BY <2>5
  <2> HIDE DEF m
  <2>8. proc' \in [Proc -> Memory] /\ proc'[p] = m /\ \A q \in Proc \ {p} : proc'[q] = proc[q]
    BY <1>0, <2>6, <2>7
  <2>9. InboxOK(proc'[p], req')
    BY <2>3, <2>4, <2>6, <2>8 DEF InboxOK, ReqKept
  <2> QED BY <1>0, <2>1, <2>3, <2>8, <2>9, OpsKept DEF System
<1>10. CASE ReadEmergency(p)
  <2> DEFINE next == IF ~emergency /\ proc[p].mode = "running" /\ proc[p].run = "none" THEN "claim" ELSE "loop"
             told == Told(p)
             m == [told EXCEPT !.pc = next]
  <2>1. told \in Memory /\ told.inbox = proc[p].inbox
    BY <1>0, AbortedType DEF Told
  <2>2. next \in {"claim", "loop"}
    OBVIOUS
  <2>3. proc' = [proc EXCEPT ![p] = m] /\ UNCHANGED <<system, req>>
    BY <1>10 DEF ReadEmergency
  <2> HIDE DEF told, next
  <2>4. m \in Memory /\ m.pc # "answer" /\ m.inbox = proc[p].inbox
    BY <2>1, <2>2 DEF Memory
  <2> HIDE DEF m
  <2> QED BY <1>0, <1>1, <2>3, <2>4
<1>11. CASE ClaimTask(p)
  <2>1. /\ UNCHANGED <<system, req>>
        /\ \/ \E t \in Task : proc' = [proc EXCEPT ![p].pc = "loop", ![p].run = "marking", ![p].task = t]
           \/ proc' = [proc EXCEPT ![p].pc = "loop"]
    BY <1>11 DEF ClaimTask
  <2>2. ASSUME NEW t \in Task, proc' = [proc EXCEPT ![p].pc = "loop", ![p].run = "marking", ![p].task = t]
        PROVE  OpsInv'
    <3> DEFINE m == [proc[p] EXCEPT !.pc = "loop", !.run = "marking", !.task = t]
    <3>1. m \in Memory /\ m.pc # "answer" /\ m.inbox = proc[p].inbox
      BY <1>0 DEF Memory
    <3>2. proc' = [proc EXCEPT ![p] = m]
      BY <2>2
    <3> HIDE DEF m
    <3> QED BY <1>0, <1>1, <2>1, <3>1, <3>2
  <2>3. CASE proc' = [proc EXCEPT ![p].pc = "loop"]
    <3> DEFINE m == [proc[p] EXCEPT !.pc = "loop"]
    <3>1. m \in Memory /\ m.pc # "answer" /\ m.inbox = proc[p].inbox
      BY <1>0 DEF Memory
    <3>2. proc' = [proc EXCEPT ![p] = m]
      BY <2>3
    <3> HIDE DEF m
    <3> QED BY <1>0, <1>1, <2>1, <3>1, <3>2
  <2> QED BY <2>1, <2>2, <2>3
<1> QED BY <1>4, <1>5, <1>6, <1>7, <1>8, <1>9, <1>10, <1>11 DEF Tick

LEMMA OpsStep == OpsInv /\ [Next]_vars => OpsInv'
<1> SUFFICES ASSUME OpsInv, [Next]_vars
             PROVE  OpsInv'
  OBVIOUS
<1>0. proc \in [Proc -> Memory] /\ req \in Seq(ReqRow) /\ system \in System
      /\ \A p \in Proc : InboxOK(proc[p], req)
  BY DEF OpsInv, System
<1>1. ASSUME UNCHANGED <<req, proc>>, system' \in System
      PROVE  OpsInv'
  BY <1>1 DEF OpsInv, System
<1>2. CASE UNCHANGED vars \/ (\E t \in Task : EnqueueTask(t) \/ CancelRoute(t)) \/ (\E e \in BOOLEAN : EmergencyStop(e))
  <2>1. UNCHANGED <<req, proc, system>>
    BY <1>2 DEF vars, EnqueueTask, CancelRoute, EmergencyStop
  <2> QED BY <1>0, <1>1, <2>1
<1>3. CASE ProcessLeaseExpires
  <2>1. UNCHANGED <<req, proc>> /\ system' \in System
    BY <1>0, <1>3 DEF ProcessLeaseExpires, System
  <2> QED BY <1>1, <2>1
<1>4. ASSUME NEW action \in {"pause", "resume", "stop_task"}, NEW t \in Task \cup {NoTask},
             CreateControlRequest(action, t)
      PROVE  OpsInv'
  <2> DEFINE row == [action |-> action, task |-> t, status |-> "requested"]
  <2>1. row \in ReqRow /\ req' = Append(req, row) /\ UNCHANGED <<system, proc>>
    BY <1>4 DEF CreateControlRequest, ReqRow
  <2> HIDE DEF row
  <2>2. ReqKept
    BY <1>0, <2>1 DEF ReqKept
  <2>3. ASSUME NEW p \in Proc
        PROVE  InboxOK(proc[p], req')
    BY <1>0, <2>2, InboxKept
  <2> QED BY <2>1, <2>2, <2>3 DEF OpsInv, ReqKept
<1>5. ASSUME NEW p \in Proc, Boot(p)
      PROVE  OpsInv'
  <2> DEFINE m == [proc[p] EXCEPT !.pc = "loop", !.mode = system.mode]
  <2>1. m \in Memory /\ m.pc # "answer" /\ m.inbox = proc[p].inbox
    BY ZenonT(60), <1>0 DEF Memory, System
  <2>2. proc' = [proc EXCEPT ![p] = m] /\ UNCHANGED <<system, req>>
    BY <1>5 DEF Boot
  <2> HIDE DEF m
  <2> QED BY <1>0, <2>1, <2>2, LoopKept DEF System
<1>6. ASSUME NEW p \in Proc, Shutdown(p)
      PROVE  OpsInv'
  <2> DEFINE a == Aborted(proc[p], "interrupt")
             m == [a EXCEPT !.pc = "stopping"]
  <2>1. a \in Memory /\ a.inbox = proc[p].inbox
    BY <1>0, AbortedType
  <2>2. proc' = [proc EXCEPT ![p] = m] /\ UNCHANGED <<system, req>>
    BY <1>6 DEF Shutdown
  <2> HIDE DEF a
  <2>3. m \in Memory /\ m.pc # "answer" /\ m.inbox = proc[p].inbox
    BY <2>1 DEF Memory
  <2> HIDE DEF m
  <2> QED BY <1>0, <2>2, <2>3, LoopKept DEF System
<1>7. ASSUME NEW p \in Proc, Exit(p) \/ Crash(p)
      PROVE  OpsInv'
  <2>1. proc' = [proc EXCEPT ![p] = Off] /\ UNCHANGED req
    BY <1>7 DEF Exit, Crash
  <2>2. system' \in System
    BY <1>0, <1>7 DEF Exit, Crash, System
  <2> QED BY <2>1, <2>2, OffType, LoopKept DEF System
<1> QED
  BY <1>2, <1>3, <1>4, <1>5, <1>6, <1>7, TickKeeps, RunStepKeeps DEF Next

\* A pause is reported done only when the process that accepted it has stopped
\* working on its task, however the processes, their runs and the
\* administrator interleave.
THEOREM PausesAreDoneWhenReported == Spec => PauseDoneMeansStopped
<1>1. Init => OpsInv
  <2> SUFFICES ASSUME Init
               PROVE  OpsInv
    OBVIOUS
  <2>1. req \in Seq(ReqRow) /\ proc \in [Proc -> Memory] /\ \A p \in Proc : proc[p] = Off
    BY OffType DEF Init
  <2>2. system \in System
    BY DEF Init, System
  <2>3. \A p \in Proc : InboxOK(proc[p], req)
    BY <2>1, OffType DEF InboxOK
  <2> QED BY <2>1, <2>2, <2>3 DEF OpsInv, System
<1>2. OpsInv /\ [Next]_vars =>
        [\A r \in DOMAIN req :
            (req[r].action = "pause" /\ req[r].status = "accepted" /\ req'[r].status = "completed") =>
                \E p \in Proc : /\ r \in HeldBy(p)
                                /\ proc[p].run \in {"none", "closing"}]_vars
  <2> SUFFICES ASSUME OpsInv, Next, NEW r \in DOMAIN req,
                      req[r].action = "pause", req[r].status = "accepted", req'[r].status = "completed"
               PROVE  \E p \in Proc : r \in HeldBy(p) /\ proc[p].run \in {"none", "closing"}
    OBVIOUS
  <2>0. req \in Seq(ReqRow) /\ proc \in [Proc -> Memory] /\ \A p \in Proc : InboxOK(proc[p], req)
    BY DEF OpsInv
  <2>1. ASSUME NEW p \in Proc, AnswerControl(p)
        PROVE  r \in HeldBy(p) /\ proc[p].run \in {"none", "closing"}
    <3>1. proc[p].pc = "answer" /\ req' = [req EXCEPT ![Head(proc[p].inbox)].status = "completed"]
      BY <2>1 DEF AnswerControl
    <3>2. proc[p].inbox # <<>> /\ proc[p].inbox \in Seq(Nat)
      BY <2>0, <3>1 DEF InboxOK, Memory
    <3>3. r = Head(proc[p].inbox)
      BY <2>0, <3>1, ReqReplaced
    <3>4. 1 \in DOMAIN proc[p].inbox /\ Head(proc[p].inbox) = proc[p].inbox[1]
      BY <3>2, TailType
    <3>5. proc[p].run = "none"
      BY <2>0, <3>1, <3>3 DEF InboxOK
    <3> QED BY <3>3, <3>4, <3>5 DEF HeldBy
  <2>2. ASSUME NEW p \in Proc, AnswerPending(p)
        PROVE  r \in HeldBy(p) /\ proc[p].run \in {"none", "closing"}
    <3>1. PICK q \in proc[p].pending : req' = [req EXCEPT ![q].status = "completed"]
      BY <2>2 DEF AnswerPending
    <3>2. r = q
      BY <2>0, <3>1, ReqReplaced
    <3> QED BY <2>2, <3>2 DEF HeldBy, AnswerPending
  <2>3. ASSUME NEW p \in Proc, AcceptControlRequests(p)
        PROVE  FALSE
    <3>1. PICK late \in SUBSET Requested :
              req' = [q \in DOMAIN req |->
                         IF q \in late THEN [req[q] EXCEPT !.status = "expired"]
                         ELSE IF q \in Requested THEN [req[q] EXCEPT !.status = "accepted"]
                         ELSE req[q]]
      BY <2>3 DEF AcceptControlRequests
    <3>2. r \notin Requested
      BY DEF Requested
    <3> QED BY <3>1, <3>2
  <2>4. ASSUME NEW action, NEW t, CreateControlRequest(action, t)
        PROVE  FALSE
    <3> DEFINE row == [action |-> action, task |-> t, status |-> "requested"]
    <3>1. req' = Append(req, row)
      BY <2>4 DEF CreateControlRequest
    <3> HIDE DEF row
    <3>2. req'[r] = req[r]
      BY <2>0, <3>1
    <3> QED BY <3>2
  <2>5. ASSUME UNCHANGED req
        PROVE  FALSE
    BY <2>5
  <2>6. ASSUME NEW p \in Proc,
               \/ Boot(p) \/ Shutdown(p) \/ Exit(p) \/ Crash(p)
               \/ EnsureLease(p) \/ ApplyResume(p) \/ ApplyPause(p) \/ ApplyStopTask(p) \/ ReadEmergency(p)
               \/ ClaimTask(p) \/ MarkRunning(p) \/ CompleteTask(p) \/ CatchRun(p) \/ EndRun(p)
               \/ HandlerEnds(p) \/ LoseTaskLease(p) \/ TaskTimeout(p)
        PROVE  UNCHANGED req
    BY <2>6 DEF Boot, Shutdown, Exit, Crash, EnsureLease, ApplyResume, ApplyPause, ApplyStopTask, ReadEmergency,
                ClaimTask, MarkRunning, CompleteTask, CatchRun, EndRun, HandlerEnds, LoseTaskLease, TaskTimeout
  <2>7. ASSUME \/ \E t \in Task : EnqueueTask(t) \/ CancelRoute(t)
               \/ \E e \in BOOLEAN : EmergencyStop(e)
               \/ ProcessLeaseExpires
        PROVE  UNCHANGED req
    BY <2>7 DEF EnqueueTask, CancelRoute, EmergencyStop, ProcessLeaseExpires
  <2> QED BY <2>1, <2>2, <2>3, <2>4, <2>5, <2>6, <2>7 DEF Next, Tick, RunStep
<1> QED BY <1>1, <1>2, OpsStep, PTL DEF Spec, PauseDoneMeansStopped
=============================================================================
