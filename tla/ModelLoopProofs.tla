--------------------------- MODULE ModelLoopProofs ---------------------------
(***************************************************************************)
(* Theorems about the model graph of a task and the loop that grows it,    *)
(* for any ceiling of repair cycles, any finite set of changes a user may  *)
(* submit, any plans of any steps, and any steps that ask for a permission. *)
(***************************************************************************)
EXTENDS ModelLoop, FiniteSetTheorems, TLAPS

-----------------------------------------------------------------------------
(* The keys, and the greatest of some cycles                                *)

\* The keys a graph may hold, as far as this proof bounds them: that a cycle
\* stays below LastCycle is shown of a graph nobody replanned.
StoredKey == {Plan, Implement}
    \cup ((Step \cup {"review", "verify"}) \X (Nat \ {0}))
    \cup ({"repair"} \X {c \in Nat : 0 < c /\ c < MaxRepairCycles})
    \cup ({"replan", "rework"} \X Nat)

LEMMA GreatestOf ==
    ASSUME NEW n \in Nat, NEW S, S \subseteq 0..n, S # {}
    PROVE  Max(S) \in S /\ \A s \in S : s <= Max(S)
<1> DEFINE T == {b \in Nat : \A s \in S : s <= b}
<1>1. n \in T /\ T \subseteq Nat
  OBVIOUS
<1>2. PICK b \in T : \A x \in T : ~(<<x, b>> \in OpToRel(<, Nat))
  BY <1>1, WFMin, NatLessThanWellFounded
<1>3. \A x \in T : b <= x
  <2> SUFFICES ASSUME NEW x \in T
               PROVE  b <= x
    OBVIOUS
  <2>1. x \in Nat /\ b \in Nat /\ ~(x < b)
    BY <1>2 DEF OpToRel
  <2> QED BY <2>1
<1>4. b \in S
  <2> SUFFICES ASSUME b \notin S
               PROVE  FALSE
    OBVIOUS
  <2>1. PICK s \in S : TRUE
    OBVIOUS
  <2>2. s \in Nat /\ s < b /\ b \in Nat
    BY <2>1
  <2>3. b - 1 \in T
    BY <2>2
  <2> QED BY <1>3, <2>2, <2>3
<1>5. \A s \in S : b >= s
  OBVIOUS
<1> QED BY <1>4, <1>5 DEF Max

LEMMA LastCycleNat == LastCycle \in Nat \ {0} /\ MaxRepairCycles <= LastCycle
<1>1. MaxRepairCycles \in Nat /\ Cardinality(Change) \in Nat
  BY ModelLoopAssumption, FS_CardinalityType
<1>2. {MaxRepairCycles, 1} \subseteq 0..(MaxRepairCycles + 1) /\ MaxRepairCycles + 1 \in Nat
  BY <1>1
<1>3. /\ Max({MaxRepairCycles, 1}) \in {MaxRepairCycles, 1}
      /\ \A s \in {MaxRepairCycles, 1} : s <= Max({MaxRepairCycles, 1})
  BY <1>2, GreatestOf
<1> QED BY <1>1, <1>3 DEF LastCycle

\* A cycle is executed when some step of it is stored.
Executed(c) == \E t \in Step : <<t, c>> \in nodes

LEMMA HighestNat ==
    /\ HighestExec \in Nat /\ HighestExec <= LastCycle
    /\ HighestExec # 0 => Executed(HighestExec)
    /\ \A c \in 0..LastCycle : Executed(c) => c <= HighestExec
<1> DEFINE S == ExecCycles \cup {0}
<1>1. S \subseteq 0..LastCycle /\ S # {} /\ LastCycle \in Nat
  BY LastCycleNat DEF ExecCycles
<1>2. Max(S) \in S /\ \A c \in S : c <= Max(S)
  <2> HIDE DEF S
  <2> QED BY <1>1, GreatestOf
<1>3. Max(S) = HighestExec
  BY DEF HighestExec
<1>4. \A c \in 0..LastCycle : Executed(c) => c \in S
  BY DEF Executed, ExecCycles
<1>5. \A c \in S : c # 0 => Executed(c)
  BY DEF Executed, ExecCycles
<1> HIDE DEF S
<1>6. HighestExec \in Nat /\ HighestExec <= LastCycle
  <2>1. HighestExec \in 0..LastCycle
    BY <1>1, <1>2, <1>3
  <2> QED BY <1>1, <2>1
<1> QED BY <1>2, <1>3, <1>4, <1>5, <1>6

\* The steps are no model nodes.
LEMMA StepKinds ==
    \A t \in Step : /\ t # "plan" /\ t # "implement" /\ t # "review" /\ t # "verify"
                    /\ t # "repair" /\ t # "replan" /\ t # "rework" /\ t # "none"
BY ModelLoopAssumption DEF ModelKinds

LEMMA KeysOf ==
    /\ \A c \in Cycle : {<<"review", c>>, <<"verify", c>>} \subseteq Key
    /\ \A c \in Cycle : \A t \in Step : <<t, c>> \in Key
    /\ {Plan, Implement} \subseteq Key
    /\ \A c : <<"repair", c>> \in StoredKey => <<"repair", c>> \in Key /\ c \in Cycle
    /\ \A c : \A t \in Step : <<t, c>> \in StoredKey => c \in Nat \ {0}
    /\ \A c : <<"review", c>> \in StoredKey => c \in Nat \ {0}
    /\ \A c : <<"verify", c>> \in StoredKey => c \in Nat \ {0}
    /\ \A c : <<"repair", c>> \in StoredKey => c \in Nat \ {0} /\ c < MaxRepairCycles
    /\ NoKey \notin StoredKey
    /\ \A c \in 0..LastCycle : <<"rework", c>> \in Key /\ <<"replan", c>> \in Key
<1>1. LastCycle \in Nat \ {0} /\ MaxRepairCycles <= LastCycle /\ MaxRepairCycles \in Nat
  BY LastCycleNat, ModelLoopAssumption
<1>2. /\ \A c \in Cycle : {<<"review", c>>, <<"verify", c>>} \subseteq Key
      /\ \A c \in Cycle : \A t \in Step : <<t, c>> \in Key
  BY DEF Key
<1>3. {Plan, Implement} \subseteq Key
  BY DEF Key, Plan, Implement
<1>4. \A c : <<"repair", c>> \in StoredKey => c \in Nat \ {0} /\ c < MaxRepairCycles
  BY StepKinds DEF StoredKey, Plan, Implement
<1>5. \A c : <<"repair", c>> \in StoredKey => <<"repair", c>> \in Key /\ c \in Cycle
  BY <1>1, <1>4 DEF Key, Cycle
<1>6. /\ \A c : \A t \in Step : <<t, c>> \in StoredKey => c \in Nat \ {0}
      /\ \A c : <<"review", c>> \in StoredKey => c \in Nat \ {0}
      /\ \A c : <<"verify", c>> \in StoredKey => c \in Nat \ {0}
  BY StepKinds DEF StoredKey, Plan, Implement
<1>7. NoKey \notin StoredKey
  BY StepKinds DEF StoredKey, Plan, Implement, NoKey
<1>8. \A c \in 0..LastCycle : <<"rework", c>> \in Key /\ <<"replan", c>> \in Key
  BY DEF Key
<1> QED BY <1>2, <1>3, <1>4, <1>5, <1>6, <1>7, <1>8

-----------------------------------------------------------------------------
(* What readiness changes                                                   *)

St == {"pending", "ready", "running", "succeeded", "failed", "skipped"}

LEMMA Readied1 ==
    ASSUME NEW deps, NEW st \in [Key -> St], NEW N
    PROVE  /\ D(deps)!Readiness(st, N) \in [Key -> St]
           /\ \A k \in Key : st[k] \notin {"pending", "ready"} => D(deps)!Readiness(st, N)[k] = st[k]
           /\ \A k \in Key : st[k] \in {"pending", "ready"} =>
                  D(deps)!Readiness(st, N)[k] \in {"pending", "ready", "skipped"}
<1>1. \A k \in D(deps)!SkipSet(st, N) : st[k] \in {"pending", "ready"}
  BY DEF D!SkipSet, D!Open
<1>2. ASSUME NEW k \in Key
      PROVE  /\ D(deps)!Readiness(st, N)[k] =
                    IF k \in D(deps)!SkipSet(st, N) THEN "skipped"
                    ELSE IF k \in N /\ st[k] = "pending" /\ D(deps)!Satisfied(st, k) THEN "ready"
                    ELSE st[k]
             /\ D(deps)!Readiness(st, N)[k] \in St
  <2>1. st[k] \in St
    OBVIOUS
  <2> QED BY <2>1 DEF D!Readiness, St
<1>3. D(deps)!Readiness(st, N) \in [Key -> St]
  BY <1>2 DEF D!Readiness
<1> QED BY <1>1, <1>2, <1>3

\* A node that is begun has every dependency behind it, unless it takes them
\* settled.
Begun == {"ready", "running", "succeeded", "failed"}

LEMMA ReadiedBegins ==
    ASSUME NEW deps, NEW st \in [Key -> St], NEW N,
           NEW k \in Key, k \notin Settling, st[k] \notin Begun,
           D(deps)!Readiness(st, N)[k] \in Begun
    PROVE  \A d \in deps[k] : d \in Key => D(deps)!Readiness(st, N)[d] = "succeeded"
<1>1. D(deps)!Readiness(st, N)[k] =
          IF k \in D(deps)!SkipSet(st, N) THEN "skipped"
          ELSE IF k \in N /\ st[k] = "pending" /\ D(deps)!Satisfied(st, k) THEN "ready"
          ELSE st[k]
  BY DEF D!Readiness
<1>2. D(deps)!Satisfied(st, k)
  BY <1>1 DEF Begun
<1>3. \A d \in deps[k] : st[d] = "succeeded"
  BY <1>2 DEF D!Satisfied
<1> QED BY <1>3, Readied1

-----------------------------------------------------------------------------
(* What is invariant of every graph                                         *)

Verdict == {"pass", "revise", "block"}
Output == Verdict \cup {"none", "steps", "nothing", "done"}

\* The shape of a transition.
IsTick(t) == t = [pc |-> t.pc, act |-> t.act, failed |-> t.failed, node |-> t.node]

TypeOK ==
    /\ nodes \subseteq StoredKey
    /\ status \in [Key -> St]
    /\ output \in [Key -> Output]
    /\ evidence \in [Cycle -> {"none", "passed", "failed"}]
    /\ IsTick(tick)
    /\ change = [x \in Change |-> change[x]]

\* Cycle c executes plan behind its producer p.
Planned(c, plan, p) ==
    /\ \A t \in Step : <<t, c>> \in nodes <=> t \in DOMAIN plan
    /\ \A t \in DOMAIN plan :
          dependsOn[<<t, c>>] = IF plan[t] = {} THEN {p} ELSE StepNodes(c, plan[t])
    /\ dependsOn[<<"review", c>>] = StepNodes(c, LastSteps(plan))

\* A review stands behind the steps of a plan that was finished, a step that is
\* begun behind finished steps, and a review that succeeded has decided.
CyclesAreOrdered ==
    \A c \in Cycle :
        /\ \A t \in Step : <<t, c>> \in nodes => <<"review", c>> \in nodes
        /\ <<"review", c>> \in nodes =>
              \E plan \in Plans : \E p \in Key : Planned(c, plan, p) /\ Succeeded(p)
        /\ <<"review", c>> \in nodes =>
              \A t \in Step : <<t, c>> \in nodes /\ status[<<t, c>>] \in Begun =>
                  \A d \in dependsOn[<<t, c>>] : Succeeded(d)
        /\ Succeeded(<<"review", c>>) => output[<<"review", c>>] \in Verdict

Reviewed(c) == c \in Cycle /\ Succeeded(<<"review", c>>)

Verified(c) ==
    /\ Reviewed(c) /\ output[<<"review", c>>] = "pass"
    /\ Succeeded(<<"verify", c>>)

\* What the loop decided stays true until it acts: workers and the user are in
\* between.
DecisionHolds(act) ==
    /\ act.do = "expand-execution" => act.cycle \in 1..(LastCycle + 1) /\ Succeeded(ProducerFor(act.cycle))
    /\ act.do = "expand-repair" => Reviewed(act.cycle) /\ act.cycle < MaxRepairCycles
    /\ act.do = "expand-verify" => Reviewed(act.cycle)
    /\ act.do = "verified" => Verified(act.cycle)

TickInv ==
    /\ tick.pc = "act" => DecisionHolds(tick.act)
    /\ tick.pc = "complete" => Verified(tick.act.cycle) /\ evidence[tick.act.cycle] = "passed"

ChangeInv ==
    \A x \in Change : change[x].state = "replan" =>
        DOMAIN change[x].new \subseteq {"replan", "rework"} \X Nat

LoopInv == TypeOK /\ CyclesAreOrdered /\ TickInv /\ ChangeInv

-----------------------------------------------------------------------------
(* What no step undoes                                                      *)

Kept ==
    /\ nodes \subseteq nodes'
    /\ status' \in [Key -> St] /\ output' \in [Key -> Output]
    /\ \A k \in Key : k \in nodes =>
          /\ dependsOn'[k] = dependsOn[k]
          /\ status[k] = "succeeded" => status'[k] = "succeeded" /\ output'[k] = output[k]
          /\ (status[k] = "ready" /\ status'[k] = "running") =>
                D(dependsOn)!Satisfied(status, k) /\ D(dependsOn)!Causes(status, k) = {}
    /\ \A k \in Key : (k \in nodes' /\ k \notin nodes) => status'[k] # "succeeded"
    /\ \A k \in Key :
          (k \in nodes' /\ k \notin Settling /\ status'[k] \in Begun /\
             ~(k \in nodes /\ status[k] \in Begun)) =>
                \A d \in dependsOn'[k] : d \in Key => status'[d] = "succeeded"
    /\ \A c \in Cycle :
          (<<"review", c>> \in nodes /\ status[<<"review", c>>] # "succeeded"
              /\ status'[<<"review", c>>] = "succeeded") => output'[<<"review", c>>] \in Verdict

LEMMA KeptSame ==
    ASSUME TypeOK, UNCHANGED <<nodes, status, dependsOn, output>>
    PROVE  Kept
BY DEF TypeOK, Kept

LEMMA KeptClaim ==
    ASSUME TypeOK, NEW k \in Claimable, status' = [status EXCEPT ![k] = "running"],
           UNCHANGED <<nodes, dependsOn, output>>
    PROVE  Kept
<1>1. /\ status \in [Key -> St] /\ output \in [Key -> Output]
      /\ k \in nodes /\ status[k] = "ready"
      /\ D(dependsOn)!Satisfied(status, k) /\ D(dependsOn)!Causes(status, k) = {}
  BY DEF TypeOK, Claimable, D!Claimable
<1>2. status' \in [Key -> St] /\ \A j \in Key : status'[j] = IF j = k THEN "running" ELSE status[j]
  BY <1>1 DEF St
<1>3. "ready" \in Begun
  BY DEF Begun
<1> QED BY <1>1, <1>2, <1>3 DEF Kept

LEMMA ResultsTyped ==
    ASSUME NEW kind, NEW r \in Results(kind)
    PROVE  r \in Output /\ (kind = "review" => r \in Verdict)
<1> DEFINE isReview == kind = "review"
           isProducer == kind \in Producers
<1>1. Results(kind) = IF isReview THEN Verdict
                      ELSE IF isProducer THEN {"steps", "nothing"} ELSE {"done"}
  <2>1. isReview => ~isProducer
    BY DEF Producers
  <2>2. Verdict = {"pass", "revise", "block"}
    BY DEF Verdict
  <2> QED BY <2>1, <2>2 DEF Results
<1> HIDE DEF isProducer
<1> QED BY <1>1 DEF Output, Verdict

LEMMA KeptSettle ==
    ASSUME TypeOK, NEW k, Settle(k)
    PROVE  Kept
<1>0. /\ status \in [Key -> St] /\ output \in [Key -> Output] /\ status[k] = "running"
      /\ UNCHANGED <<nodes, dependsOn>>
  BY DEF TypeOK, Settle
<1>1. ASSUME NEW s \in St, status' = Readied([status EXCEPT ![k] = s]),
             output' = output, s # "succeeded"
      PROVE  Kept
  <2> DEFINE st == [status EXCEPT ![k] = s]
  <2>1. st \in [Key -> St] /\ \A j \in Key : st[j] = IF j = k THEN s ELSE status[j]
    BY <1>0
  <2>2. status' = D(dependsOn)!Readiness(st, nodes)
    BY <1>1 DEF Readied
  <2> HIDE DEF st
  <2>3. /\ status' \in [Key -> St]
        /\ \A j \in Key : st[j] \notin {"pending", "ready"} => status'[j] = st[j]
        /\ \A j \in Key : st[j] \in {"pending", "ready"} => status'[j] \in {"pending", "ready", "skipped"}
    BY <2>1, <2>2, Readied1
  <2>4. \A j \in Key : /\ status[j] = "succeeded" => status'[j] = "succeeded"
                       /\ status[j] # "succeeded" => status'[j] # "succeeded"
                       /\ status[j] = "ready" => status'[j] # "running"
    BY <1>0, <1>1, <2>1, <2>3
  <2>5. \A c \in Cycle : <<"review", c>> \in Key
    BY KeysOf
  <2>6. \A j \in Key : j \notin Settling /\ status'[j] \in Begun /\ status[j] \notin Begun =>
            \A d \in dependsOn[j] : d \in Key => status'[d] = "succeeded"
    <3>1. "running" \in Begun
      BY DEF Begun
    <3> QED BY <1>0, <2>1, <2>2, <3>1, ReadiedBegins
  <2> QED BY <1>0, <1>1, <2>3, <2>4, <2>5, <2>6 DEF Kept
<1>2. ASSUME NEW r \in Results(k[1]), output' = [output EXCEPT ![k] = r],
             status' = Readied([status EXCEPT ![k] = "succeeded"])
      PROVE  Kept
  <2> DEFINE st == [status EXCEPT ![k] = "succeeded"]
  <2>0. "succeeded" \in St
    BY DEF St
  <2>1. st \in [Key -> St] /\ \A j \in Key : st[j] = IF j = k THEN "succeeded" ELSE status[j]
    BY <1>0, <2>0
  <2>2. status' = D(dependsOn)!Readiness(st, nodes)
    BY <1>2 DEF Readied
  <2> HIDE DEF st
  <2>3. /\ status' \in [Key -> St]
        /\ \A j \in Key : st[j] \notin {"pending", "ready"} => status'[j] = st[j]
        /\ \A j \in Key : st[j] \in {"pending", "ready"} => status'[j] \in {"pending", "ready", "skipped"}
    BY <2>1, <2>2, Readied1
  <2>4. \A j \in Key : /\ status[j] = "succeeded" => status'[j] = "succeeded" /\ j # k
                       /\ (status[j] # "succeeded" /\ j # k) => status'[j] # "succeeded"
                       /\ status[j] = "ready" => status'[j] # "running"
    BY <1>0, <2>1, <2>3
  <2>5. /\ output' \in [Key -> Output]
        /\ \A j \in Key : output'[j] = IF j = k THEN r ELSE output[j]
    BY <1>0, <1>2, ResultsTyped
  <2>6. \A c \in Cycle : <<"review", c>> \in Key /\ (k = <<"review", c>> => r \in Verdict)
    <3> SUFFICES ASSUME NEW c \in Cycle
                 PROVE  <<"review", c>> \in Key /\ (k = <<"review", c>> => r \in Verdict)
      OBVIOUS
    <3>1. k = <<"review", c>> => k[1] = "review"
      OBVIOUS
    <3> QED BY <1>2, <3>1, KeysOf, ResultsTyped
  <2>7. \A j \in Key : j \notin Settling /\ status'[j] \in Begun /\ status[j] \notin Begun =>
            \A d \in dependsOn[j] : d \in Key => status'[d] = "succeeded"
    <3>1. "running" \in Begun
      BY DEF Begun
    <3> QED BY <1>0, <2>1, <2>2, <3>1, ReadiedBegins
  <2> QED BY <1>0, <2>3, <2>4, <2>5, <2>6, <2>7 DEF Kept
<1>3. ASSUME status' = [status EXCEPT ![k] = "ready"], output' = output
      PROVE  Kept
  <2>1. /\ status' \in [Key -> St]
        /\ \A j \in Key : status'[j] = IF j = k THEN "ready" ELSE status[j]
    BY <1>0, <1>3 DEF St
  <2>2. \A c \in Cycle : <<"review", c>> \in Key
    BY KeysOf
  <2>3. "running" \in Begun
    BY DEF Begun
  <2> QED BY <1>0, <1>3, <2>1, <2>2, <2>3 DEF Kept
<1>4. "failed" \in St
  BY DEF St
<1> QED BY <1>1, <1>2, <1>3, <1>4 DEF Settle

\* What is appended waits, or is skipped at once; nothing else changes but what
\* was waiting.
LEMMA KeptAppend ==
    ASSUME TypeOK, NEW new, Append(new), DOMAIN new \cap nodes = {}
    PROVE  /\ Kept
           /\ nodes' = nodes \cup DOMAIN new
           /\ \A k \in Key : k \in DOMAIN new => dependsOn'[k] = new[k]
<1> DEFINE N == nodes \cup DOMAIN new
           deps == [k \in Key |-> IF k \in DOMAIN new THEN new[k] ELSE dependsOn[k]]
           st == [k \in Key |-> IF k \in DOMAIN new THEN "pending" ELSE status[k]]
<1>1. /\ nodes' = N /\ dependsOn' = deps /\ status' = D(deps)!Readiness(st, N) /\ output' = output
  BY DEF Append
<1>2. /\ st \in [Key -> St] /\ \A k \in Key : st[k] = IF k \in DOMAIN new THEN "pending" ELSE status[k]
      /\ \A k \in Key : deps[k] = IF k \in DOMAIN new THEN new[k] ELSE dependsOn[k]
  BY DEF TypeOK, St
<1> HIDE DEF st, deps
<1>3. /\ status' \in [Key -> St]
      /\ \A k \in Key : st[k] \notin {"pending", "ready"} => status'[k] = st[k]
      /\ \A k \in Key : st[k] \in {"pending", "ready"} => status'[k] \in {"pending", "ready", "skipped"}
  BY <1>1, <1>2, Readied1
<1>4. \A c \in Cycle : <<"review", c>> \in Key
  BY KeysOf
<1>5. \A j \in Key : j \notin Settling /\ status'[j] \in Begun /\
             ~(j \in nodes /\ status[j] \in Begun) /\ j \in nodes' =>
                 \A d \in dependsOn'[j] : d \in Key => status'[d] = "succeeded"
  <2>1. "pending" \notin Begun
    BY DEF Begun
  <2>2. \A j \in Key : ~(j \in nodes /\ status[j] \in Begun) /\ j \in nodes' => st[j] \notin Begun
    BY <1>1, <1>2, <2>1
  <2> QED BY <1>1, <1>2, <2>2, ReadiedBegins
<1>6. Kept
  BY <1>1, <1>2, <1>3, <1>4, <1>5 DEF Kept, TypeOK
<1> QED BY <1>1, <1>2, <1>6

\* What waits again after a permission was granted, before readiness.
LEMMA AnswerIs ==
    ASSUME TypeOK, NEW k, AnswerPermission(k)
    PROVE  /\ UNCHANGED <<nodes, dependsOn, output>>
           /\ \/ status' = status
              \/ \E st \in [Key -> St] :
                    /\ status' = D(dependsOn)!Readiness(st, nodes)
                    /\ \A j \in Key : \/ st[j] = status[j]
                                      \/ st[j] = "pending" /\ status[j] = "skipped" /\ j \notin Settling
                                      \/ st[j] = "pending" /\ status[j] = "failed" /\ j = k
<1>1. UNCHANGED <<nodes, dependsOn, output>> /\ status' \in {status} \cup Reopened(k)
  BY DEF AnswerPermission
<1>2. CASE status' = status
  BY <1>1, <1>2
<1>3. CASE status' # status
  <2>1. status' \in Reopened(k) /\ status[k] = "failed"
    BY <1>1, <1>3 DEF Reopened
  <2>2. PICK revived \in SUBSET {m \in nodes : status[m] = "skipped"
                                               /\ k \in D(dependsOn)!Causes(status, m)} :
            status' = Readied([m \in Key |-> IF m \in revived \cup {k} THEN "pending" ELSE status[m]])
    BY <2>1 DEF Reopened
  <2> DEFINE st == [m \in Key |-> IF m \in revived \cup {k} THEN "pending" ELSE status[m]]
  <2>3. st \in [Key -> St] /\ \A j \in Key : st[j] = IF j \in revived \cup {k} THEN "pending" ELSE status[j]
    BY DEF TypeOK, St
  <2>4. status' = D(dependsOn)!Readiness(st, nodes)
    BY <2>2 DEF Readied
  <2> HIDE DEF st
  <2>5. \A m \in revived : status[m] = "skipped" /\ m \notin Settling
    BY <2>1, <2>2 DEF D!Causes, D!DoomsIt
  <2> QED BY <1>1, <2>1, <2>3, <2>4, <2>5
<1> QED BY <1>2, <1>3

LEMMA KeptAnswer ==
    ASSUME TypeOK, NEW c, AnswerPermission(c)
    PROVE  Kept
<1>1. CASE status' = status
  BY <1>1, KeptSame, AnswerIs
<1>2. ASSUME NEW st \in [Key -> St],
             status' = D(dependsOn)!Readiness(st, nodes),
             \A j \in Key : \/ st[j] = status[j]
                            \/ st[j] = "pending" /\ status[j] \in {"skipped", "failed"}
      PROVE  Kept
  <2>2. UNCHANGED <<nodes, dependsOn, output>>
    BY AnswerIs
  <2>3. /\ status' \in [Key -> St]
        /\ \A j \in Key : st[j] \notin {"pending", "ready"} => status'[j] = st[j]
        /\ \A j \in Key : st[j] \in {"pending", "ready"} => status'[j] \in {"pending", "ready", "skipped"}
    BY <1>2, Readied1
  <2>4. \A k \in Cycle : <<"review", k>> \in Key
    BY KeysOf
  <2>5. \A j \in Key : j \notin Settling /\ status'[j] \in Begun /\ status[j] \notin Begun =>
            \A d \in dependsOn[j] : d \in Key => status'[d] = "succeeded"
    <3>1. "pending" \notin Begun
      BY DEF Begun
    <3>2. \A j \in Key : status[j] \notin Begun => st[j] \notin Begun
      BY <1>2, <3>1
    <3> QED BY <1>2, <3>2, ReadiedBegins
  <2> QED BY <1>2, <2>2, <2>3, <2>4, <2>5 DEF Kept, TypeOK
<1> QED BY <1>1, <1>2, AnswerIs


-----------------------------------------------------------------------------
(* What the loop decides is true when it decides it, and stays true         *)

LEMMA ProducerIsKey ==
    ASSUME TypeOK, NEW c \in 1..(LastCycle + 1)
    PROVE  /\ ProducerFor(c) \in {Implement, <<"repair", c - 1>>, <<"rework", c - 1>>, NoKey}
           /\ Succeeded(ProducerFor(c)) => ProducerFor(c) \in Key
<1>1. LastCycle \in Nat \ {0}
  BY LastCycleNat
<1>2. Succeeded(ProducerFor(c)) => ProducerFor(c) \in StoredKey
  BY DEF TypeOK, Succeeded
<1>3. ProducerFor(c) \in {Implement, <<"repair", c - 1>>, <<"rework", c - 1>>, NoKey}
  BY DEF ProducerFor
<1>4. c - 1 \in 0..LastCycle
  BY <1>1
<1> QED BY <1>2, <1>3, <1>4, KeysOf

LEMMA CycleOfStored ==
    ASSUME TypeOK, NEW c \in 0..LastCycle, <<"review", c>> \in nodes
    PROVE  c \in Cycle
<1>1. c \in Nat \ {0}
  BY KeysOf DEF TypeOK
<1> QED BY <1>1, LastCycleNat DEF Cycle

LEMMA DecisionIsTrue ==
    ASSUME TypeOK, CyclesAreOrdered
    PROVE  DecisionHolds(NextModelGraphAction)
<1> DEFINE next == HighestExec + 1
           newest == Max(DecidedReviews)
<1>1. LastCycle \in Nat \ {0} /\ MaxRepairCycles \in Nat
  BY LastCycleNat, ModelLoopAssumption
<1>2. next \in 1..(LastCycle + 1)
  BY <1>1, HighestNat
<1>3. ASSUME Succeeded(ProducerFor(next))
      PROVE  DecisionHolds(NextModelGraphAction)
  <2>1. NextModelGraphAction = Do("expand-execution", next)
    BY <1>3 DEF NextModelGraphAction
  <2> HIDE DEF next
  <2> QED BY <1>2, <1>3, <2>1 DEF DecisionHolds, Do
<1>4. ASSUME ~Succeeded(ProducerFor(next)), DecidedReviews = {}
      PROVE  DecisionHolds(NextModelGraphAction)
  <2>1. NextModelGraphAction = None
    BY <1>4 DEF NextModelGraphAction
  <2> QED BY <2>1 DEF DecisionHolds, None, Do
<1>5. ASSUME ~Succeeded(ProducerFor(next)), DecidedReviews # {}
      PROVE  DecisionHolds(NextModelGraphAction)
  <2>1. DecidedReviews \subseteq 0..LastCycle
    BY DEF DecidedReviews, CyclesOf
  <2>2. newest \in DecidedReviews
    BY <1>1, <1>5, <2>1, GreatestOf
  <2>3. newest \in 0..LastCycle /\ Succeeded(<<"review", newest>>)
    BY <2>1, <2>2 DEF DecidedReviews
  <2> HIDE DEF newest
  <2>4. Reviewed(newest)
    BY <2>3, CycleOfStored DEF Reviewed, Succeeded
  <2>5. output[<<"review", newest>>] \in Verdict
    BY <2>4 DEF Reviewed, CyclesAreOrdered
  <2>6. newest \in Nat
    BY <2>3
  <2>7. NextModelGraphAction =
            LET decision == output[<<"review", newest>>]
            IN  CASE decision = "revise" -> AfterRevise(newest)
                  [] decision = "pass"   -> AfterPass(newest)
                  [] decision = "block"  -> Do("block", newest)
    BY <1>5 DEF NextModelGraphAction, newest
  <2>8. CASE output[<<"review", newest>>] = "revise"
    <3>1. NextModelGraphAction = AfterRevise(newest)
      BY <2>7, <2>8
    <3> QED BY <1>1, <2>4, <2>6, <3>1 DEF AfterRevise, DecisionHolds, Do, None
  <2>9. CASE output[<<"review", newest>>] = "pass"
    <3>1. NextModelGraphAction = AfterPass(newest)
      BY <2>7, <2>9
    <3>2. CASE <<"verify", newest>> \notin nodes
      BY <2>4, <3>1, <3>2 DEF AfterPass, DecisionHolds, Do
    <3>3. CASE <<"verify", newest>> \in nodes /\ status[<<"verify", newest>>] = "succeeded"
      <4>1. Verified(newest)
        BY <2>4, <2>9, <3>3 DEF Verified, Succeeded
      <4> QED BY <3>1, <3>3, <4>1 DEF AfterPass, DecisionHolds, Do
    <3>4. CASE <<"verify", newest>> \in nodes /\ status[<<"verify", newest>>] # "succeeded"
      BY <3>1, <3>4 DEF AfterPass, DecisionHolds, Do, None
    <3> QED BY <3>2, <3>3, <3>4
  <2>10. CASE output[<<"review", newest>>] = "block"
    <3>1. NextModelGraphAction = Do("block", newest)
      BY <2>7, <2>10
    <3> QED BY <3>1 DEF DecisionHolds, Do
  <2> QED BY <2>5, <2>8, <2>9, <2>10 DEF Verdict
<1> QED BY <1>3, <1>4, <1>5

\* What a replan appends changes no verdict and no producer.
LEMMA SucceededIsKept ==
    ASSUME TypeOK, Kept, NEW k \in Key, Succeeded(k)
    PROVE  Succeeded(k)' /\ output'[k] = output[k]
BY DEF Kept, Succeeded

LEMMA VerdictsStay ==
    ASSUME TypeOK, Kept, NEW c
    PROVE  /\ Reviewed(c) => Reviewed(c)'
           /\ Verified(c) => Verified(c)'
<1>1. c \in Cycle => <<"review", c>> \in Key /\ <<"verify", c>> \in Key
  BY KeysOf
<1>2. Reviewed(c) => Succeeded(<<"review", c>>)' /\ output'[<<"review", c>>] = output[<<"review", c>>]
  BY <1>1, SucceededIsKept DEF Reviewed
<1>3. Verified(c) => Succeeded(<<"verify", c>>)' /\ Reviewed(c)
  BY <1>1, SucceededIsKept DEF Reviewed, Verified
<1> QED BY <1>2, <1>3 DEF Reviewed, Verified

LEMMA ProducerStays ==
    ASSUME TypeOK, Kept, \A k \in nodes' : k \notin nodes => k[1] \in {"replan", "rework"},
           NEW c \in 1..(LastCycle + 1), Succeeded(ProducerFor(c))
    PROVE  Succeeded(ProducerFor(c))'
<1> DEFINE p == ProducerFor(c)
<1>1. p \in Key /\ p \in nodes
  BY ProducerIsKey DEF Succeeded
<1>2. Succeeded(p) /\ p \in nodes' /\ status'[p] = "succeeded"
  BY <1>1 DEF Kept, Succeeded
<1>3. p # NoKey
  BY <1>1, KeysOf DEF TypeOK
<1>4. c \in Int
  OBVIOUS
<1>5. <<"repair", c - 1>> \in nodes' => <<"repair", c - 1>> \in nodes
  OBVIOUS
<1>6. ProducerFor(c)' = p
  <2>1. CASE c <= 1
    <3>1. p = Implement
      BY <1>3, <2>1 DEF ProducerFor
    <3>2. Implement \in nodes'
      BY <1>2, <3>1
    <3> QED BY <2>1, <3>1, <3>2 DEF ProducerFor
  <2>2. CASE ~(c <= 1) /\ <<"repair", c - 1>> \in nodes
    <3>1. p = <<"repair", c - 1>>
      BY <2>2 DEF ProducerFor
    <3>2. <<"repair", c - 1>> \in nodes'
      BY <1>2, <3>1
    <3> QED BY <2>2, <3>1, <3>2 DEF ProducerFor
  <2>3. CASE ~(c <= 1) /\ <<"repair", c - 1>> \notin nodes
    <3>1. p = <<"rework", c - 1>>
      BY <1>3, <2>3 DEF ProducerFor
    <3>2. <<"rework", c - 1>> \in nodes' /\ <<"repair", c - 1>> \notin nodes'
      BY <1>2, <1>5, <2>3, <3>1
    <3> QED BY <2>3, <3>1, <3>2 DEF ProducerFor
  <2> QED BY <2>1, <2>2, <2>3
<1> QED BY <1>2, <1>6 DEF Succeeded

-----------------------------------------------------------------------------
(* What the steps append                                                    *)

LEMMA ReplanAppends == DOMAIN ReplanNodes \subseteq {"replan", "rework"} \X Nat
<1> DEFINE next == HighestExec + 1
           index == IF ProducerFor(next) # NoKey THEN next ELSE next - 1
<1>1. HighestExec \in Nat
  BY HighestNat
<1>2. index \in Nat
  BY <1>1
<1>3. DOMAIN ReplanNodes \subseteq {<<"replan", index>>, <<"rework", index>>}
  <2>1. DOMAIN (<<>>) = {}
    OBVIOUS
  <2> HIDE DEF index
  <2> QED BY <2>1 DEF ReplanNodes, index
<1> QED BY <1>2, <1>3

\* The nodes a step may add: a review behind the steps of a finished plan, or
\* any other.
Appended ==
    /\ nodes' \subseteq StoredKey
    /\ \A c \in Cycle :
          /\ (<<"review", c>> \in nodes' /\ <<"review", c>> \notin nodes) =>
                \E plan \in Plans : \E p \in Key : Planned(c, plan, p)' /\ Succeeded(p)
          /\ <<"review", c>> \in nodes =>
                \A t \in Step : <<t, c>> \in nodes' => <<t, c>> \in nodes
          /\ \A t \in Step : <<t, c>> \in nodes' => <<"review", c>> \in nodes'

\* What the steps of a planned cycle wait for is stored.
LEMMA PlannedDeps ==
    ASSUME NEW c \in Cycle, NEW plan \in Plans, NEW p \in Key, Planned(c, plan, p), Succeeded(p),
           NEW t \in Step, <<t, c>> \in nodes
    PROVE  /\ \A d \in dependsOn[<<t, c>>] : d \in Key /\ d \in nodes
           /\ dependsOn[<<"review", c>>] \subseteq Key \cap nodes
<1>1. /\ DOMAIN plan \subseteq Step
      /\ \A s \in DOMAIN plan : plan[s] \subseteq DOMAIN plan
  BY ModelLoopAssumption
<1>2. \A s \in DOMAIN plan : <<s, c>> \in nodes /\ <<s, c>> \in Key
  BY <1>1, KeysOf DEF Planned
<1>3. t \in DOMAIN plan
  BY DEF Planned
<1>4. p \in nodes
  BY DEF Succeeded
<1>5. dependsOn[<<"review", c>>] \subseteq Key \cap nodes
  BY <1>2 DEF Planned, StepNodes, LastSteps
<1>6. CASE plan[t] = {}
  BY <1>3, <1>4, <1>5, <1>6 DEF Planned
<1>7. CASE plan[t] # {}
  <2>1. dependsOn[<<t, c>>] = {<<s, c>> : s \in plan[t]}
    BY <1>3, <1>7 DEF Planned, StepNodes
  <2> QED BY <1>1, <1>2, <1>3, <1>5, <2>1
<1> QED BY <1>6, <1>7

LEMMA OrderIsKept ==
    ASSUME TypeOK, CyclesAreOrdered, Kept, Appended
    PROVE  CyclesAreOrdered'
<1> SUFFICES ASSUME NEW c \in Cycle
             PROVE  /\ \A t \in Step : <<t, c>> \in nodes' => <<"review", c>> \in nodes'
                    /\ <<"review", c>> \in nodes' =>
                          \E plan \in Plans : \E p \in Key : Planned(c, plan, p)' /\ Succeeded(p)'
                    /\ <<"review", c>> \in nodes' =>
                          \A t \in Step : <<t, c>> \in nodes' /\ status'[<<t, c>>] \in Begun =>
                              \A d \in dependsOn'[<<t, c>>] : Succeeded(d)'
                    /\ (<<"review", c>> \in nodes' /\ status'[<<"review", c>>] = "succeeded") =>
                          output'[<<"review", c>>] \in Verdict
  BY DEF CyclesAreOrdered, Succeeded
<1>1. <<"review", c>> \in Key /\ \A t \in Step : <<t, c>> \in Key /\ <<t, c>> \notin Settling
  BY KeysOf, StepKinds DEF Settling
<1>2. \A k \in Key : Succeeded(k) => Succeeded(k)'
  BY SucceededIsKept
<1>3. <<"review", c>> \in nodes' =>
         \E plan \in Plans : \E p \in Key : Planned(c, plan, p)' /\ Succeeded(p)'
  <2>1. CASE <<"review", c>> \notin nodes
    BY <1>2, <2>1 DEF Appended
  <2>2. CASE <<"review", c>> \in nodes
    <3>1. PICK plan \in Plans, p \in Key : Planned(c, plan, p) /\ Succeeded(p)
      BY <2>2 DEF CyclesAreOrdered
    <3>2. DOMAIN plan \subseteq Step
      BY ModelLoopAssumption
    <3>3. \A t \in Step : <<t, c>> \in nodes' <=> <<t, c>> \in nodes
      BY <2>2 DEF Appended, Kept
    <3>4. \A t \in DOMAIN plan : dependsOn'[<<t, c>>] = dependsOn[<<t, c>>]
      BY <1>1, <3>1, <3>2 DEF Kept, Planned
    <3>5. dependsOn'[<<"review", c>>] = dependsOn[<<"review", c>>]
      BY <1>1, <2>2 DEF Kept
    <3>6. Planned(c, plan, p)'
      BY <3>1, <3>3, <3>4, <3>5 DEF Planned
    <3> QED BY <1>2, <3>1, <3>6
  <2> QED BY <2>1, <2>2
<1>4. ASSUME <<"review", c>> \in nodes', NEW t \in Step, <<t, c>> \in nodes',
             status'[<<t, c>>] \in Begun
      PROVE  \A d \in dependsOn'[<<t, c>>] : Succeeded(d)'
  <2>1. PICK plan \in Plans, p \in Key : Planned(c, plan, p)' /\ Succeeded(p)'
    BY <1>3, <1>4
  <2>2. \A d \in dependsOn'[<<t, c>>] : d \in Key /\ d \in nodes'
    <3>1. (Planned(c, plan, p) /\ Succeeded(p) /\ <<t, c>> \in nodes =>
              \A d \in dependsOn[<<t, c>>] : d \in Key /\ d \in nodes)'
      BY PlannedDeps, PTL
    <3> QED BY <1>4, <2>1, <3>1
  <2>3. CASE ~(<<t, c>> \in nodes /\ status[<<t, c>>] \in Begun)
    <3>1. \A d \in dependsOn'[<<t, c>>] : d \in Key => status'[d] = "succeeded"
      BY <1>1, <1>4, <2>3 DEF Kept
    <3> QED BY <2>2, <3>1 DEF Succeeded
  <2>4. CASE <<t, c>> \in nodes /\ status[<<t, c>>] \in Begun
    <3>1. dependsOn'[<<t, c>>] = dependsOn[<<t, c>>]
      BY <1>1, <2>4 DEF Kept
    <3>2. CASE <<"review", c>> \in nodes
      <4>1. \A d \in dependsOn[<<t, c>>] : Succeeded(d)
        BY <2>4, <3>2 DEF CyclesAreOrdered
      <4> QED BY <1>2, <2>2, <3>1, <4>1
    <3>3. CASE <<"review", c>> \notin nodes
      BY <2>4, <3>3 DEF CyclesAreOrdered
    <3> QED BY <3>2, <3>3
  <2> QED BY <2>3, <2>4
<1>5. (<<"review", c>> \in nodes' /\ status'[<<"review", c>>] = "succeeded") =>
         output'[<<"review", c>>] \in Verdict
  BY <1>1 DEF Kept, CyclesAreOrdered, Succeeded
<1>6. \A t \in Step : <<t, c>> \in nodes' => <<"review", c>> \in nodes'
  BY DEF Appended
<1> QED BY <1>3, <1>4, <1>5, <1>6

\* Kinds other than a step and a review are appended freely.
LEMMA OthersAppend ==
    ASSUME TypeOK, CyclesAreOrdered, NEW new, Append(new), DOMAIN new \cap nodes = {},
           DOMAIN new \subseteq StoredKey,
           \A c \in Cycle : <<"review", c>> \notin DOMAIN new
                            /\ \A t \in Step : <<t, c>> \notin DOMAIN new
    PROVE  Kept /\ Appended /\ nodes' = nodes \cup DOMAIN new
<1>1. /\ Kept
      /\ nodes' = nodes \cup DOMAIN new
  BY KeptAppend
<1> QED BY <1>1 DEF Appended, TypeOK, CyclesAreOrdered

LEMMA NothingAppended ==
    ASSUME TypeOK, CyclesAreOrdered, nodes' = nodes
    PROVE  Appended
BY DEF Appended, TypeOK, CyclesAreOrdered

\* The nodes a finished plan adds.
LEMMA ExecutionNodesAre ==
    ASSUME NEW c, NEW plan \in Plans
    PROVE  /\ DOMAIN ExecutionNodes(c, plan) = StepNodes(c, DOMAIN plan) \cup {<<"review", c>>}
           /\ ExecutionNodes(c, plan)[<<"review", c>>] = StepNodes(c, LastSteps(plan))
           /\ \A t \in DOMAIN plan :
                 ExecutionNodes(c, plan)[<<t, c>>] =
                     IF plan[t] = {} THEN {ProducerFor(c)} ELSE StepNodes(c, plan[t])
<1>1. DOMAIN plan \subseteq Step
  BY ModelLoopAssumption
<1>2. \A t \in DOMAIN plan : t # "review"
  BY <1>1, StepKinds
<1>3. \A t \in DOMAIN plan : <<t, c>> \in StepNodes(c, DOMAIN plan)
  BY DEF StepNodes
<1> QED BY <1>2, <1>3 DEF ExecutionNodes, BehindSteps

LEMMA ExecutionAppends ==
    ASSUME TypeOK, CyclesAreOrdered, NEW c \in 1..(LastCycle + 1), NEW plan \in Plans,
           Succeeded(ProducerFor(c)),
           Append(ExecutionNodes(c, plan)), DOMAIN ExecutionNodes(c, plan) \cap nodes = {}
    PROVE  Kept /\ Appended
<1> DEFINE new == ExecutionNodes(c, plan)
<1>1. /\ DOMAIN new = StepNodes(c, DOMAIN plan) \cup {<<"review", c>>}
      /\ new[<<"review", c>>] = StepNodes(c, LastSteps(plan))
      /\ \A t \in DOMAIN plan :
            new[<<t, c>>] = IF plan[t] = {} THEN {ProducerFor(c)} ELSE StepNodes(c, plan[t])
  BY ExecutionNodesAre
<1>2. c \in Nat \ {0} /\ DOMAIN plan \subseteq Step
  BY LastCycleNat, ModelLoopAssumption
<1>3. /\ Kept
      /\ nodes' = nodes \cup DOMAIN new
      /\ \A k \in Key : k \in DOMAIN new => dependsOn'[k] = new[k]
  <2> HIDE DEF new
  <2> QED BY KeptAppend DEF new
<1>4. PICK p \in Key : p = ProducerFor(c)
  BY ProducerIsKey
<1>5. DOMAIN new \cap nodes = {}
  OBVIOUS
<1> HIDE DEF new
<1>6. nodes' \subseteq StoredKey
  BY <1>1, <1>2, <1>3 DEF TypeOK, StoredKey, StepNodes
<1>7. /\ \A b : <<"review", b>> \in nodes' /\ <<"review", b>> \notin nodes => b = c
      /\ \A b : \A t \in Step : <<t, b>> \in nodes' /\ <<t, b>> \notin nodes =>
              b = c /\ t \in DOMAIN plan
      /\ \A t \in DOMAIN plan : <<t, c>> \in nodes'
      /\ <<"review", c>> \in nodes' /\ <<"review", c>> \notin nodes
  BY <1>1, <1>2, <1>3, <1>5, StepKinds DEF StepNodes
<1>8. ASSUME c \in Cycle
      PROVE  Planned(c, plan, p)'
  <2>1. <<"review", c>> \in Key /\ \A t \in Step : <<t, c>> \in Key
    BY <1>8, KeysOf
  <2>2. \A t \in Step : <<t, c>> \notin nodes
    BY <1>7, <1>8 DEF CyclesAreOrdered
  <2>3. \A t \in Step : <<t, c>> \in nodes' <=> t \in DOMAIN plan
    BY <1>7, <2>2
  <2>4. dependsOn'[<<"review", c>>] = StepNodes(c, LastSteps(plan))
    BY <1>1, <1>3, <2>1
  <2>5. \A t \in DOMAIN plan : <<t, c>> \in DOMAIN new
    BY <1>1 DEF StepNodes
  <2>6. \A t \in DOMAIN plan :
            dependsOn'[<<t, c>>] = IF plan[t] = {} THEN {p} ELSE StepNodes(c, plan[t])
    BY <1>1, <1>2, <1>3, <1>4, <2>1, <2>5
  <2> QED BY <2>3, <2>4, <2>6 DEF Planned
<1> QED BY <1>3, <1>4, <1>6, <1>7, <1>8 DEF Appended, CyclesAreOrdered

LEMMA RepairAppends ==
    ASSUME TypeOK, CyclesAreOrdered, NEW c \in Cycle, c < MaxRepairCycles, NEW behind,
           Append(One(<<"repair", c>>, behind)), <<"repair", c>> \notin nodes
    PROVE  Kept /\ Appended
<1> DEFINE new == One(<<"repair", c>>, behind)
<1>1. DOMAIN new = {<<"repair", c>>}
  BY DEF One
<1>2. c \in Nat /\ 0 < c
  BY LastCycleNat DEF Cycle
<1>3. <<"repair", c>> \in StoredKey
  BY <1>2 DEF StoredKey
<1> HIDE DEF new
<1> QED BY <1>1, <1>3, StepKinds, OthersAppend DEF new

LEMMA VerifyAppends ==
    ASSUME TypeOK, CyclesAreOrdered, NEW c \in Cycle, NEW behind,
           Append(One(<<"verify", c>>, behind)), <<"verify", c>> \notin nodes
    PROVE  Kept /\ Appended
<1> DEFINE new == One(<<"verify", c>>, behind)
<1>1. DOMAIN new = {<<"verify", c>>}
  BY DEF One
<1>2. c \in Nat \ {0}
  BY LastCycleNat DEF Cycle
<1>3. <<"verify", c>> \in StoredKey
  BY <1>2 DEF StoredKey
<1> HIDE DEF new
<1> QED BY <1>1, <1>3, StepKinds, OthersAppend DEF new

-----------------------------------------------------------------------------
(* Every step keeps the invariant                                           *)

LEMMA ExpandIs ==
    ASSUME NEW new, Expand(new)
    PROVE  \/ Append(new) /\ DOMAIN new \cap nodes = {}
           \/ UNCHANGED <<nodes, status, dependsOn, output>>
BY DEF Expand, CanExpand, Unexpanded

LEMMA GraphIsKept ==
    ASSUME LoopInv, Next
    PROVE  Kept /\ Appended
<1> USE DEF LoopInv
<1>1. CASE UNCHANGED <<nodes, status, dependsOn, output>>
  BY <1>1, KeptSame, NothingAppended
<1>2. CASE CreateModelGraph
  <2> DEFINE new == [k \in {Plan, Implement} |-> IF k = Plan THEN {} ELSE {Plan}]
  <2>1. Append(new) /\ nodes = {} /\ DOMAIN new = {Plan, Implement}
    BY <1>2 DEF CreateModelGraph
  <2> HIDE DEF new
  <2>2. DOMAIN new \subseteq StoredKey
    BY <2>1 DEF StoredKey
  <2>3. \A c : <<"review", c>> \notin DOMAIN new /\ \A t \in Step : <<t, c>> \notin DOMAIN new
    BY <2>1, StepKinds DEF Plan, Implement
  <2> QED BY <2>1, <2>2, <2>3, OthersAppend
<1>3. CASE ViewGraph
  <2>1. ASSUME NEW k \in Claimable, status' = [status EXCEPT ![k] = "running"]
        PROVE  Kept /\ Appended
    BY <1>3, <2>1, KeptClaim, NothingAppended DEF ViewGraph
  <2>2. UNCHANGED <<nodes, dependsOn, output>>
    BY <1>3 DEF ViewGraph
  <2>3. \/ status' = status
        \/ \E k \in Claimable : status' = [status EXCEPT ![k] = "running"]
    BY <1>3 DEF ViewGraph
  <2> QED BY <1>1, <2>1, <2>2, <2>3
<1>4. ASSUME NEW k, Settle(k)
      PROVE  Kept /\ Appended
  BY <1>4, KeptSettle, NothingAppended DEF Settle
<1>5. CASE RunNodeInline
  BY <1>4, <1>5 DEF RunNodeInline
<1>6. CASE ExpandExecution
  <2> DEFINE c == tick.act.cycle
  <2>1. c \in 1..(LastCycle + 1) /\ Succeeded(ProducerFor(c))
    BY <1>6 DEF ExpandExecution, Acting, TickInv, DecisionHolds
  <2>2. \/ UNCHANGED <<nodes, status, dependsOn, output>>
        \/ \E plan \in Plans : Expand(ExecutionNodes(c, plan))
    BY <1>6 DEF ExpandExecution, Unexpanded
  <2> HIDE DEF c
  <2> QED BY <1>1, <2>1, <2>2, ExpandIs, ExecutionAppends
<1>7. CASE ExpandRepair
  <2> DEFINE c == tick.act.cycle
  <2>1. c \in Cycle /\ c < MaxRepairCycles
    BY <1>7 DEF ExpandRepair, RepairNode, Acting, TickInv, DecisionHolds, Reviewed
  <2>2. Expand(One(<<"repair", c>>, {<<"review", c>>}))
    BY <1>7 DEF ExpandRepair, RepairNode
  <2> HIDE DEF c
  <2>3. DOMAIN One(<<"repair", c>>, {<<"review", c>>}) = {<<"repair", c>>}
    BY DEF One
  <2>4. \/ UNCHANGED <<nodes, status, dependsOn, output>>
        \/ Append(One(<<"repair", c>>, {<<"review", c>>})) /\ <<"repair", c>> \notin nodes
    BY <2>2, <2>3, ExpandIs
  <2> QED BY <1>1, <2>1, <2>4, RepairAppends
<1>8. CASE ExpandVerify
  <2> DEFINE c == tick.act.cycle
  <2>1. c \in Cycle
    BY <1>8 DEF ExpandVerify, VerifyNode, Acting, TickInv, DecisionHolds, Reviewed
  <2>2. Expand(One(<<"verify", c>>, {<<"review", c>>}))
    BY <1>8 DEF ExpandVerify, VerifyNode
  <2> HIDE DEF c
  <2>3. DOMAIN One(<<"verify", c>>, {<<"review", c>>}) = {<<"verify", c>>}
    BY DEF One
  <2>4. \/ UNCHANGED <<nodes, status, dependsOn, output>>
        \/ Append(One(<<"verify", c>>, {<<"review", c>>})) /\ <<"verify", c>> \notin nodes
    BY <2>2, <2>3, ExpandIs
  <2> QED BY <1>1, <2>1, <2>4, VerifyAppends
<1>9. CASE SettleVerification
  <2> DEFINE c == tick.act.cycle
  <2>1. c \in Cycle
    BY <1>9 DEF SettleVerification, RepairNode, Acting, TickInv, DecisionHolds, Verified, Reviewed
  <2>2. \/ UNCHANGED <<nodes, status, dependsOn, output>>
        \/ ~(c >= MaxRepairCycles) /\ Expand(One(<<"repair", c>>, {<<"verify", c>>}))
    BY <1>9 DEF SettleVerification, RepairNode, Unexpanded
  <2> HIDE DEF c
  <2>3. c < MaxRepairCycles \/ c >= MaxRepairCycles
    BY <2>1, ModelLoopAssumption, LastCycleNat DEF Cycle
  <2>4. DOMAIN One(<<"repair", c>>, {<<"verify", c>>}) = {<<"repair", c>>}
    BY DEF One
  <2>5. \/ UNCHANGED <<nodes, status, dependsOn, output>>
        \/ /\ c < MaxRepairCycles
           /\ Append(One(<<"repair", c>>, {<<"verify", c>>}))
           /\ <<"repair", c>> \notin nodes
    BY <2>2, <2>3, <2>4, ExpandIs
  <2> QED BY <1>1, <2>1, <2>5, RepairAppends
<1>10. CASE WorkerClaim
  <2>1. ASSUME NEW k \in Claimable, status' = [status EXCEPT ![k] = "running"]
        PROVE  Kept /\ Appended
    BY <1>10, <2>1, KeptClaim, NothingAppended DEF WorkerClaim
  <2> QED BY <1>10, <2>1 DEF WorkerClaim
<1>11. CASE WorkerSettle
  BY <1>4, <1>11 DEF WorkerSettle
<1>12. ASSUME NEW x \in Change, AppendReplan(x)
       PROVE  Kept /\ Appended
  <2> DEFINE new == change[x].new
  <2>1. DOMAIN new \subseteq {"replan", "rework"} \X Nat
    BY <1>12 DEF AppendReplan, At, ChangeInv
  <2>2. \/ UNCHANGED <<nodes, status, dependsOn, output>>
        \/ Append(new) /\ DOMAIN new \cap nodes = {}
    BY <1>12 DEF AppendReplan, CanExpand, Unexpanded
  <2> HIDE DEF new
  <2>3. DOMAIN new \subseteq StoredKey
    BY <2>1 DEF StoredKey
  <2>4. \A c : <<"review", c>> \notin DOMAIN new /\ \A t \in Step : <<t, c>> \notin DOMAIN new
    BY <2>1, StepKinds
  <2> QED BY <1>1, <2>2, <2>3, <2>4, OthersAppend
<1>13. ASSUME NEW c \in asked, AnswerPermission(c)
       PROVE  Kept /\ Appended
  BY <1>13, KeptAnswer, NothingAppended DEF AnswerPermission
<1>14. CASE StartTick \/ Decide \/ BlockForUser \/ CompleteAgent
  BY <1>1, <1>14 DEF StartTick, Decide, BlockForUser, CompleteAgent, graph
<1>15. CASE CancelTask
  BY <1>1, <1>15 DEF CancelTask, graph
<1>16. ASSUME NEW x \in Change,
              \/ SubmitChange(x) \/ StoreChange(x) \/ DecideChange(x)
              \/ ReadForReplan(x) \/ ResumeAfterReplan(x)
       PROVE  Kept /\ Appended
  BY <1>1, <1>16 DEF SubmitChange, StoreChange, DecideChange, ReadForReplan, ResumeAfterReplan, graph
<1> QED BY <1>2, <1>3, <1>5, <1>6, <1>7, <1>8, <1>9, <1>10, <1>11, <1>12, <1>13, <1>14, <1>15, <1>16
        DEF Next, Tick, User


\* The transitions that end a tick, and the one that starts it.
LEMMA EndedTicks ==
    /\ IsTick(Idle) /\ Idle.pc = "idle"
    /\ IsTick(ToBlock) /\ ToBlock.pc = "block"
    /\ IsTick([Idle EXCEPT !.pc = "view"]) /\ [Idle EXCEPT !.pc = "view"].pc = "view"
<1>1. IsTick(Idle) /\ Idle.pc = "idle"
  <2> DEFINE nothing == None
             no == FALSE
             start == [pc |-> "idle", act |-> nothing, failed |-> no, node |-> NoKey]
  <2>1. Idle = start
    BY DEF Idle
  <2> HIDE DEF nothing, no
  <2>2. start.pc = "idle" /\ start.act = nothing /\ start.failed = no /\ start.node = NoKey
    OBVIOUS
  <2>3. IsTick(start)
    BY <2>2 DEF IsTick
  <2> QED BY <2>1, <2>2, <2>3
<1>2. ASSUME NEW p, NEW u, u = [Idle EXCEPT !.pc = p]
      PROVE  IsTick(u) /\ u.pc = p
  <2> DEFINE start == Idle
  <2>1. IsTick(start) /\ u = [start EXCEPT !.pc = p]
    BY <1>1, <1>2
  <2> HIDE DEF start
  <2> QED BY <2>1 DEF IsTick
<1> QED BY <1>1, <1>2 DEF ToBlock

\* What a step does to the loop's transition and to the changes, whatever it
\* does to the graph.
LEMMA TickIsRecord ==
    ASSUME TypeOK, Tick
    PROVE  /\ IsTick(tick')
           /\ change' = change
           /\ evidence' \in [Cycle -> {"none", "passed", "failed"}]
           /\ tick'.pc = "act" => Decide
           /\ tick'.pc = "complete" => SettleVerification
<1>1. IsTick(tick) /\ evidence \in [Cycle -> {"none", "passed", "failed"}]
  BY DEF TypeOK
<1>2. /\ IsTick(Idle) /\ Idle.pc = "idle"
      /\ IsTick(ToBlock) /\ ToBlock.pc = "block"
      /\ IsTick([Idle EXCEPT !.pc = "view"]) /\ [Idle EXCEPT !.pc = "view"].pc = "view"
  BY EndedTicks
<1>4. ASSUME tick' = Idle \/ tick' = ToBlock \/ tick' = [Idle EXCEPT !.pc = "view"]
      PROVE  /\ IsTick(tick')
             /\ tick'.pc # "act" /\ tick'.pc # "complete"
  BY <1>2, <1>4
<1>5. ASSUME NEW new, Expand(new)
      PROVE  tick' = Idle \/ tick' = ToBlock
  BY <1>5 DEF Expand
<1>6. CASE StartTick
  BY <1>1, <1>4, <1>6 DEF StartTick, graph
<1>7. CASE CreateModelGraph
  BY <1>1, <1>4, <1>7 DEF CreateModelGraph
<1>8. CASE ViewGraph
  <2>1. evidence' = evidence /\ change' = change
    BY <1>8 DEF ViewGraph
  <2>2. CASE tick' = Idle
    BY <1>1, <1>4, <2>1, <2>2
  <2>3. CASE \E k \in Claimable : tick' = [tick EXCEPT !.pc = "run", !.node = k]
    <3>1. PICK k \in Claimable : tick' = [tick EXCEPT !.pc = "run", !.node = k]
      BY <2>3
    <3>2. IsTick(tick') /\ tick'.pc = "run"
      BY <1>1, <3>1 DEF IsTick
    <3> QED BY <1>1, <2>1, <3>2
  <2>4. CASE tick' = [tick EXCEPT !.pc = "decide", !.failed = GraphStatus = "failed"]
    <3> DEFINE f == GraphStatus = "failed"
    <3>1. tick' = [tick EXCEPT !.pc = "decide", !.failed = f]
      BY <2>4
    <3> HIDE DEF f
    <3>2. IsTick(tick') /\ tick'.pc = "decide"
      BY <1>1, <3>1 DEF IsTick
    <3> QED BY <1>1, <2>1, <3>2
  <2> QED BY <1>8, <2>2, <2>3, <2>4 DEF ViewGraph
<1>9. CASE RunNodeInline
  <2>1. evidence' = evidence /\ change' = change /\ (tick' = ToBlock \/ tick' = Idle)
    BY <1>9 DEF RunNodeInline, Settle
  <2> QED BY <1>1, <1>4, <2>1
<1>10. CASE Decide
  <2>1. evidence' = evidence /\ change' = change
    BY <1>10 DEF Decide, graph
  <2>2. \/ tick' = Idle \/ tick' = ToBlock
        \/ tick' = [tick EXCEPT !.pc = "act", !.act = NextModelGraphAction]
    BY <1>10 DEF Decide
  <2>3. tick'.pc # "complete" /\ IsTick(tick')
    <3> DEFINE act == NextModelGraphAction
    <3>1. CASE tick' = Idle \/ tick' = ToBlock
      BY <1>2, <3>1
    <3>2. CASE tick' = [tick EXCEPT !.pc = "act", !.act = act]
      <4> HIDE DEF act
      <4> QED BY <1>1, <3>2 DEF IsTick
    <3> QED BY <2>2, <3>1, <3>2
  <2> QED BY <1>1, <1>10, <2>1, <2>3
<1>11. CASE ExpandExecution
  <2>1. evidence' = evidence /\ change' = change /\ (tick' = ToBlock \/ tick' = Idle)
    BY <1>5, <1>11 DEF ExpandExecution
  <2> QED BY <1>1, <1>4, <2>1
<1>12. CASE ExpandRepair
  <2>1. evidence' = evidence /\ change' = change /\ (tick' = ToBlock \/ tick' = Idle)
    BY <1>5, <1>12 DEF ExpandRepair, RepairNode
  <2> QED BY <1>1, <1>4, <2>1
<1>13. CASE ExpandVerify
  <2>1. change' = change /\ (tick' = ToBlock \/ tick' = Idle)
    BY <1>5, <1>13 DEF ExpandVerify, VerifyNode
  <2>2. evidence' \in [Cycle -> {"none", "passed", "failed"}]
    <3>1. PICK e \in {"passed", "failed"} :
             evidence' = IF <<"verify", tick.act.cycle>> \in nodes' \ nodes
                         THEN [evidence EXCEPT ![tick.act.cycle] = e] ELSE evidence
      BY <1>13 DEF ExpandVerify, VerifyNode
    <3> QED BY <1>1, <3>1
  <2> QED BY <1>4, <2>1, <2>2
<1>14. CASE SettleVerification
  <2>1. evidence' = evidence /\ change' = change
    BY <1>14 DEF SettleVerification, RepairNode
  <2>2. tick' = Idle \/ tick' = ToBlock \/ tick' = [tick EXCEPT !.pc = "complete"]
    BY <1>5, <1>14 DEF SettleVerification, RepairNode
  <2>3. tick'.pc # "act" /\ IsTick(tick')
    <3>1. CASE tick' = Idle \/ tick' = ToBlock
      BY <1>2, <3>1
    <3>2. CASE tick' = [tick EXCEPT !.pc = "complete"]
      BY <1>1, <3>2 DEF IsTick
    <3> QED BY <2>2, <3>1, <3>2
  <2> QED BY <1>1, <1>14, <2>1, <2>3
<1>15. CASE BlockForUser
  BY <1>1, <1>4, <1>15 DEF BlockForUser, graph
<1>16. CASE CompleteAgent
  BY <1>1, <1>4, <1>16 DEF CompleteAgent, graph
<1> QED BY <1>6, <1>7, <1>8, <1>9, <1>10, <1>11, <1>12, <1>13, <1>14, <1>15, <1>16 DEF Tick

\* Workers and the user leave the transition and the evidence alone, and add
\* nothing but a replan.
LEMMA OthersLeaveTick ==
    ASSUME LoopInv, WorkerClaim \/ WorkerSettle \/ User
    PROVE  /\ tick' = tick /\ evidence' = evidence
           /\ \A k \in nodes' : k \notin nodes => k[1] \in {"replan", "rework"}
           /\ change' = [x \in Change |-> change'[x]]
           /\ ChangeInv'
<1> USE DEF LoopInv
<1>1. /\ change = [x \in Change |-> change[x]]
      /\ ChangeInv
  BY DEF TypeOK
<1>2. CASE WorkerClaim \/ WorkerSettle \/ CancelTask \/ \E c \in asked : AnswerPermission(c)
  <2>1. tick' = tick /\ evidence' = evidence /\ nodes' = nodes /\ change' = change
    BY <1>2 DEF WorkerClaim, WorkerSettle, Settle, CancelTask, AnswerPermission, graph
  <2> QED BY <1>1, <2>1 DEF ChangeInv
<1>3. ASSUME NEW x \in Change, NEW s, s # "replan", Move(x, s)
      PROVE  change' = [y \in Change |-> change'[y]] /\ ChangeInv'
  <2>1. change' = [y \in Change |-> IF y = x THEN [state |-> s, new |-> <<>>] ELSE change[y]]
    BY <1>1, <1>3 DEF Move
  <2> QED BY <1>1, <1>3, <2>1 DEF ChangeInv
<1>4. ASSUME NEW x \in Change,
             \/ SubmitChange(x) \/ StoreChange(x) \/ DecideChange(x) \/ ResumeAfterReplan(x)
      PROVE  /\ tick' = tick /\ evidence' = evidence /\ nodes' = nodes
             /\ \E s : s # "replan" /\ Move(x, s)
  BY <1>4 DEF SubmitChange, StoreChange, DecideChange, ResumeAfterReplan, graph
<1>5. ASSUME NEW x \in Change, ReadForReplan(x)
      PROVE  /\ tick' = tick /\ evidence' = evidence /\ nodes' = nodes
             /\ change' = [y \in Change |-> change'[y]] /\ ChangeInv'
  <2>1. tick' = tick /\ evidence' = evidence /\ nodes' = nodes
    BY <1>5 DEF ReadForReplan, graph
  <2>2. CASE Move(x, "done")
    BY <1>3, <2>1, <2>2
  <2>3. CASE change' = [change EXCEPT ![x] = [state |-> "replan", new |-> ReplanNodes]]
    <3> DEFINE new == ReplanNodes
    <3>1. DOMAIN new \subseteq {"replan", "rework"} \X Nat
      BY ReplanAppends
    <3> HIDE DEF new
    <3>2. change' = [y \in Change |-> IF y = x THEN [state |-> "replan", new |-> new] ELSE change[y]]
      BY <1>1, <2>3 DEF new
    <3> QED BY <1>1, <2>1, <3>1, <3>2 DEF ChangeInv
  <2> QED BY <1>5, <2>2, <2>3 DEF ReadForReplan
<1>6. ASSUME NEW x \in Change, AppendReplan(x)
      PROVE  /\ tick' = tick /\ evidence' = evidence
             /\ \A k \in nodes' : k \notin nodes => k[1] \in {"replan", "rework"}
             /\ \E s : s # "replan" /\ Move(x, s)
  <2> DEFINE new == change[x].new
  <2>1. DOMAIN new \subseteq {"replan", "rework"} \X Nat
    BY <1>6 DEF AppendReplan, At, ChangeInv
  <2>2. nodes' = nodes \/ nodes' = nodes \cup DOMAIN new
    BY <1>6 DEF AppendReplan, Append, Unexpanded
  <2>3. tick' = tick /\ evidence' = evidence /\ \E s : s # "replan" /\ Move(x, s)
    BY <1>6 DEF AppendReplan
  <2> HIDE DEF new
  <2> QED BY <2>1, <2>2, <2>3
<1>7. ASSUME NEW x \in Change,
             \/ SubmitChange(x) \/ StoreChange(x) \/ DecideChange(x)
             \/ ResumeAfterReplan(x) \/ ReadForReplan(x) \/ AppendReplan(x)
      PROVE  /\ tick' = tick /\ evidence' = evidence
             /\ \A k \in nodes' : k \notin nodes => k[1] \in {"replan", "rework"}
             /\ change' = [y \in Change |-> change'[y]]
             /\ ChangeInv'
  BY <1>3, <1>4, <1>5, <1>6, <1>7
<1> QED BY <1>2, <1>7 DEF User

LEMMA TickIsKept ==
    ASSUME LoopInv, Next, Kept
    PROVE  TickInv'
<1> USE DEF LoopInv
<1>1. CASE Tick
  <2>1. CASE tick'.pc = "act"
    <3>1. Decide
      BY <1>1, <2>1, TickIsRecord
    <3>2. /\ UNCHANGED <<nodes, status, dependsOn, output>>
          /\ tick' = Idle \/ tick' = ToBlock \/ tick' = [tick EXCEPT !.pc = "act", !.act = NextModelGraphAction]
      BY <3>1 DEF Decide, graph
    <3>3. IsTick(tick)
      BY DEF TypeOK
    <3>4. tick'.act = NextModelGraphAction
      <4> DEFINE act == NextModelGraphAction
      <4>1. tick' # Idle /\ tick' # ToBlock
        BY <2>1, EndedTicks
      <4>2. tick' = [tick EXCEPT !.pc = "act", !.act = act]
        BY <3>2, <4>1
      <4> HIDE DEF act
      <4>3. tick'.act = act
        BY <3>3, <4>2 DEF IsTick
      <4> QED BY <4>3 DEF act
    <3> DEFINE act == NextModelGraphAction
    <3>5. DecisionHolds(act)
      BY DecisionIsTrue
    <3> HIDE DEF act
    <3>6. tick'.act = act
      BY <3>4 DEF act
    <3>7. /\ \A c : Succeeded(ProducerFor(c))' <=> Succeeded(ProducerFor(c))
          /\ \A c : Reviewed(c)' <=> Reviewed(c)
          /\ \A c : Verified(c)' <=> Verified(c)
      BY <3>2 DEF Succeeded, ProducerFor, Reviewed, Verified
    <3>8. tick'.pc # "complete"
      BY <2>1
    <3> QED BY <3>5, <3>6, <3>7, <3>8 DEF TickInv, DecisionHolds
  <2>2. CASE tick'.pc = "complete"
    <3>1. SettleVerification
      BY <1>1, <2>2, TickIsRecord
    <3>2. IsTick(tick)
      BY DEF TypeOK
    <3>3. ASSUME NEW new, Expand(new)
          PROVE  tick'.pc # "complete"
      BY <3>3 DEF Expand, Idle, ToBlock
    <3>4. /\ UNCHANGED <<nodes, status, dependsOn, output, evidence>>
          /\ tick' = [tick EXCEPT !.pc = "complete"]
          /\ evidence[tick.act.cycle] = "passed"
      BY <2>2, <3>1, <3>3 DEF SettleVerification, RepairNode, Unexpanded, EvidencePassed, ToBlock, Idle
    <3>5. Verified(tick.act.cycle)
      BY <3>1 DEF SettleVerification, RepairNode, Acting, TickInv, DecisionHolds
    <3>6. tick'.act = tick.act
      BY <3>2, <3>4
    <3>7. \A c : Verified(c)' <=> Verified(c)
      BY <3>4 DEF Succeeded, Reviewed, Verified
    <3> QED BY <2>2, <3>4, <3>5, <3>6, <3>7 DEF TickInv
  <2> QED BY <2>1, <2>2 DEF TickInv
<1>2. CASE WorkerClaim \/ WorkerSettle \/ User
  <2>1. /\ tick' = tick /\ evidence' = evidence
        /\ \A k \in nodes' : k \notin nodes => k[1] \in {"replan", "rework"}
    BY <1>2, OthersLeaveTick
  <2>2. /\ \A c \in 1..(LastCycle + 1) : Succeeded(ProducerFor(c)) => Succeeded(ProducerFor(c))'
        /\ \A c : Reviewed(c) => Reviewed(c)'
        /\ \A c : Verified(c) => Verified(c)'
    BY <2>1, ProducerStays, VerdictsStay
  <2> QED BY <2>1, <2>2 DEF TickInv, DecisionHolds
<1> QED BY <1>1, <1>2 DEF Next

LEMMA LoopStep ==
    ASSUME LoopInv, Next
    PROVE  LoopInv' /\ Kept
<1>1. Kept /\ Appended
  BY GraphIsKept
<1>2. /\ IsTick(tick')
      /\ change' = [x \in Change |-> change'[x]]
      /\ evidence' \in [Cycle -> {"none", "passed", "failed"}]
      /\ ChangeInv'
  <2>1. CASE Tick
    BY <2>1, TickIsRecord DEF LoopInv, TypeOK, ChangeInv
  <2>2. CASE WorkerClaim \/ WorkerSettle \/ User
    BY <2>2, OthersLeaveTick DEF LoopInv, TypeOK
  <2> QED BY <2>1, <2>2 DEF Next
<1>3. TypeOK'
  BY <1>1, <1>2 DEF TypeOK, Kept, Appended
<1> QED BY <1>1, <1>2, <1>3, OrderIsKept, TickIsKept DEF LoopInv

LEMMA LoopInitially == Init => LoopInv
<1> SUFFICES ASSUME Init
             PROVE  LoopInv
  OBVIOUS
<1>1. /\ nodes = {} /\ tick = Idle
      /\ status = [k \in Key |-> "pending"] /\ output = [k \in Key |-> "none"]
      /\ evidence = [c \in Cycle |-> "none"]
      /\ change = [x \in Change |-> [state |-> "none", new |-> <<>>]]
  BY DEF Init
<1>2. TypeOK
  BY <1>1, EndedTicks DEF TypeOK, St, Output
<1>3. CyclesAreOrdered
  BY <1>1 DEF CyclesAreOrdered, Succeeded
<1>4. TickInv /\ ChangeInv
  BY <1>1 DEF TickInv, ChangeInv, Idle
<1> QED BY <1>2, <1>3, <1>4 DEF LoopInv

\* What the loop knows of its graph holds in every reachable state: reviews
\* stand behind executions, executions behind finished plans, and what a tick
\* decided still holds when it acts, whatever workers and the user did between
\* the awaits of advanceAgent (jev-model-loop.js).
THEOREM LoopIsSound == Spec => []LoopInv
<1>1. Init => LoopInv
  BY LoopInitially
<1>2. LoopInv /\ [Next]_vars => LoopInv'
  <2> SUFFICES ASSUME LoopInv, [Next]_vars
               PROVE  LoopInv'
    OBVIOUS
  <2>1. CASE Next
    BY <2>1, LoopStep
  <2>2. CASE UNCHANGED vars
    <3>1. UNCHANGED <<nodes, status, dependsOn, output, evidence, tick, change>>
      BY <2>2 DEF vars, graph
    <3>2. CyclesAreOrdered'
      BY <3>1 DEF LoopInv, CyclesAreOrdered, Succeeded, Planned
    <3>3. TypeOK' /\ ChangeInv'
      BY <3>1 DEF LoopInv, TypeOK, ChangeInv
    <3>4. TickInv'
      BY <3>1 DEF LoopInv, TickInv, DecisionHolds, Succeeded, ProducerFor, Reviewed, Verified
    <3> QED BY <3>2, <3>3, <3>4 DEF LoopInv
  <2> QED BY <2>1, <2>2
<1> QED BY <1>1, <1>2, PTL DEF Spec

\* A review starts only when every step of its cycle has run and what the steps
\* waited for was finished (applyReadiness, claimNode and executionNodes): no
\* expansion, replan, skipped step or reopened node lets it judge an intention.
THEOREM ReviewsSeeFinishedWork == Spec => ReviewSeesFinishedWork
<1>1. LoopInv /\ [Next]_vars =>
         [\A c \in CyclesOf("review") :
             /\ status[<<"review", c>>] = "ready"
             /\ status'[<<"review", c>>] = "running"
             => \A s \in Step : <<s, c>> \in nodes =>
                   /\ status[<<s, c>>] \in {"succeeded", "failed"}
                   /\ \A k \in dependsOn[<<s, c>>] : Succeeded(k)]_vars
  <2> SUFFICES ASSUME LoopInv, Next, NEW c \in CyclesOf("review"),
                      status[<<"review", c>>] = "ready", status'[<<"review", c>>] = "running",
                      NEW s \in Step, <<s, c>> \in nodes
               PROVE  /\ status[<<s, c>>] \in {"succeeded", "failed"}
                      /\ \A k \in dependsOn[<<s, c>>] : Succeeded(k)
    OBVIOUS
  <2>1. c \in Cycle /\ <<"review", c>> \in nodes
    BY CycleOfStored DEF CyclesOf, LoopInv
  <2>2. <<"review", c>> \in Key /\ <<"review", c>> \in Settling
    BY <2>1, KeysOf DEF Settling
  <2>3. D(dependsOn)!Satisfied(status, <<"review", c>>) /\ D(dependsOn)!Causes(status, <<"review", c>>) = {}
    BY <2>1, <2>2, LoopStep DEF Kept
  <2>4. PICK plan \in Plans, p \in Key : Planned(c, plan, p) /\ Succeeded(p)
    BY <2>1 DEF LoopInv, CyclesAreOrdered
  <2>5. /\ DOMAIN plan \subseteq Step /\ Orderly(plan)
        /\ \A t \in DOMAIN plan : <<t, c>> \in nodes /\ <<t, c>> \in Key
    BY <2>1, <2>4, ModelLoopAssumption, KeysOf DEF Planned
  <2> DEFINE ran(t) == status[<<t, c>>] \in {"succeeded", "failed"}
             Unrun == {t \in DOMAIN plan : ~ran(t)}
  <2>6. \A t \in LastSteps(plan) : ran(t)
    <3> SUFFICES ASSUME NEW t \in LastSteps(plan)
                 PROVE  ran(t)
      OBVIOUS
    <3>1. <<t, c>> \in dependsOn[<<"review", c>>] /\ t \in DOMAIN plan
      BY <2>4 DEF Planned, StepNodes, LastSteps
    <3>2. status[<<t, c>>] \in D(dependsOn)!Terminal /\ status[<<t, c>>] \notin {"cancelled", "skipped"}
      BY <2>2, <2>3, <3>1 DEF D!Satisfied, D!Causes, D!DoomsIt
    <3>3. status[<<t, c>>] \in St
      BY <2>5, <3>1 DEF LoopInv, TypeOK
    <3> QED BY <3>2, <3>3 DEF D!Terminal, St
  <2>7. ASSUME NEW t \in DOMAIN plan, ran(t), NEW u \in plan[t]
        PROVE  ran(u)
    <3>1. <<u, c>> \in dependsOn[<<t, c>>]
      BY <2>4, <2>7 DEF Planned, StepNodes
    <3>2. t \in Step /\ <<t, c>> \in nodes
      BY <2>5
    <3>3. Succeeded(<<u, c>>)
      BY <2>1, <2>7, <3>1, <3>2 DEF LoopInv, CyclesAreOrdered, Begun
    <3> QED BY <3>3 DEF Succeeded
  <2>8. Unrun = {}
    <3> SUFFICES ASSUME Unrun # {}
                 PROVE  FALSE
      OBVIOUS
    <3>1. PICK u \in Unrun : \A t \in Unrun : u \notin plan[t]
      <4> HIDE DEF ran
      <4> QED BY <2>5 DEF Orderly
    <3>2. u \notin LastSteps(plan)
      BY <2>6, <3>1
    <3>3. PICK t \in DOMAIN plan : u \in plan[t]
      BY <3>1, <3>2 DEF LastSteps
    <3>4. ran(t)
      BY <3>1, <3>3
    <3> HIDE DEF ran
    <3> QED BY <2>7, <3>1, <3>3, <3>4
  <2>9. s \in DOMAIN plan
    BY <2>4 DEF Planned
  <2>10. ran(s)
    BY <2>8, <2>9
  <2>11. \A k \in dependsOn[<<s, c>>] : Succeeded(k)
    BY <2>1, <2>10 DEF LoopInv, CyclesAreOrdered, Begun
  <2> QED BY <2>10, <2>11
<1> QED BY <1>1, LoopIsSound, PTL DEF Spec, ReviewSeesFinishedWork

-----------------------------------------------------------------------------
(* A graph nobody replanned                                                 *)

Plain == \A k \in nodes : k[1] \notin {"replan", "rework"}

\* The shape of the cycles: what each node of the graph depends on, and that a
\* cycle is executed only behind the repairs before it.
Before(c) == IF c = 1 THEN Implement ELSE <<"repair", c - 1>>

ReviewShape(c) ==
    /\ \E plan \in Plans : Planned(c, plan, Before(c))
    /\ \A j \in Nat : 0 < j /\ j < c => <<"repair", j>> \in nodes

VerifyShape(c) ==
    /\ <<"review", c>> \in nodes
    /\ dependsOn[<<"verify", c>>] = {<<"review", c>>}

RepairShape(c) ==
    /\ <<"review", c>> \in nodes
    /\ \/ dependsOn[<<"repair", c>>] = {<<"review", c>>}
       \/ /\ dependsOn[<<"repair", c>>] = {<<"verify", c>>}
          /\ <<"verify", c>> \in nodes

Shape ==
    /\ nodes # {} => /\ Plan \in nodes /\ dependsOn[Plan] = {}
                     /\ Implement \in nodes /\ dependsOn[Implement] = {Plan}
    /\ \A c \in Nat \ {0} :
          /\ \A t \in Step : <<t, c>> \in nodes => <<"review", c>> \in nodes
          /\ <<"review", c>> \in nodes => ReviewShape(c)
          /\ <<"verify", c>> \in nodes => VerifyShape(c)
          /\ <<"repair", c>> \in nodes => RepairShape(c)

\* A replan shows among the cycles below LastCycle, and so does one that was
\* computed and is still to be appended.
ReplansShow ==
    /\ ~Plain => CyclesOf("replan") # {}
    /\ \A x \in Change : change[x].state = "replan" =>
          \E i \in Nat : /\ DOMAIN change[x].new = {<<"replan", i>>, <<"rework", i>>}
                         /\ i <= LastCycle \/ CyclesOf("replan") # {}

\* A node waits for nothing, or behind a dead dependency.
Stuck(k) == D(dependsOn)!Satisfied(status, k) \/ D(dependsOn)!Causes(status, k) # {}

\* No node waits for nothing, and none waits behind a dead dependency.
Closed ==
    \A k \in Key : k \in nodes /\ status[k] = "pending" =>
        ~Stuck(k)

PlainInv == (Plain => Shape /\ Closed) /\ ReplansShow

-----------------------------------------------------------------------------
(* Readiness leaves the graph closed                                        *)

LEMMA SkipSetClosed ==
    ASSUME NEW deps, NEW st, NEW N
    PROVE  /\ D(deps)!SkipSet(st, N) \subseteq D(deps)!Open(st, N)
           /\ D(deps)!DoomClosed(st, N, D(deps)!SkipSet(st, N))
<1>1. D(deps)!SkipSet(st, N) \subseteq D(deps)!Open(st, N)
  BY DEF D!SkipSet
<1>2. ASSUME NEW n \in D(deps)!Open(st, N), NEW d \in deps[n],
             st[d] \in D(deps)!DoomsIt(n) \/ d \in D(deps)!SkipSet(st, N)
      PROVE  n \in D(deps)!SkipSet(st, N)
  <2>1. ASSUME NEW S \in SUBSET D(deps)!Open(st, N), D(deps)!DoomClosed(st, N, S)
        PROVE  n \in S
    <3>1. d \in D(deps)!SkipSet(st, N) => d \in S
      BY <2>1 DEF D!SkipSet
    <3> QED BY <1>2, <2>1, <3>1 DEF D!DoomClosed
  <2> QED BY <2>1 DEF D!SkipSet
<1> QED BY <1>1, <1>2 DEF D!DoomClosed

LEMMA ReadinessCloses ==
    ASSUME NEW deps, NEW st \in [Key -> St], NEW N, NEW k \in Key, k \in N, deps[k] \subseteq Key,
           D(deps)!Readiness(st, N)[k] = "pending"
    PROVE  /\ ~D(deps)!Satisfied(D(deps)!Readiness(st, N), k)
           /\ D(deps)!Causes(D(deps)!Readiness(st, N), k) = {}
<1> DEFINE skip == D(deps)!SkipSet(st, N)
           after == D(deps)!Readiness(st, N)
<1>1. \A j \in Key : after[j] = IF j \in skip THEN "skipped"
                                ELSE IF j \in N /\ st[j] = "pending" /\ D(deps)!Satisfied(st, j) THEN "ready"
                                ELSE st[j]
  BY DEF D!Readiness
<1>2. k \notin skip /\ st[k] = "pending" /\ ~D(deps)!Satisfied(st, k)
  BY <1>1
<1>3. \A d \in deps[k] : st[d] \notin D(deps)!DoomsIt(k) /\ d \notin skip
  <2>1. k \in D(deps)!Open(st, N)
    BY <1>2 DEF D!Open
  <2>2. D(deps)!DoomClosed(st, N, skip)
    BY SkipSetClosed
  <2> HIDE DEF skip
  <2> QED BY <1>2, <2>1, <2>2 DEF D!DoomClosed
<1> HIDE DEF skip, after
<1>4. \A d \in deps[k] : after[d] = st[d] \/ (st[d] = "pending" /\ after[d] = "ready")
  BY <1>1, <1>3
<1>5. \A d \in deps[k] : after[d] \notin D(deps)!DoomsIt(k)
  <2>1. "ready" \notin D(deps)!DoomsIt(k)
    BY DEF D!DoomsIt, D!DOOMED, D!Terminal
  <2> QED BY <1>3, <1>4, <2>1
<1>6. D(deps)!Causes(after, k) = {}
  BY <1>5 DEF D!Causes
<1>7. ~D(deps)!Satisfied(after, k)
  <2>1. PICK d \in deps[k] : ~(IF k \in Settling THEN st[d] \in D(deps)!Terminal ELSE st[d] = "succeeded")
    BY <1>2 DEF D!Satisfied
  <2>2. ~(IF k \in Settling THEN after[d] \in D(deps)!Terminal ELSE after[d] = "succeeded")
    BY <1>4, <2>1 DEF D!Terminal
  <2> QED BY <2>2 DEF D!Satisfied
<1> QED BY <1>6, <1>7 DEF after

-----------------------------------------------------------------------------
(* The shape is kept                                                        *)

LEMMA PlainKinds ==
    ASSUME TypeOK, Plain, NEW k \in nodes
    PROVE  \/ k \in {Plan, Implement}
           \/ \E c \in Nat \ {0} : k \in {<<"review", c>>, <<"verify", c>>, <<"repair", c>>}
           \/ \E c \in Nat \ {0} : \E t \in Step : k = <<t, c>>
<1>1. k \in StoredKey /\ k[1] \notin {"replan", "rework"}
  BY DEF TypeOK, Plain
<1> QED BY <1>1 DEF StoredKey

LEMMA PlainKeys ==
    TypeOK /\ Plain /\ Shape =>
        /\ nodes \subseteq Key
        /\ \A k \in nodes : dependsOn[k] \subseteq nodes
        /\ \A c \in Nat \ {0} : <<"review", c>> \in nodes => c \in Cycle
<1> SUFFICES ASSUME TypeOK, Plain, Shape
             PROVE  /\ nodes \subseteq Key
                    /\ \A k \in nodes : dependsOn[k] \subseteq nodes
                    /\ \A c \in Nat \ {0} : <<"review", c>> \in nodes => c \in Cycle
  OBVIOUS
<1>1. LastCycle \in Nat \ {0} /\ MaxRepairCycles <= LastCycle /\ MaxRepairCycles \in Nat
  BY LastCycleNat, ModelLoopAssumption
<1>2. \A c : <<"repair", c>> \in nodes => c \in Nat \ {0} /\ c < MaxRepairCycles /\ <<"repair", c>> \in Key
  BY KeysOf DEF TypeOK
<1>3. ASSUME NEW c \in Nat \ {0}, <<"review", c>> \in nodes
      PROVE  /\ c \in Cycle /\ Before(c) \in nodes
             /\ {<<"review", c>>, <<"verify", c>>} \subseteq Key
             /\ dependsOn[<<"review", c>>] \subseteq nodes
             /\ \A t \in Step : <<t, c>> \in Key
             /\ \A t \in Step : <<t, c>> \in nodes => dependsOn[<<t, c>>] \subseteq nodes
  <2>1. ReviewShape(c)
    BY <1>3 DEF Shape
  <2>2. c # 1 => c - 1 \in Nat /\ 0 < c - 1 /\ c - 1 < c
    OBVIOUS
  <2>3. c # 1 => <<"repair", c - 1>> \in nodes
    BY <2>1, <2>2 DEF ReviewShape
  <2>4. c \in Cycle
    BY <1>1, <1>2, <2>2, <2>3 DEF Cycle
  <2>5. Implement \in nodes
    BY <1>3 DEF Shape
  <2>6. Before(c) \in nodes
    BY <2>3, <2>5 DEF Before
  <2>7. PICK plan \in Plans : Planned(c, plan, Before(c))
    BY <2>1 DEF ReviewShape
  <2>8. /\ DOMAIN plan \subseteq Step
        /\ \A t \in DOMAIN plan : plan[t] \subseteq DOMAIN plan
        /\ \A t \in DOMAIN plan : <<t, c>> \in nodes
    BY <2>7, ModelLoopAssumption DEF Planned
  <2>9. dependsOn[<<"review", c>>] \subseteq nodes
    BY <2>7, <2>8 DEF Planned, StepNodes, LastSteps
  <2>10. ASSUME NEW t \in Step, <<t, c>> \in nodes
         PROVE  dependsOn[<<t, c>>] \subseteq nodes
    <3>1. t \in DOMAIN plan
      BY <2>7, <2>10 DEF Planned
    <3> DEFINE b == Before(c)
    <3>2. dependsOn[<<t, c>>] = IF plan[t] = {} THEN {b} ELSE {<<u, c>> : u \in plan[t]}
      BY <2>7, <3>1 DEF Planned, StepNodes
    <3> HIDE DEF b
    <3>3. CASE plan[t] = {}
      BY <2>6, <3>2, <3>3 DEF b
    <3>4. CASE plan[t] # {}
      BY <2>8, <3>1, <3>2, <3>4
    <3> QED BY <3>3, <3>4
  <2> QED BY <2>4, <2>6, <2>9, <2>10, KeysOf
<1>5. ASSUME NEW c \in Nat \ {0}, <<"verify", c>> \in nodes
      PROVE  <<"verify", c>> \in Key /\ dependsOn[<<"verify", c>>] \subseteq nodes
  <2>1. VerifyShape(c)
    BY <1>5 DEF Shape
  <2> QED BY <1>3, <2>1 DEF VerifyShape
<1>6. ASSUME NEW c \in Nat \ {0}, <<"repair", c>> \in nodes
      PROVE  <<"repair", c>> \in Key /\ dependsOn[<<"repair", c>>] \subseteq nodes
  <2>1. RepairShape(c)
    BY <1>6 DEF Shape
  <2> QED BY <1>2, <1>6, <2>1 DEF RepairShape
<1>7. ASSUME NEW c \in Nat \ {0}, NEW t \in Step, <<t, c>> \in nodes
      PROVE  <<t, c>> \in Key /\ dependsOn[<<t, c>>] \subseteq nodes
  BY <1>3, <1>7 DEF Shape
<1>8. ASSUME NEW k \in nodes
      PROVE  k \in Key /\ dependsOn[k] \subseteq nodes
  <2>1. CASE k \in {Plan, Implement}
    <3>1. /\ Plan \in nodes /\ dependsOn[Plan] = {}
          /\ Implement \in nodes /\ dependsOn[Implement] = {Plan}
      BY DEF Shape
    <3> QED BY <2>1, <3>1, KeysOf
  <2>2. CASE \E c \in Nat \ {0} : k \in {<<"review", c>>, <<"verify", c>>, <<"repair", c>>}
    BY <1>3, <1>5, <1>6, <2>2
  <2>3. CASE \E c \in Nat \ {0} : \E t \in Step : k = <<t, c>>
    BY <1>7, <2>3
  <2> QED BY <2>1, <2>2, <2>3, PlainKinds
<1> QED BY <1>3, <1>8

\* What is stored keeps its shape, so that of what is added is left to show.
LEMMA ShapeGrows ==
    ASSUME TypeOK, Plain, Shape, Kept, nodes # {},
           \A c \in Nat \ {0} :
               /\ \A t \in Step : <<t, c>> \in nodes' => <<"review", c>> \in nodes'
               /\ <<"review", c>> \in nodes =>
                     \A t \in Step : <<t, c>> \in nodes' => <<t, c>> \in nodes
               /\ <<"review", c>> \in nodes' /\ <<"review", c>> \notin nodes => ReviewShape(c)'
               /\ <<"verify", c>> \in nodes' /\ <<"verify", c>> \notin nodes => VerifyShape(c)'
               /\ <<"repair", c>> \in nodes' /\ <<"repair", c>> \notin nodes => RepairShape(c)'
    PROVE  Shape'
<1>1. nodes \subseteq nodes' /\ \A k \in nodes : dependsOn'[k] = dependsOn[k]
  BY PlainKeys DEF Kept
<1>2. /\ Plan \in nodes' /\ dependsOn'[Plan] = {}
      /\ Implement \in nodes' /\ dependsOn'[Implement] = {Plan}
  BY <1>1 DEF Shape
<1>4. ASSUME NEW c \in Nat \ {0}, <<"review", c>> \in nodes
      PROVE  ReviewShape(c)'
  <2>1. ReviewShape(c)
    BY <1>4 DEF Shape
  <2>2. PICK plan \in Plans : Planned(c, plan, Before(c))
    BY <2>1 DEF ReviewShape
  <2>3. DOMAIN plan \subseteq Step
    BY ModelLoopAssumption
  <2>4. \A t \in Step : <<t, c>> \in nodes' <=> <<t, c>> \in nodes
    BY <1>1, <1>4
  <2>5. \A t \in DOMAIN plan : dependsOn'[<<t, c>>] = dependsOn[<<t, c>>]
    BY <1>1, <2>2, <2>3 DEF Planned
  <2>6. dependsOn'[<<"review", c>>] = dependsOn[<<"review", c>>]
    BY <1>1, <1>4
  <2>7. Planned(c, plan, Before(c))'
    BY <2>2, <2>4, <2>5, <2>6 DEF Planned, Before
  <2>8. \A j \in Nat : 0 < j /\ j < c => <<"repair", j>> \in nodes'
    BY <1>1, <2>1 DEF ReviewShape
  <2> QED BY <2>7, <2>8 DEF ReviewShape
<1>5. ASSUME NEW c \in Nat \ {0}, <<"verify", c>> \in nodes
      PROVE  VerifyShape(c)'
  <2>1. VerifyShape(c)
    BY <1>5 DEF Shape
  <2> QED BY <1>1, <1>5, <2>1 DEF VerifyShape
<1>6. ASSUME NEW c \in Nat \ {0}, <<"repair", c>> \in nodes
      PROVE  RepairShape(c)'
  <2>1. RepairShape(c)
    BY <1>6 DEF Shape
  <2> QED BY <1>1, <1>6, <2>1 DEF RepairShape
<1> QED BY <1>2, <1>4, <1>5, <1>6 DEF Shape

\* What a step appends to a graph nobody replanned: the first two nodes, the
\* next cycle behind its finished plan, a verification or a repair behind the
\* review, a repair behind the verification, or a replan.
Growth ==
    \/ UNCHANGED <<nodes, dependsOn>>
    \/ /\ nodes = {}
       /\ nodes' = {Plan, Implement}
       /\ dependsOn'[Plan] = {} /\ dependsOn'[Implement] = {Plan}
    \/ \E c \in 1..(LastCycle + 1) : \E plan \in Plans :
          /\ ProducerFor(c) \in nodes
          /\ nodes' = nodes \cup (StepNodes(c, DOMAIN plan) \cup {<<"review", c>>})
          /\ <<"review", c>> \notin nodes
          /\ <<"review", c>> \in Key => dependsOn'[<<"review", c>>] = StepNodes(c, LastSteps(plan))
          /\ \A t \in DOMAIN plan : <<t, c>> \in Key =>
                dependsOn'[<<t, c>>] =
                    IF plan[t] = {} THEN {ProducerFor(c)} ELSE StepNodes(c, plan[t])
    \/ \E c \in Cycle :
          /\ <<"review", c>> \in nodes
          /\ nodes' = nodes \cup {<<"verify", c>>}
          /\ <<"verify", c>> \notin nodes
          /\ dependsOn'[<<"verify", c>>] = {<<"review", c>>}
    \/ \E c \in Cycle :
          /\ <<"review", c>> \in nodes
          /\ nodes' = nodes \cup {<<"repair", c>>}
          /\ <<"repair", c>> \notin nodes
          /\ \/ dependsOn'[<<"repair", c>>] = {<<"review", c>>}
             \/ dependsOn'[<<"repair", c>>] = {<<"verify", c>>} /\ <<"verify", c>> \in nodes
    \/ \E i \in Nat :
          /\ nodes' = nodes \cup {<<"replan", i>>, <<"rework", i>>}
          /\ i <= LastCycle \/ CyclesOf("replan") # {}

LEMMA ShapeStep ==
    ASSUME TypeOK, Plain, Shape, Kept, Growth, Plain'
    PROVE  Shape'
<1>1. CASE UNCHANGED <<nodes, dependsOn>>
  BY <1>1 DEF Shape, ReviewShape, VerifyShape, RepairShape, Planned, Before
<1>2. CASE /\ nodes = {}
           /\ nodes' = {Plan, Implement}
           /\ dependsOn'[Plan] = {} /\ dependsOn'[Implement] = {Plan}
  <2>1. \A c : /\ {<<"review", c>>, <<"verify", c>>, <<"repair", c>>} \cap nodes' = {}
               /\ \A t \in Step : <<t, c>> \notin nodes'
    BY <1>2, StepKinds DEF Plan, Implement
  <2> QED BY <1>2, <2>1 DEF Shape
<1>3. ASSUME NEW c \in 1..(LastCycle + 1), NEW plan \in Plans, ProducerFor(c) \in nodes,
             nodes' = nodes \cup (StepNodes(c, DOMAIN plan) \cup {<<"review", c>>}),
             <<"review", c>> \notin nodes,
             <<"review", c>> \in Key => dependsOn'[<<"review", c>>] = StepNodes(c, LastSteps(plan)),
             \A t \in DOMAIN plan : <<t, c>> \in Key =>
                 dependsOn'[<<t, c>>] =
                     IF plan[t] = {} THEN {ProducerFor(c)} ELSE StepNodes(c, plan[t])
      PROVE  Shape'
  <2>1. c \in Nat \ {0} /\ MaxRepairCycles \in Nat /\ LastCycle \in Nat \ {0} /\ MaxRepairCycles <= LastCycle
    BY LastCycleNat, ModelLoopAssumption
  <2>2. NoKey \notin nodes /\ <<"rework", c - 1>> \notin nodes
    BY KeysOf DEF TypeOK, Plain
  <2>3. /\ c = 1 => ProducerFor(c) = Implement
        /\ c # 1 => ProducerFor(c) = <<"repair", c - 1>> /\ <<"repair", c - 1>> \in nodes
    BY <1>3, <2>1, <2>2 DEF ProducerFor
  <2>4. c \in Cycle
    <3>1. c # 1 => c - 1 < MaxRepairCycles
      BY <2>3, KeysOf DEF TypeOK
    <3> QED BY <2>1, <3>1 DEF Cycle
  <2>5. <<"review", c>> \in Key /\ \A t \in Step : <<t, c>> \in Key
    BY <2>4, KeysOf
  <2>6. \A j \in Nat : 0 < j /\ j < c => <<"repair", j>> \in nodes
    <3> SUFFICES ASSUME NEW j \in Nat, 0 < j, j < c
                 PROVE  <<"repair", j>> \in nodes
      OBVIOUS
    <3>1. <<"repair", c - 1>> \in nodes /\ c - 1 \in Nat \ {0}
      BY <2>1, <2>3
    <3>2. RepairShape(c - 1)
      BY <3>1 DEF Shape
    <3>3. ReviewShape(c - 1)
      BY <3>1, <3>2 DEF Shape, RepairShape
    <3>4. j = c - 1 \/ j < c - 1
      BY <2>1
    <3> QED BY <3>1, <3>3, <3>4 DEF ReviewShape
  <2>7. DOMAIN plan \subseteq Step
    BY ModelLoopAssumption
  <2>8. /\ \A b : <<"review", b>> \in nodes' /\ <<"review", b>> \notin nodes => b = c
        /\ \A b : <<"verify", b>> \in nodes' => <<"verify", b>> \in nodes
        /\ \A b : <<"repair", b>> \in nodes' => <<"repair", b>> \in nodes
        /\ \A b : \A t \in Step : <<t, b>> \in nodes' /\ <<t, b>> \notin nodes =>
                b = c /\ t \in DOMAIN plan
        /\ \A t \in DOMAIN plan : <<t, c>> \in nodes'
        /\ <<"review", c>> \in nodes'
    BY <1>3, <2>7, StepKinds DEF StepNodes
  <2>9. \A t \in Step : <<t, c>> \notin nodes
    BY <1>3, <2>1 DEF Shape
  <2>10. Planned(c, plan, Before(c))'
    <3>1. Before(c) = ProducerFor(c)
      BY <2>3 DEF Before
    <3>2. \A t \in Step : <<t, c>> \in nodes' <=> t \in DOMAIN plan
      BY <2>8, <2>9
    <3> DEFINE b == Before(c)
    <3>3. \A t \in DOMAIN plan :
              dependsOn'[<<t, c>>] = IF plan[t] = {} THEN {b} ELSE StepNodes(c, plan[t])
      BY <1>3, <2>5, <2>7, <3>1
    <3> QED BY <1>3, <2>5, <3>2, <3>3 DEF Planned, Before
  <2>11. ReviewShape(c)'
    BY <1>3, <2>6, <2>10 DEF ReviewShape
  <2>12. nodes # {}
    BY <1>3
  <2>13. ASSUME NEW b \in Nat \ {0}
         PROVE  /\ \A t \in Step : <<t, b>> \in nodes' => <<"review", b>> \in nodes'
                /\ <<"review", b>> \in nodes =>
                      \A t \in Step : <<t, b>> \in nodes' => <<t, b>> \in nodes
                /\ <<"review", b>> \in nodes' /\ <<"review", b>> \notin nodes => ReviewShape(b)'
    <3>1. CASE b = c
      BY <1>3, <2>8, <2>11, <3>1
    <3>2. CASE b # c
      <4>1. \A t \in Step : <<t, b>> \in nodes => <<"review", b>> \in nodes
        BY DEF Shape
      <4>2. nodes \subseteq nodes'
        BY <1>3
      <4> QED BY <2>8, <3>2, <4>1, <4>2
    <3> QED BY <3>1, <3>2
  <2> QED BY <2>8, <2>12, <2>13, ShapeGrows
<1>4. ASSUME NEW c \in Cycle, NEW kind \in {"verify", "repair"}, <<"review", c>> \in nodes,
             nodes' = nodes \cup {<<kind, c>>},
             kind = "verify" => VerifyShape(c)',
             kind = "repair" => RepairShape(c)'
      PROVE  Shape'
  <2>1. /\ \A b : <<"review", b>> \in nodes' => <<"review", b>> \in nodes
        /\ \A b : \A t \in Step : <<t, b>> \in nodes' => <<t, b>> \in nodes
        /\ \A b : <<"verify", b>> \in nodes' /\ <<"verify", b>> \notin nodes => b = c /\ kind = "verify"
        /\ \A b : <<"repair", b>> \in nodes' /\ <<"repair", b>> \notin nodes => b = c /\ kind = "repair"
    BY <1>4, StepKinds
  <2>2. nodes # {} /\ nodes \subseteq nodes'
    BY <1>4
  <2>3. ASSUME NEW b \in Nat \ {0}
        PROVE  /\ <<"verify", b>> \in nodes' /\ <<"verify", b>> \notin nodes => VerifyShape(b)'
               /\ <<"repair", b>> \in nodes' /\ <<"repair", b>> \notin nodes => RepairShape(b)'
    <3>1. CASE b = c
      BY <1>4, <2>1, <3>1
    <3>2. CASE b # c
      BY <2>1, <3>2
    <3> QED BY <3>1, <3>2
  <2>4. \A b \in Nat \ {0} : \A t \in Step : <<t, b>> \in nodes => <<"review", b>> \in nodes
    BY DEF Shape
  <2> QED BY <2>1, <2>2, <2>3, <2>4, ShapeGrows
<1>5. ASSUME NEW c \in Cycle, <<"review", c>> \in nodes, nodes' = nodes \cup {<<"verify", c>>},
             dependsOn'[<<"verify", c>>] = {<<"review", c>>}
      PROVE  Shape'
  <2>1. VerifyShape(c)'
    BY <1>5 DEF VerifyShape
  <2> QED BY <1>4, <1>5, <2>1
<1>6. ASSUME NEW c \in Cycle, <<"review", c>> \in nodes, nodes' = nodes \cup {<<"repair", c>>},
             \/ dependsOn'[<<"repair", c>>] = {<<"review", c>>}
             \/ dependsOn'[<<"repair", c>>] = {<<"verify", c>>} /\ <<"verify", c>> \in nodes
      PROVE  Shape'
  <2>1. RepairShape(c)'
    BY <1>6 DEF RepairShape
  <2> QED BY <1>4, <1>6, <2>1
<1>7. ASSUME NEW i \in Nat, nodes' = nodes \cup {<<"replan", i>>, <<"rework", i>>}
      PROVE  FALSE
  <2>1. <<"replan", i>>[1] = "replan"
    OBVIOUS
  <2> QED BY <1>7, <2>1 DEF Plain
<1> QED BY <1>1, <1>2, <1>3, <1>5, <1>6, <1>7 DEF Growth

-----------------------------------------------------------------------------
(* Every step keeps what is known of a plain graph                          *)

LEMMA ReplanIs ==
    ASSUME TypeOK, Plain => Shape, ReplansShow, ReplanNodes # <<>>
    PROVE  \E i \in Nat : /\ DOMAIN ReplanNodes = {<<"replan", i>>, <<"rework", i>>}
                          /\ i <= LastCycle \/ CyclesOf("replan") # {}
<1> DEFINE next == HighestExec + 1
           index == IF ProducerFor(next) # NoKey THEN next ELSE next - 1
<1>1. HighestExec \in Nat /\ HighestExec <= LastCycle
  BY HighestNat
<1>2. index \in Nat
  BY <1>1
<1>3. DOMAIN ReplanNodes = {<<"replan", index>>, <<"rework", index>>}
  <2> HIDE DEF index
  <2> QED BY DEF ReplanNodes, index
<1>4. CASE CyclesOf("replan") # {}
  <2> HIDE DEF index
  <2> QED BY <1>2, <1>3, <1>4
<1>5. CASE CyclesOf("replan") = {}
  <2>1. Plain /\ Shape
    BY <1>5 DEF ReplansShow
  <2>2. LastCycle \in Nat \ {0} /\ MaxRepairCycles <= LastCycle /\ MaxRepairCycles \in Nat
    BY LastCycleNat, ModelLoopAssumption
  <2>4. CASE ProducerFor(next) = NoKey
    <3>1. index = HighestExec
      BY <1>1, <2>4
    <3>2. index <= LastCycle
      BY <1>1, <3>1
    <3> HIDE DEF index
    <3> QED BY <1>2, <1>3, <3>2
  <2>5. CASE ProducerFor(next) # NoKey
    <3>1. <<"rework", next - 1>> \notin nodes
      BY <2>1 DEF Plain
    <3>2. next <= 1 \/ <<"repair", next - 1>> \in nodes
      BY <2>5, <3>1 DEF ProducerFor
    <3>3. <<"repair", next - 1>> \in nodes => next - 1 < MaxRepairCycles
      BY KeysOf DEF TypeOK
    <3>4. next <= LastCycle
      BY <1>1, <2>2, <3>2, <3>3
    <3>5. index <= LastCycle
      BY <2>5, <3>4
    <3> HIDE DEF index
    <3> QED BY <1>2, <1>3, <3>5
  <2> QED BY <2>4, <2>5
<1> QED BY <1>4, <1>5

\* What happens to the statuses: a node is claimed or put back, or readiness is
\* settled over the graph.
Moved ==
    \/ /\ UNCHANGED <<nodes, dependsOn>>
       /\ \A k \in Key : \/ status'[k] = status[k]
                         \/ status[k] \in {"ready", "running"} /\ status'[k] \in {"ready", "running"}
    \/ \E st \in [Key -> St] : status' = D(dependsOn')!Readiness(st, nodes')

LEMMA SettleMoves ==
    ASSUME TypeOK, NEW k, Settle(k)
    PROVE  Moved /\ UNCHANGED <<nodes, dependsOn>>
<1>1. /\ status \in [Key -> St] /\ status[k] = "running"
      /\ UNCHANGED <<nodes, dependsOn>>
  BY DEF TypeOK, Settle
<1>2. ASSUME NEW s \in St, status' = Readied([status EXCEPT ![k] = s])
      PROVE  Moved
  <2> DEFINE st == [status EXCEPT ![k] = s]
  <2>1. st \in [Key -> St]
    BY <1>1
  <2>2. status' = D(dependsOn')!Readiness(st, nodes')
    BY <1>1, <1>2 DEF Readied
  <2> HIDE DEF st
  <2> QED BY <2>1, <2>2 DEF Moved
<1>3. ASSUME status' = [status EXCEPT ![k] = "ready"]
      PROVE  Moved
  <2>1. \A j \in Key : status'[j] = IF j = k THEN "ready" ELSE status[j]
    BY <1>1, <1>3
  <2> QED BY <1>1, <2>1 DEF Moved
<1>4. "failed" \in St /\ "succeeded" \in St
  BY DEF St
<1> QED BY <1>1, <1>2, <1>3, <1>4 DEF Settle

LEMMA ClaimMoves ==
    ASSUME TypeOK, NEW k \in Claimable, status' = [status EXCEPT ![k] = "running"],
           UNCHANGED <<nodes, dependsOn>>
    PROVE  Moved
<1>1. status \in [Key -> St] /\ status[k] = "ready"
  BY DEF TypeOK, Claimable, D!Claimable
<1>2. \A j \in Key : status'[j] = IF j = k THEN "running" ELSE status[j]
  BY <1>1
<1> QED BY <1>1, <1>2 DEF Moved

LEMMA AppendMoves ==
    ASSUME TypeOK, NEW new, Append(new), DOMAIN new \cap nodes = {}
    PROVE  /\ Moved
           /\ nodes' = nodes \cup DOMAIN new
           /\ \A k \in Key : k \in DOMAIN new => dependsOn'[k] = new[k]
<1> DEFINE st == [k \in Key |-> IF k \in DOMAIN new THEN "pending" ELSE status[k]]
<1>1. st \in [Key -> St]
  BY DEF TypeOK, St
<1>2. status' = D(dependsOn')!Readiness(st, nodes')
  BY DEF Append
<1> HIDE DEF st
<1>3. Moved
  BY <1>1, <1>2 DEF Moved
<1> QED BY <1>3, KeptAppend

LEMMA AnswerMoves ==
    ASSUME TypeOK, NEW k, AnswerPermission(k)
    PROVE  Moved /\ UNCHANGED <<nodes, dependsOn>>
<1>1. /\ UNCHANGED <<nodes, dependsOn>>
      /\ \/ status' = status
         \/ \E st \in [Key -> St] : status' = D(dependsOn)!Readiness(st, nodes)
  BY AnswerIs
<1>2. CASE status' = status
  BY <1>1, <1>2 DEF Moved
<1>3. ASSUME NEW st \in [Key -> St], status' = D(dependsOn)!Readiness(st, nodes)
      PROVE  Moved
  <2>1. status' = D(dependsOn')!Readiness(st, nodes')
    BY <1>1, <1>3
  <2> QED BY <2>1 DEF Moved
<1> QED BY <1>1, <1>2, <1>3

LEMMA GraphMoves ==
    ASSUME LoopInv, ReplansShow, Next
    PROVE  Moved /\ Growth
<1> USE DEF LoopInv
<1>0. LastCycle \in Nat \ {0}
  BY LastCycleNat
<1>1. CASE UNCHANGED <<nodes, status, dependsOn>>
  BY <1>1 DEF Moved, Growth
<1>2. CASE CreateModelGraph
  <2> DEFINE new == [k \in {Plan, Implement} |-> IF k = Plan THEN {} ELSE {Plan}]
  <2>1. /\ Append(new) /\ nodes = {} /\ DOMAIN new = {Plan, Implement}
        /\ new[Plan] = {} /\ new[Implement] = {Plan}
    BY <1>2 DEF CreateModelGraph, Plan, Implement
  <2> HIDE DEF new
  <2>2. Moved /\ nodes' = nodes \cup DOMAIN new /\ \A k \in Key : k \in DOMAIN new => dependsOn'[k] = new[k]
    BY <2>1, AppendMoves
  <2>3. dependsOn'[Plan] = {} /\ dependsOn'[Implement] = {Plan} /\ nodes' = {Plan, Implement}
    BY <2>1, <2>2, KeysOf
  <2> QED BY <2>1, <2>2, <2>3 DEF Growth
<1>3. CASE ViewGraph
  <2>1. UNCHANGED <<nodes, dependsOn>>
    BY <1>3 DEF ViewGraph
  <2>2. \/ status' = status
        \/ \E k \in Claimable : status' = [status EXCEPT ![k] = "running"]
    BY <1>3 DEF ViewGraph
  <2>3. ASSUME NEW k \in Claimable, status' = [status EXCEPT ![k] = "running"]
        PROVE  Moved
    BY <2>1, <2>3, ClaimMoves
  <2> QED BY <1>1, <2>1, <2>2, <2>3 DEF Growth
<1>4. ASSUME NEW k, Settle(k)
      PROVE  Moved /\ Growth
  BY <1>4, SettleMoves DEF Growth
<1>5. CASE RunNodeInline
  BY <1>4, <1>5 DEF RunNodeInline
<1>6. CASE ExpandExecution
  <2> DEFINE c == tick.act.cycle
  <2>1. c \in 1..(LastCycle + 1) /\ Succeeded(ProducerFor(c))
    BY <1>6 DEF ExpandExecution, Acting, TickInv, DecisionHolds
  <2>2. \/ UNCHANGED <<nodes, status, dependsOn, output>>
        \/ \E plan \in Plans : Expand(ExecutionNodes(c, plan))
    BY <1>6 DEF ExpandExecution, Unexpanded
  <2> HIDE DEF c
  <2>3. ASSUME NEW plan \in Plans, Expand(ExecutionNodes(c, plan))
        PROVE  Moved /\ Growth
    <3> DEFINE new == ExecutionNodes(c, plan)
    <3>1. /\ DOMAIN new = StepNodes(c, DOMAIN plan) \cup {<<"review", c>>}
          /\ new[<<"review", c>>] = StepNodes(c, LastSteps(plan))
          /\ \A t \in DOMAIN plan :
                new[<<t, c>>] = IF plan[t] = {} THEN {ProducerFor(c)} ELSE StepNodes(c, plan[t])
      BY ExecutionNodesAre
    <3>2. Expand(new)
      BY <2>3
    <3> HIDE DEF new
    <3>3. CASE Append(new) /\ DOMAIN new \cap nodes = {}
      <4>1. Moved /\ nodes' = nodes \cup DOMAIN new /\ \A k \in Key : k \in DOMAIN new => dependsOn'[k] = new[k]
        BY <3>3, AppendMoves
      <4>2. \A t \in DOMAIN plan : <<t, c>> \in DOMAIN new
        BY <3>1 DEF StepNodes
      <4>3. /\ nodes' = nodes \cup (StepNodes(c, DOMAIN plan) \cup {<<"review", c>>})
            /\ <<"review", c>> \notin nodes
            /\ <<"review", c>> \in Key => dependsOn'[<<"review", c>>] = StepNodes(c, LastSteps(plan))
            /\ \A t \in DOMAIN plan : <<t, c>> \in Key =>
                  dependsOn'[<<t, c>>] =
                      IF plan[t] = {} THEN {ProducerFor(c)} ELSE StepNodes(c, plan[t])
            /\ ProducerFor(c) \in nodes
        BY <2>1, <3>1, <3>3, <4>1, <4>2 DEF Succeeded
      <4>4. Growth
        BY <2>1, <4>3 DEF Growth
      <4> QED BY <4>1, <4>4
    <3> QED BY <1>1, <3>2, <3>3, ExpandIs
  <2> QED BY <1>1, <2>2, <2>3
<1>7. ASSUME NEW c \in Cycle, NEW kind, kind \in {"repair", "verify"}, NEW on, Reviewed(c),
             Expand(One(<<kind, c>>, {on})),
             kind = "verify" => on = <<"review", c>>,
             kind = "repair" => on = <<"review", c>> \/ (on = <<"verify", c>> /\ <<"verify", c>> \in nodes),
             <<kind, c>> \in Key
      PROVE  Moved /\ Growth
  <2> DEFINE new == One(<<kind, c>>, {on})
  <2>1. DOMAIN new = {<<kind, c>>} /\ new[<<kind, c>>] = {on}
    BY DEF One
  <2>2. <<"review", c>> \in nodes
    BY <1>7 DEF Reviewed, Succeeded
  <2>3. Expand(new)
    BY <1>7
  <2> HIDE DEF new
  <2>4. CASE Append(new) /\ DOMAIN new \cap nodes = {}
    <3>1. Moved /\ nodes' = nodes \cup DOMAIN new /\ \A k \in Key : k \in DOMAIN new => dependsOn'[k] = new[k]
      BY <2>4, AppendMoves
    <3>2. /\ nodes' = nodes \cup {<<kind, c>>} /\ <<kind, c>> \notin nodes
          /\ dependsOn'[<<kind, c>>] = {on}
      BY <1>7, <2>1, <2>4, <3>1
    <3>3. Growth
      <4>1. CASE kind = "verify"
        BY <1>7, <2>2, <3>2, <4>1 DEF Growth
      <4>2. CASE kind = "repair"
        BY <1>7, <2>2, <3>2, <4>2 DEF Growth
      <4> QED BY <1>7, <4>1, <4>2
    <3> QED BY <3>1, <3>3
  <2> QED BY <1>1, <2>3, <2>4, ExpandIs
<1>8. CASE ExpandRepair
  <2> DEFINE c == tick.act.cycle
  <2>1. c \in Cycle /\ c < MaxRepairCycles /\ Reviewed(c)
    BY <1>8 DEF ExpandRepair, RepairNode, Acting, TickInv, DecisionHolds, Reviewed
  <2>2. Expand(One(<<"repair", c>>, {<<"review", c>>}))
    BY <1>8 DEF ExpandRepair, RepairNode
  <2> HIDE DEF c
  <2>3. <<"repair", c>> \in Key
    BY <1>0, <2>1, ModelLoopAssumption DEF Key, Cycle
  <2> QED BY <1>7, <2>1, <2>2, <2>3
<1>9. CASE ExpandVerify
  <2> DEFINE c == tick.act.cycle
  <2>1. c \in Cycle /\ Reviewed(c)
    BY <1>9 DEF ExpandVerify, VerifyNode, Acting, TickInv, DecisionHolds, Reviewed
  <2>2. Expand(One(<<"verify", c>>, {<<"review", c>>}))
    BY <1>9 DEF ExpandVerify, VerifyNode
  <2> HIDE DEF c
  <2>3. <<"verify", c>> \in Key
    BY <2>1, KeysOf
  <2> QED BY <1>7, <2>1, <2>2, <2>3
<1>10. CASE SettleVerification
  <2> DEFINE c == tick.act.cycle
  <2>1. c \in Cycle /\ Reviewed(c) /\ <<"verify", c>> \in nodes
    BY <1>10 DEF SettleVerification, RepairNode, Acting, TickInv, DecisionHolds, Verified, Reviewed, Succeeded
  <2>2. \/ UNCHANGED <<nodes, status, dependsOn, output>>
        \/ ~(c >= MaxRepairCycles) /\ Expand(One(<<"repair", c>>, {<<"verify", c>>}))
    BY <1>10 DEF SettleVerification, RepairNode, Unexpanded
  <2> HIDE DEF c
  <2>3. ~(c >= MaxRepairCycles) => <<"repair", c>> \in Key
    BY <1>0, <2>1, ModelLoopAssumption DEF Key, Cycle
  <2> QED BY <1>1, <1>7, <2>1, <2>2, <2>3
<1>11. CASE WorkerClaim
  <2>1. UNCHANGED <<nodes, dependsOn>>
    BY <1>11 DEF WorkerClaim
  <2>2. ASSUME NEW k \in Claimable, status' = [status EXCEPT ![k] = "running"]
        PROVE  Moved
    BY <2>1, <2>2, ClaimMoves
  <2> QED BY <1>11, <2>1, <2>2 DEF WorkerClaim, Growth
<1>12. CASE WorkerSettle
  BY <1>4, <1>12 DEF WorkerSettle
<1>13. ASSUME NEW x \in Change, AppendReplan(x)
       PROVE  Moved /\ Growth
  <2> DEFINE new == change[x].new
  <2>1. PICK i \in Nat : DOMAIN new = {<<"replan", i>>, <<"rework", i>>} /\ (i <= LastCycle \/ CyclesOf("replan") # {})
    BY <1>13 DEF AppendReplan, At, ReplansShow
  <2>2. \/ UNCHANGED <<nodes, status, dependsOn, output>>
        \/ Append(new) /\ DOMAIN new \cap nodes = {}
    BY <1>13 DEF AppendReplan, CanExpand, Unexpanded
  <2> HIDE DEF new
  <2>3. CASE Append(new) /\ DOMAIN new \cap nodes = {}
    <3>1. Moved /\ nodes' = nodes \cup DOMAIN new
      BY <2>3, AppendMoves
    <3>2. Growth
      BY <2>1, <3>1 DEF Growth
    <3> QED BY <3>1, <3>2
  <2> QED BY <1>1, <2>2, <2>3
<1>14. ASSUME NEW c, AnswerPermission(c)
       PROVE  Moved /\ Growth
  BY <1>14, AnswerMoves DEF Growth
<1>15. CASE StartTick \/ Decide \/ BlockForUser \/ CompleteAgent
  BY <1>1, <1>15 DEF StartTick, Decide, BlockForUser, CompleteAgent, graph
<1>16. CASE CancelTask
  BY <1>1, <1>16 DEF CancelTask, graph
<1>17. ASSUME NEW x \in Change,
              \/ SubmitChange(x) \/ StoreChange(x) \/ DecideChange(x)
              \/ ReadForReplan(x) \/ ResumeAfterReplan(x)
       PROVE  Moved /\ Growth
  BY <1>1, <1>17 DEF SubmitChange, StoreChange, DecideChange, ReadForReplan, ResumeAfterReplan, graph
<1> QED BY <1>2, <1>3, <1>5, <1>6, <1>8, <1>9, <1>10, <1>11, <1>12, <1>13, <1>14, <1>15, <1>16, <1>17
        DEF Next, Tick, User

LEMMA NeverStuck ==
    ASSUME TypeOK, Moved, NEW k \in Key, k \in nodes', status'[k] = "pending",
           dependsOn'[k] \subseteq Key,
           k \in nodes /\ status[k] = "pending" => ~Stuck(k)
    PROVE  ~Stuck(k)'
<1> SUFFICES /\ ~D(dependsOn')!Satisfied(status', k)
             /\ D(dependsOn')!Causes(status', k) = {}
  BY DEF Stuck, D!Satisfied, D!Causes, D!DoomsIt, D!DOOMED, D!Terminal
<1>3. CASE /\ UNCHANGED <<nodes, dependsOn>>
           /\ \A j \in Key : \/ status'[j] = status[j]
                             \/ status[j] \in {"ready", "running"} /\ status'[j] \in {"ready", "running"}
  <2>1. k \in nodes /\ status[k] = "pending" /\ dependsOn[k] \subseteq Key
    BY <1>3
  <2>2. ~D(dependsOn)!Satisfied(status, k) /\ D(dependsOn)!Causes(status, k) = {}
    BY <2>1 DEF Stuck
  <2>3. PICK d \in dependsOn[k] :
            ~(IF k \in Settling THEN status[d] \in D(dependsOn)!Terminal ELSE status[d] = "succeeded")
    BY <2>2 DEF D!Satisfied
  <2>4. ~(IF k \in Settling THEN status'[d] \in D(dependsOn)!Terminal ELSE status'[d] = "succeeded")
    BY <1>3, <2>1, <2>3 DEF D!Terminal
  <2>5. ~D(dependsOn')!Satisfied(status', k)
    BY <1>3, <2>4 DEF D!Satisfied, D!Terminal
  <2>6. \A e \in dependsOn[k] : status'[e] \notin D(dependsOn)!DoomsIt(k)
    BY <1>3, <2>1, <2>2 DEF D!Causes, D!DoomsIt, D!DOOMED, D!Terminal
  <2>7. D(dependsOn')!Causes(status', k) = {}
    BY <1>3, <2>6 DEF D!Causes, D!DoomsIt, D!DOOMED, D!Terminal
  <2> QED BY <2>5, <2>7
<1>4. CASE \E st \in [Key -> St] : status' = D(dependsOn')!Readiness(st, nodes')
  <2> DEFINE deps == dependsOn'
             N == nodes'
             after == status'
  <2>1. PICK st \in [Key -> St] : after = D(deps)!Readiness(st, N)
    BY <1>4
  <2>2. k \in N /\ deps[k] \subseteq Key /\ after[k] = "pending"
    OBVIOUS
  <2> HIDE DEF deps, N, after
  <2>3. ~D(deps)!Satisfied(after, k) /\ D(deps)!Causes(after, k) = {}
    BY <2>1, <2>2, ReadinessCloses
  <2> QED BY <2>3 DEF deps, after
<1> QED BY <1>3, <1>4 DEF Moved

LEMMA ClosedStep ==
    ASSUME Plain, Shape, Closed, TypeOK, TypeOK', Plain', Shape', Moved
    PROVE  Closed'
<1>1. nodes' \subseteq Key /\ \A k \in nodes' : dependsOn'[k] \subseteq nodes'
  <2>1. (TypeOK /\ Plain /\ Shape =>
            /\ nodes \subseteq Key
            /\ \A k \in nodes : dependsOn[k] \subseteq nodes
            /\ \A c \in Nat \ {0} : <<"review", c>> \in nodes => c \in Cycle)'
    BY PlainKeys, PTL
  <2> QED BY <2>1
<1>2. ASSUME NEW k \in Key, k \in nodes', status'[k] = "pending"
      PROVE  ~Stuck(k)'
  BY <1>1, <1>2, NeverStuck DEF Closed
<1> QED BY <1>2 DEF Closed

LEMMA ReplansStep ==
    ASSUME LoopInv, PlainInv, Next, Kept, Growth
    PROVE  ReplansShow'
<1> USE DEF LoopInv, PlainInv
<1>1. CyclesOf("replan") \subseteq CyclesOf("replan")'
  BY DEF Kept, CyclesOf
<1>2. ~Plain' => CyclesOf("replan")' # {}
  <2>1. CASE ~Plain
    BY <1>1, <2>1 DEF ReplansShow
  <2>2. CASE Plain
    <3>1. CASE \A k \in nodes' : k \notin nodes => k[1] \notin {"replan", "rework"}
      BY <2>2, <3>1 DEF Plain
    <3>2. ASSUME NEW i \in Nat, nodes' = nodes \cup {<<"replan", i>>, <<"rework", i>>},
                 i <= LastCycle \/ CyclesOf("replan") # {}
          PROVE  CyclesOf("replan")' # {}
      <4>1. CASE i <= LastCycle
        <5>1. i \in 0..LastCycle /\ <<"replan", i>> \in nodes'
          BY <3>2, <4>1, LastCycleNat
        <5> QED BY <5>1 DEF CyclesOf
      <4> QED BY <1>1, <3>2, <4>1
    <3>3. ASSUME NEW K, nodes' = nodes \cup K, \A k \in K : k[1] \notin {"replan", "rework"}
          PROVE  CyclesOf("replan")' # {} \/ Plain'
      BY <3>1, <3>3
    <3>4. nodes' = nodes => nodes' = nodes \cup {}
      OBVIOUS
    <3>5. Plan[1] = "plan" /\ Implement[1] = "implement"
      BY DEF Plan, Implement
    <3>6. nodes = {} => nodes' = nodes \cup nodes'
      OBVIOUS
    <3>7. ASSUME NEW c, NEW plan \in Plans,
                 nodes' = nodes \cup (StepNodes(c, DOMAIN plan) \cup {<<"review", c>>})
          PROVE  CyclesOf("replan")' # {} \/ Plain'
      <4> DEFINE K == StepNodes(c, DOMAIN plan) \cup {<<"review", c>>}
      <4>1. \A k \in K : k[1] \notin {"replan", "rework"}
        BY ModelLoopAssumption, StepKinds DEF StepNodes
      <4>2. nodes' = nodes \cup K
        BY <3>7
      <4> HIDE DEF K
      <4> QED BY <3>3, <4>1, <4>2
    <3>8. ASSUME NEW c, NEW kind \in {"verify", "repair"}, nodes' = nodes \cup {<<kind, c>>}
          PROVE  CyclesOf("replan")' # {} \/ Plain'
      <4> DEFINE K == {<<kind, c>>}
      <4>1. \A k \in K : k[1] \notin {"replan", "rework"}
        OBVIOUS
      <4>2. nodes' = nodes \cup K
        BY <3>8
      <4> HIDE DEF K
      <4> QED BY <3>3, <4>1, <4>2
    <3>9. nodes = {} /\ nodes' = {Plan, Implement} => CyclesOf("replan")' # {} \/ Plain'
      BY <3>3, <3>5, <3>6
    <3>10. nodes' = nodes => Plain'
      BY <2>2 DEF Plain
    <3> QED BY <3>2, <3>7, <3>8, <3>9, <3>10 DEF Growth
  <2> QED BY <2>1, <2>2
<1>3. ASSUME NEW x \in Change, change'[x].state = "replan"
      PROVE  \E i \in Nat : /\ DOMAIN change'[x].new = {<<"replan", i>>, <<"rework", i>>}
                            /\ i <= LastCycle \/ CyclesOf("replan")' # {}
  <2>1. CASE change'[x] = change[x]
    BY <1>1, <1>3, <2>1 DEF ReplansShow
  <2>2. CASE change'[x] # change[x]
    <3>1. change = [y \in Change |-> change[y]]
      BY DEF TypeOK
    <3>2. ASSUME NEW y \in Change, NEW s, Move(y, s)
          PROVE  change'[x] = change[x] \/ change'[x].state = s
      BY <3>1, <3>2 DEF Move
    <3>3. change' # change
      BY <2>2
    <3>4. ~Tick
      BY <3>3, TickIsRecord
    <3>5. \A k : ~Settle(k) \/ change' = change \/ ~(WorkerSettle \/ WorkerClaim)
      BY DEF WorkerSettle, WorkerClaim
    <3>6. \E y \in Change :
             \/ SubmitChange(y) \/ StoreChange(y) \/ DecideChange(y)
             \/ ReadForReplan(y) \/ AppendReplan(y) \/ ResumeAfterReplan(y)
      BY <3>3, <3>4 DEF Next, User, WorkerSettle, WorkerClaim, CancelTask, AnswerPermission
    <3>7. PICK y \in Change :
             \/ SubmitChange(y) \/ StoreChange(y) \/ DecideChange(y)
             \/ ReadForReplan(y) \/ AppendReplan(y) \/ ResumeAfterReplan(y)
      BY <3>6
    <3>8. ~\E s : s # "replan" /\ Move(y, s)
      BY <1>3, <2>2, <3>2
    <3>9. ReadForReplan(y)
      BY <3>7, <3>8 DEF SubmitChange, StoreChange, DecideChange, AppendReplan, ResumeAfterReplan
    <3>10. /\ ReplanNodes # <<>>
           /\ change' = [change EXCEPT ![y] = [state |-> "replan", new |-> ReplanNodes]]
      BY <3>8, <3>9 DEF ReadForReplan
    <3> DEFINE new == ReplanNodes
    <3>11. PICK i \in Nat : /\ DOMAIN new = {<<"replan", i>>, <<"rework", i>>}
                            /\ i <= LastCycle \/ CyclesOf("replan") # {}
      BY <3>10, ReplanIs
    <3> HIDE DEF new
    <3>12. change'[x] = [state |-> "replan", new |-> new]
      BY <2>2, <3>1, <3>10 DEF new
    <3>13. change'[x].new = new
      BY <3>12
    <3> QED BY <1>1, <3>11, <3>13
  <2> QED BY <2>1, <2>2
<1> QED BY <1>2, <1>3 DEF ReplansShow

LEMMA PlainStep ==
    ASSUME LoopInv, PlainInv, Next
    PROVE  PlainInv'
<1>1. LoopInv' /\ Kept /\ Moved /\ Growth
  BY LoopStep, GraphMoves DEF PlainInv
<1>2. ReplansShow'
  BY <1>1, ReplansStep
<1>3. ASSUME Plain'
      PROVE  Shape' /\ Closed'
  <2>1. Plain
    BY <1>1, <1>3 DEF Plain, Kept
  <2>2. Shape'
    BY <1>1, <1>3, <2>1, ShapeStep DEF PlainInv, LoopInv
  <2>3. Closed'
    BY <1>1, <1>3, <2>1, <2>2, ClosedStep DEF PlainInv, LoopInv
  <2> QED BY <2>2, <2>3
<1> QED BY <1>2, <1>3 DEF PlainInv

-----------------------------------------------------------------------------
(* A graph nobody replanned is never left waiting for nothing               *)

Rest == {"succeeded", "failed", "skipped"}

\* A cycle with nothing ready, nothing running and nothing stuck has come to
\* rest as soon as what it is executed behind has.
LEMMA CycleRests ==
    ASSUME TypeOK, NEW c \in Cycle, <<"review", c>> \in nodes,
           NEW plan \in Plans, NEW p \in Key, Planned(c, plan, p), status[p] \in Rest,
           \A k \in {<<"review", c>>} \cup StepNodes(c, DOMAIN plan) :
               /\ status[k] \notin {"ready", "running"}
               /\ status[k] = "pending" => ~Stuck(k)
    PROVE  \A k \in {<<"review", c>>} \cup StepNodes(c, DOMAIN plan) : status[k] \in Rest
<1>1. /\ DOMAIN plan \subseteq Step /\ Orderly(plan)
      /\ \A t \in DOMAIN plan : plan[t] \subseteq DOMAIN plan
  BY ModelLoopAssumption
<1>2. /\ <<"review", c>> \in Key /\ <<"review", c>> \in Settling
      /\ \A t \in DOMAIN plan : <<t, c>> \in Key /\ <<t, c>> \notin Settling
  BY <1>1, KeysOf, StepKinds DEF Settling
<1>3. \A t \in DOMAIN plan : <<t, c>> \in StepNodes(c, DOMAIN plan)
  BY DEF StepNodes
<1> DEFINE Waiting == {t \in DOMAIN plan : status[<<t, c>>] = "pending"}
<1>4. Waiting = {}
  <2> SUFFICES ASSUME Waiting # {}
               PROVE  FALSE
    OBVIOUS
  <2>1. PICK t \in Waiting : plan[t] \cap Waiting = {}
    BY <1>1 DEF Orderly
  <2>2. ~Stuck(<<t, c>>)
    BY <1>3
  <2>3. \A d \in dependsOn[<<t, c>>] : status[d] \in Rest
    <3>1. dependsOn[<<t, c>>] = IF plan[t] = {} THEN {p} ELSE {<<u, c>> : u \in plan[t]}
      BY DEF Planned, StepNodes
    <3>2. ASSUME NEW u \in plan[t]
          PROVE  status[<<u, c>>] \in Rest
      <4>1. u \in DOMAIN plan /\ status[<<u, c>>] # "pending"
        BY <1>1, <2>1
      <4>2. status[<<u, c>>] \in St /\ status[<<u, c>>] \notin {"ready", "running"}
        BY <1>2, <1>3, <4>1 DEF TypeOK
      <4> QED BY <4>1, <4>2 DEF St, Rest
    <3>3. CASE plan[t] = {}
      BY <3>1, <3>3
    <3>4. CASE plan[t] # {}
      BY <3>1, <3>2, <3>4
    <3> QED BY <3>3, <3>4
  <2> QED BY <1>2, <2>2, <2>3 DEF Stuck, Rest, D!Satisfied, D!Causes, D!DoomsIt, D!DOOMED, D!Terminal
<1>5. \A t \in DOMAIN plan : status[<<t, c>>] \in Rest
  <2> SUFFICES ASSUME NEW t \in DOMAIN plan
               PROVE  status[<<t, c>>] \in Rest
    OBVIOUS
  <2>1. status[<<t, c>>] \in St /\ status[<<t, c>>] \notin {"ready", "running", "pending"}
    BY <1>2, <1>3, <1>4 DEF TypeOK
  <2> QED BY <2>1 DEF St, Rest
<1>6. status[<<"review", c>>] # "pending"
  <2> SUFFICES ASSUME status[<<"review", c>>] = "pending"
               PROVE  FALSE
    OBVIOUS
  <2>1. \A d \in dependsOn[<<"review", c>>] : status[d] \in Rest
    BY <1>5 DEF Planned, StepNodes, LastSteps
  <2>2. ~Stuck(<<"review", c>>)
    OBVIOUS
  <2> QED BY <1>2, <2>1, <2>2 DEF Stuck, Rest, D!Satisfied, D!Terminal
<1>7. status[<<"review", c>>] \in Rest
  <2>1. status[<<"review", c>>] \in St /\ status[<<"review", c>>] \notin {"ready", "running", "pending"}
    BY <1>2, <1>6 DEF TypeOK
  <2> QED BY <2>1 DEF St, Rest
<1> QED BY <1>5, <1>7 DEF StepNodes

\* The place of a node in the order its cycle is worked off.
Rank(k) ==
    IF k = Plan THEN 0
    ELSE IF k = Implement THEN 1
    ELSE 4 * k[2] + (CASE k[1] \in Step -> 2
                       [] k[1] = "review" -> 3
                       [] k[1] = "verify" -> 4
                       [] k[1] = "repair" -> 5)

LEMMA RankOf ==
    /\ Rank(Plan) = 0 /\ Rank(Implement) = 1
    /\ \A c : /\ \A t \in Step : Rank(<<t, c>>) = 4 * c + 2
             /\ Rank(<<"review", c>>) = 4 * c + 3
             /\ Rank(<<"verify", c>>) = 4 * c + 4
             /\ Rank(<<"repair", c>>) = 4 * c + 5
<1>1. Rank(Plan) = 0 /\ Rank(Implement) = 1
  BY DEF Rank, Plan, Implement
<1>2. ASSUME NEW c
      PROVE  /\ Rank(<<"review", c>>) = 4 * c + 3
             /\ Rank(<<"verify", c>>) = 4 * c + 4
             /\ Rank(<<"repair", c>>) = 4 * c + 5
  <2>1. /\ {<<"review", c>>, <<"verify", c>>, <<"repair", c>>} \cap {Plan, Implement} = {}
        /\ {"review", "verify", "repair"} \cap Step = {}
    BY StepKinds DEF Plan, Implement
  <2> QED BY <2>1 DEF Rank
<1>3. ASSUME NEW c, NEW t \in Step
      PROVE  Rank(<<t, c>>) = 4 * c + 2
  <2>1. <<t, c>> \notin {Plan, Implement} /\ t \notin {"review", "verify", "repair"}
    BY StepKinds DEF Plan, Implement
  <2> QED BY <2>1 DEF Rank
<1> QED BY <1>1, <1>2, <1>3

LEMMA RanksFall ==
    ASSUME TypeOK, Plain, Shape, NEW k \in nodes
    PROVE  /\ Rank(k) \in Nat
           /\ \/ \A d \in dependsOn[k] : Rank(d) < Rank(k)
              \/ \E c \in Nat \ {0} :
                    /\ <<"review", c>> \in nodes
                    /\ k = <<"review", c>> \/ \E t \in Step : k = <<t, c>>
                    /\ Before(c) \in nodes /\ Rank(Before(c)) < Rank(k)
<1>1. CASE k \in {Plan, Implement}
  <2>1. dependsOn[Plan] = {} /\ dependsOn[Implement] = {Plan}
    BY DEF Shape
  <2> QED BY <1>1, <2>1, RankOf
<1>2. ASSUME NEW c \in Nat \ {0}, k = <<"review", c>> \/ \E t \in Step : k = <<t, c>>
      PROVE  /\ Rank(k) \in Nat
             /\ <<"review", c>> \in nodes
             /\ Before(c) \in nodes /\ Rank(Before(c)) < Rank(k)
  <2>1. <<"review", c>> \in nodes
    BY <1>2 DEF Shape
  <2>2. ReviewShape(c) /\ Implement \in nodes
    BY <2>1 DEF Shape
  <2>3. Rank(k) \in Nat /\ Rank(k) >= 4 * c + 2 /\ c - 1 \in Nat
    BY <1>2, RankOf
  <2>4. CASE c = 1
    <3>1. Before(c) = Implement
      BY <2>4 DEF Before
    <3> QED BY <2>1, <2>2, <2>3, <2>4, <3>1, RankOf
  <2>5. CASE c # 1
    <3>1. Before(c) = <<"repair", c - 1>> /\ 0 < c - 1 /\ c - 1 < c
      BY <2>5 DEF Before
    <3>2. Before(c) \in nodes
      BY <2>2, <2>3, <3>1 DEF ReviewShape
    <3>3. Rank(Before(c)) = 4 * (c - 1) + 5
      BY <3>1, RankOf
    <3> QED BY <2>1, <2>3, <3>2, <3>3
  <2> QED BY <2>4, <2>5
<1>3. ASSUME NEW c \in Nat \ {0}, k = <<"verify", c>> \/ k = <<"repair", c>>
      PROVE  Rank(k) \in Nat /\ \A d \in dependsOn[k] : Rank(d) < Rank(k)
  <2>1. CASE k = <<"verify", c>>
    <3>1. dependsOn[k] = {<<"review", c>>}
      BY <2>1 DEF Shape, VerifyShape
    <3> QED BY <2>1, <3>1, RankOf
  <2>2. CASE k = <<"repair", c>>
    <3>1. dependsOn[k] = {<<"review", c>>} \/ dependsOn[k] = {<<"verify", c>>}
      BY <2>2 DEF Shape, RepairShape
    <3> QED BY <2>2, <3>1, RankOf
  <2> QED BY <1>3, <2>1, <2>2
<1>4. CASE \E c \in Nat \ {0} : k = <<"review", c>> \/ \E t \in Step : k = <<t, c>>
  BY <1>2, <1>4
<1> QED BY <1>1, <1>3, <1>4, PlainKinds

\* With nothing ready and nothing running, every node has settled.
LEMMA AllSettled ==
    ASSUME TypeOK, Plain, Shape, Closed, \A k \in nodes : status[k] \notin {"ready", "running"}
    PROVE  \A k \in nodes : status[k] \in Rest
<1> DEFINE Waiting == {k \in nodes : status[k] = "pending"}
           Ranks == {r \in Nat : \E k \in Waiting : Rank(k) = r}
<1>1. nodes \subseteq Key /\ \A k \in nodes : dependsOn[k] \subseteq nodes /\ status[k] \in St
  BY PlainKeys DEF TypeOK
<1>2. Waiting = {}
  <2> SUFFICES ASSUME NEW w \in Waiting
               PROVE  FALSE
    OBVIOUS
  <2>1. Rank(w) \in Ranks
    BY RanksFall
  <2>2. PICK r \in Ranks : \A x \in Ranks : ~(<<x, r>> \in OpToRel(<, Nat))
    BY <2>1, WFMin, NatLessThanWellFounded
  <2>3. PICK k \in Waiting : Rank(k) = r
    BY <2>2
  <2>4. ASSUME NEW d \in nodes, Rank(d) < r
        PROVE  status[d] \in Rest
    <3>1. Rank(d) \in Nat
      BY RanksFall
    <3>2. Rank(d) \notin Ranks
      BY <2>2, <2>4, <3>1 DEF OpToRel
    <3>3. status[d] # "pending"
      BY <2>4, <3>1, <3>2
    <3> QED BY <1>1, <2>4, <3>3 DEF St, Rest
  <2>5. ~Stuck(k)
    BY <1>1, <2>3 DEF Closed
  <2>6. CASE \A d \in dependsOn[k] : Rank(d) < Rank(k)
    <3>1. \A d \in dependsOn[k] : status[d] \in Rest
      BY <1>1, <2>3, <2>4, <2>6
    <3>2. CASE k \in Settling
      BY <2>5, <3>1, <3>2 DEF Stuck, Rest, D!Satisfied, D!Terminal
    <3>3. CASE k \notin Settling
      BY <2>5, <3>1, <3>3 DEF Stuck, Rest, D!Satisfied, D!Causes, D!DoomsIt, D!DOOMED, D!Terminal
    <3> QED BY <3>2, <3>3
  <2>7. ASSUME NEW c \in Nat \ {0}, <<"review", c>> \in nodes,
               k = <<"review", c>> \/ \E t \in Step : k = <<t, c>>,
               Before(c) \in nodes, Rank(Before(c)) < Rank(k)
        PROVE  FALSE
    <3>1. c \in Cycle /\ Before(c) \in Key /\ status[Before(c)] \in Rest
      BY <1>1, <2>3, <2>4, <2>7, PlainKeys
    <3>2. PICK plan \in Plans : Planned(c, plan, Before(c))
      BY <2>7 DEF Shape, ReviewShape
    <3>3. DOMAIN plan \subseteq Step
      BY ModelLoopAssumption
    <3> DEFINE K == {<<"review", c>>} \cup StepNodes(c, DOMAIN plan)
    <3>4. K \subseteq nodes /\ k \in K
      BY <2>3, <2>7, <3>2, <3>3 DEF Planned, StepNodes
    <3>5. \A j \in K : status[j] \notin {"ready", "running"} /\ (status[j] = "pending" => ~Stuck(j))
      BY <1>1, <3>4 DEF Closed
    <3>6. \A j \in K : status[j] \in Rest
      BY <2>7, <3>1, <3>2, <3>5, CycleRests
    <3> QED BY <2>3, <3>4, <3>6 DEF Rest
  <2> QED BY <2>3, <2>6, <2>7, RanksFall
<1> QED BY <1>1, <1>2 DEF St, Rest

\* A planned cycle has a first step, which waits for what the cycle is executed
\* behind.
LEMMA FirstSteps ==
    ASSUME NEW c, NEW plan \in Plans, NEW p, Planned(c, plan, p)
    PROVE  \E t \in Step : <<t, c>> \in nodes /\ p \in dependsOn[<<t, c>>]
<1>1. /\ DOMAIN plan \subseteq Step /\ DOMAIN plan # {} /\ Orderly(plan)
      /\ \A t \in DOMAIN plan : plan[t] \subseteq DOMAIN plan
  BY ModelLoopAssumption
<1>2. PICK t \in DOMAIN plan : plan[t] \cap DOMAIN plan = {}
  BY <1>1 DEF Orderly
<1>3. plan[t] = {} /\ t \in Step
  BY <1>1, <1>2
<1> QED BY <1>3 DEF Planned

\* Which execution is the newest is told by the repairs.
LEMMA NewestCycle ==
    ASSUME TypeOK, Plain, Shape
    PROVE  LET h == HighestExec
           IN  /\ h \in Nat
               /\ h # 0 => <<"review", h>> \in nodes
               /\ <<"review", 1>> \notin nodes => h = 0
               /\ \A c \in Nat \ {0} : <<"review", c>> \in nodes => c <= h
               /\ \A c \in Nat \ {0} : <<"review", c>> \in nodes /\ <<"repair", c>> \notin nodes => c = h
               /\ \A c \in Nat \ {0} : <<"repair", c>> \in nodes /\ <<"review", c + 1>> \notin nodes => c = h
<1> DEFINE h == HighestExec
<1>1. h \in Nat /\ (h # 0 => Executed(h)) /\ \A c \in 0..LastCycle : Executed(c) => c <= h
  BY HighestNat
<1> HIDE DEF h
<1>2. h # 0 => <<"review", h>> \in nodes
  BY <1>1 DEF Shape, Executed
<1>3. \A c \in Nat \ {0} : <<"review", c>> \in nodes => c <= h
  <2> SUFFICES ASSUME NEW c \in Nat \ {0}, <<"review", c>> \in nodes
               PROVE  c <= h
    OBVIOUS
  <2>1. PICK plan \in Plans : Planned(c, plan, Before(c))
    BY DEF Shape, ReviewShape
  <2>2. Executed(c)
    BY <2>1, FirstSteps DEF Executed
  <2>3. c \in 0..LastCycle
    BY PlainKeys, LastCycleNat DEF Cycle
  <2> QED BY <1>1, <2>2, <2>3
<1>7. \A j \in Nat : 0 < j /\ j < h => <<"repair", j>> \in nodes
  <2>1. h # 0 => ReviewShape(h)
    BY <1>1, <1>2 DEF Shape
  <2>2. \A j \in Nat : 0 < j /\ j < h => h # 0
    BY <1>1
  <2> QED BY <2>1, <2>2 DEF ReviewShape
<1>9. \A c \in Nat \ {0} : <<"repair", c>> \in nodes => <<"review", c>> \in nodes
  BY DEF Shape, RepairShape
<1>10. \A c \in Nat \ {0} : c <= h => <<"review", c>> \in nodes
  <2> SUFFICES ASSUME NEW c \in Nat \ {0}, c <= h
               PROVE  <<"review", c>> \in nodes
    OBVIOUS
  <2>1. CASE c = h
    BY <1>2, <2>1
  <2>2. CASE c # h
    <3>1. <<"repair", c>> \in nodes
      BY <1>1, <1>7, <2>2
    <3> QED BY <1>9, <3>1
  <2> QED BY <2>1, <2>2
<1>11. ASSUME NEW c \in Nat \ {0}, <<"review", c>> \in nodes, <<"repair", c>> \notin nodes
       PROVE  c = h
  <2>1. c <= h
    BY <1>3, <1>11
  <2>2. ~(c < h)
    BY <1>7, <1>11
  <2> QED BY <1>1, <2>1, <2>2
<1>12. ASSUME NEW c \in Nat \ {0}, <<"repair", c>> \in nodes, <<"review", c + 1>> \notin nodes
       PROVE  c = h
  <2>1. c <= h
    BY <1>3, <1>9, <1>12
  <2>2. ~(c + 1 <= h)
    BY <1>10, <1>12
  <2> QED BY <1>1, <2>1, <2>2
<1>13. <<"review", 1>> \notin nodes => h = 0
  BY <1>1, <1>10
<1> QED BY <1>1, <1>2, <1>3, <1>11, <1>12, <1>13 DEF h

\* The newest review decides where no repair follows it.
LEMMA NewestReviewActs ==
    ASSUME LoopInv, Plain, Shape, NEW c \in Nat \ {0}, Succeeded(<<"review", c>>),
           <<"repair", c>> \notin nodes,
           <<"verify", c>> \in nodes => status[<<"verify", c>>] = "succeeded"
    PROVE  NextModelGraphAction # None
<1> DEFINE h == HighestExec
<1>1. /\ h = c
      /\ \A d \in Nat \ {0} : <<"review", d>> \in nodes => d <= h
  BY NewestCycle DEF LoopInv, Succeeded
<1>2. ~Succeeded(ProducerFor(h + 1))
  <2>1. <<"rework", c>> \notin nodes /\ NoKey \notin nodes
    BY KeysOf DEF LoopInv, TypeOK, Plain
  <2> DEFINE next == h + 1
  <2>2. next - 1 = c /\ ~(next <= 1)
    BY <1>1
  <2> HIDE DEF next
  <2>3. ProducerFor(next) = NoKey
    BY <2>1, <2>2 DEF ProducerFor
  <2>4. ~Succeeded(ProducerFor(next))
    BY <2>1, <2>3 DEF Succeeded
  <2> QED BY <2>4 DEF next
<1>3. c \in Cycle /\ c \in DecidedReviews
  <2>1. <<"review", c>> \in nodes
    BY DEF Succeeded
  <2>2. c \in Cycle
    BY <2>1, PlainKeys DEF LoopInv
  <2> QED BY <2>2, LastCycleNat, <2>1 DEF Cycle, DecidedReviews, CyclesOf
<1>4. Max(DecidedReviews) = c
  <2>1. DecidedReviews \subseteq 0..LastCycle
    BY DEF DecidedReviews, CyclesOf
  <2>2. Max(DecidedReviews) \in DecidedReviews /\ \A d \in DecidedReviews : d <= Max(DecidedReviews)
    BY <1>3, <2>1, GreatestOf, LastCycleNat
  <2>3. \A d \in DecidedReviews : <<"review", d>> \in nodes /\ d \in Nat \ {0}
    BY KeysOf DEF DecidedReviews, Succeeded, LoopInv, TypeOK
  <2>4. \A d \in DecidedReviews : d <= c
    BY <1>1, <2>3
  <2>5. Max(DecidedReviews) <= c /\ c <= Max(DecidedReviews)
    BY <1>3, <2>2, <2>4
  <2>6. Max(DecidedReviews) \in Nat
    BY <2>2, <2>3
  <2> QED BY <2>5, <2>6
<1>5. output[<<"review", c>>] \in Verdict
  BY <1>3 DEF LoopInv, CyclesAreOrdered
<1> DEFINE decision == output[<<"review", c>>]
<1>6. NextModelGraphAction = CASE decision = "revise" -> AfterRevise(c)
                               [] decision = "pass"   -> AfterPass(c)
                               [] decision = "block"  -> Do("block", c)
  BY <1>2, <1>3, <1>4 DEF NextModelGraphAction
<1> HIDE DEF decision
<1>7. AfterRevise(c) # None /\ AfterPass(c) # None /\ Do("block", c) # None
  <2>1. \A what : what # "none" => Do(what, c) # None
    BY DEF Do, None
  <2> QED BY <2>1 DEF AfterRevise, AfterPass
<1>8. decision \in {"revise", "pass", "block"}
  BY <1>5 DEF decision, Verdict
<1>9. CASE decision = "revise"
  BY <1>6, <1>7, <1>9
<1>10. CASE decision = "pass"
  BY <1>6, <1>7, <1>10
<1>11. CASE decision = "block"
  BY <1>6, <1>7, <1>11
<1> QED BY <1>8, <1>9, <1>10, <1>11

LEMMA FirstExecution == Shape /\ <<"review", 1>> \in nodes => ReviewShape(1)
<1> DEFINE first == 1
<1>1. first \in Nat \ {0}
  OBVIOUS
<1> HIDE DEF first
<1>2. Shape /\ <<"review", first>> \in nodes => ReviewShape(first)
  BY <1>1 DEF Shape
<1> QED BY <1>2 DEF first

\* A finished plan nobody executed is executed.
LEMMA FinishedPlanActs ==
    ASSUME LoopInv, Plain, Shape,
           \/ Succeeded(Implement) /\ <<"review", 1>> \notin nodes
           \/ \E c \in Nat \ {0} : Succeeded(<<"repair", c>>) /\ <<"review", c + 1>> \notin nodes
    PROVE  NextModelGraphAction # None
<1> DEFINE h == HighestExec
<1>1. Succeeded(ProducerFor(h + 1))
  <2>1. CASE Succeeded(Implement) /\ <<"review", 1>> \notin nodes
    <3>1. h = 0
      BY <2>1, NewestCycle DEF LoopInv
    <3>2. h + 1 <= 1 /\ Implement \in nodes
      BY <2>1, <3>1 DEF Succeeded
    <3> HIDE DEF h
    <3> QED BY <2>1, <3>2 DEF ProducerFor
  <2>2. ASSUME NEW c \in Nat \ {0}, Succeeded(<<"repair", c>>), <<"review", c + 1>> \notin nodes
        PROVE  Succeeded(ProducerFor(h + 1))
    <3>1. <<"repair", c>> \in nodes
      BY <2>2 DEF Succeeded
    <3>2. h = c
      BY <2>2, <3>1, NewestCycle DEF LoopInv
    <3> DEFINE next == h + 1
    <3>3. next - 1 = c /\ ~(next <= 1)
      BY <3>2
    <3> HIDE DEF next
    <3>4. ProducerFor(next) = <<"repair", c>>
      BY <3>1, <3>3 DEF ProducerFor
    <3>5. Succeeded(ProducerFor(next))
      BY <2>2, <3>4
    <3> QED BY <3>5 DEF next
  <2> QED BY <2>1, <2>2
<1>2. NextModelGraphAction = Do("expand-execution", h + 1)
  BY <1>1 DEF NextModelGraphAction
<1> QED BY <1>2 DEF Do, None

\* What a quiescent graph that nobody replanned offers the next tick.
LEMMA QuietGraphsAct ==
    ASSUME LoopInv, Plain, Shape, Closed, nodes # {},
           \A k \in nodes : status[k] \notin {"ready", "running"}
    PROVE  NextModelGraphAction # None \/ GraphStatus = "failed"
<1>1. \A k \in nodes : status[k] \in {"succeeded", "failed", "skipped"}
  BY AllSettled DEF LoopInv, Rest
<1>2. Implement \in nodes
  BY DEF Shape
<1>3. CASE \A k \in nodes : status[k] = "succeeded"
  <2> DEFINE h == HighestExec
  <2>1. /\ h \in Nat
        /\ h # 0 => <<"review", h>> \in nodes
        /\ \A c \in Nat \ {0} : <<"review", c>> \in nodes => c <= h
    BY NewestCycle DEF LoopInv
  <2> HIDE DEF h
  <2>2. CASE <<"review", 1>> \notin nodes
    BY <1>2, <1>3, <2>2, FinishedPlanActs DEF Succeeded
  <2>3. CASE <<"review", 1>> \in nodes
    <3>2. h \in Nat \ {0}
      BY <2>1, <2>3
    <3>3. CASE <<"repair", h>> \notin nodes
      BY <1>3, <2>1, <3>2, <3>3, NewestReviewActs DEF Succeeded
    <3>4. CASE <<"repair", h>> \in nodes
      <4>1. <<"review", h + 1>> \notin nodes
        <5>1. h + 1 \in Nat \ {0} /\ ~(h + 1 <= h)
          BY <2>1
        <5> QED BY <2>1, <5>1
      <4> QED BY <1>3, <3>2, <3>4, <4>1, FinishedPlanActs DEF Succeeded
    <3> QED BY <3>3, <3>4
  <2> QED BY <2>2, <2>3
<1>4. ASSUME NEW k \in nodes, D(dependsOn)!AwaitsExpansion(status, nodes, k)
      PROVE  NextModelGraphAction # None
  <2>1. Succeeded(k) /\ k[1] \in {"implement", "repair", "review"} /\ \A m \in nodes : k \notin dependsOn[m]
    BY <1>4 DEF D!AwaitsExpansion, Expanding, Producers, Succeeded, Plain
  <2>2. CASE k = Implement
    <3>1. <<"review", 1>> \notin nodes
      <4> SUFFICES ASSUME <<"review", 1>> \in nodes
                   PROVE  FALSE
        OBVIOUS
      <4>1. PICK plan \in Plans : Planned(1, plan, Implement)
        BY FirstExecution DEF ReviewShape, Before
      <4> QED BY <2>1, <2>2, <4>1, FirstSteps
    <3> QED BY <2>1, <2>2, <3>1, FinishedPlanActs
  <2>3. ASSUME NEW c \in Nat \ {0}, k = <<"repair", c>>
        PROVE  NextModelGraphAction # None
    <3>1. <<"review", c + 1>> \notin nodes
      <4> SUFFICES ASSUME <<"review", c + 1>> \in nodes
                   PROVE  FALSE
        OBVIOUS
      <4> DEFINE next == c + 1
      <4>1. next \in Nat \ {0} /\ next # 1 /\ next - 1 = c /\ <<"review", next>> \in nodes
        OBVIOUS
      <4> HIDE DEF next
      <4>2. PICK plan \in Plans : Planned(next, plan, <<"repair", c>>)
        BY <4>1 DEF Shape, ReviewShape, Before
      <4> QED BY <2>1, <2>3, <4>2, FirstSteps
    <3> QED BY <2>1, <2>3, <3>1, FinishedPlanActs
  <2>4. ASSUME NEW c \in Nat \ {0}, k = <<"review", c>>
        PROVE  NextModelGraphAction # None
    <3>1. <<"verify", c>> \notin nodes
      BY <2>1, <2>4 DEF Shape, VerifyShape
    <3>2. <<"repair", c>> \notin nodes
      BY <2>1, <2>4, <3>1 DEF Shape, RepairShape
    <3> QED BY <2>1, <2>4, <3>1, <3>2, NewestReviewActs
  <2>5. k # Plan
    BY <2>1 DEF Plan
  <2>6. ASSUME NEW c \in Nat \ {0}, NEW t \in Step, k = <<t, c>>
        PROVE  FALSE
    BY <2>1, <2>6, StepKinds
  <2> QED BY <2>1, <2>2, <2>3, <2>4, <2>5, <2>6, PlainKinds DEF LoopInv
<1>5. CASE /\ ~\A k \in nodes : status[k] = "succeeded"
           /\ ~\E k \in nodes : D(dependsOn)!AwaitsExpansion(status, nodes, k)
  BY <1>1, <1>5 DEF GraphStatus, D!DeriveGraphStatus, D!Terminal
<1> QED BY <1>3, <1>4, <1>5

LEMMA PlainInitially == Init => PlainInv
<1> SUFFICES ASSUME Init
             PROVE  PlainInv
  OBVIOUS
<1>1. nodes = {} /\ change = [x \in Change |-> [state |-> "none", new |-> <<>>]]
  BY DEF Init
<1>2. Shape /\ Closed /\ Plain
  BY <1>1 DEF Shape, Closed, Plain
<1> QED BY <1>1, <1>2 DEF PlainInv, ReplansShow

\* A graph nobody replanned keeps its shape in every reachable state: the steps
\* of each cycle are executed behind the repair before it, reviewed behind the
\* last of them and verified or repaired behind their review; and no node of it
\* waits for nothing or behind a dead dependency (jev-model-graph.js,
\* applyReadiness).
THEOREM PlainGraphsKeepTheirShape == Spec => [](LoopInv /\ PlainInv)
<1>1. Init => LoopInv /\ PlainInv
  BY LoopInitially, PlainInitially
<1>2. LoopInv /\ PlainInv /\ [Next]_vars => PlainInv'
  <2> SUFFICES ASSUME LoopInv, PlainInv, [Next]_vars
               PROVE  PlainInv'
    OBVIOUS
  <2>1. CASE Next
    BY <2>1, PlainStep
  <2>2. CASE UNCHANGED vars
    <3>1. UNCHANGED <<nodes, dependsOn, status, change>>
      BY <2>2 DEF vars, graph
    <3>2. (Plain => Shape) => (Plain' => Shape')
      BY <3>1 DEF Plain, Shape, ReviewShape, VerifyShape, RepairShape, Planned, Before
    <3>3. ReplansShow'
      BY <3>1 DEF PlainInv, ReplansShow, Plain, CyclesOf
    <3>4. (Plain => Closed) => (Plain' => Closed')
      BY <3>1 DEF Plain, Closed, Stuck, D!Satisfied, D!Causes, D!DoomsIt, D!DOOMED, D!Terminal
    <3> QED BY <3>2, <3>3, <3>4 DEF PlainInv
  <2> QED BY <2>1, <2>2
<1> QED BY <1>1, <1>2, LoopIsSound, PTL DEF Spec

\* A running task that nobody replanned is never left idling without a node to
\* claim, for any ceiling of repair cycles, whatever failed, passed, was refused
\* or was put back (nextModelGraphAction and deriveGraphStatus): the next tick
\* grows the graph, decides, or reports a failure.
THEOREM NeverIdlesSilently == Spec => []NeverSilentlyIdle
<1>1. LoopInv /\ PlainInv => NeverSilentlyIdle
  <2> SUFFICES ASSUME LoopInv, PlainInv, Quiescent, CyclesOf("replan") = {}
               PROVE  NextTickActs
    BY DEF NeverSilentlyIdle
  <2>1. Plain /\ Shape /\ Closed
    BY DEF PlainInv, ReplansShow
  <2> QED BY <2>1, QuietGraphsAct DEF Quiescent, NextTickActs
<1> QED BY <1>1, PlainGraphsKeepTheirShape, PTL


-----------------------------------------------------------------------------
(* A task is completed on the newest verdict                                *)

\* Neither the review of a cycle nor a step of it is stuck.
CyclesClosed ==
    \A c \in Cycle : <<"review", c>> \in nodes =>
        /\ status[<<"review", c>>] = "pending" => ~Stuck(<<"review", c>>)
        /\ \A t \in Step : <<t, c>> \in nodes /\ status[<<t, c>>] = "pending" => ~Stuck(<<t, c>>)

ReviewsRest ==
    \A c \in Cycle : <<"review", c>> \in nodes => status[<<"review", c>>] \in Rest

\* No review of a later cycle has given a verdict.
Newest(c) == \A d \in CyclesOf("review") : d > c => ~Succeeded(<<"review", d>>)

\* Where workers run the nodes, a tick acts on a graph none of them works on.
NewestInv ==
    /\ asked \subseteq Guarded
    /\ CyclesClosed
    /\ tick.pc \in {"decide", "act", "complete"} => inline \/ ReviewsRest
    /\ tick.pc = "act" /\ tick.act.do = "verified" => Newest(tick.act.cycle)
    /\ tick.pc = "complete" => Newest(tick.act.cycle)

LEMMA CyclesClosedStep ==
    ASSUME LoopInv, LoopInv', Kept, Moved, Appended, CyclesClosed
    PROVE  CyclesClosed'
<1> USE DEF LoopInv
<1> SUFFICES ASSUME NEW c \in Cycle, <<"review", c>> \in nodes'
             PROVE  /\ status'[<<"review", c>>] = "pending" => ~Stuck(<<"review", c>>)'
                    /\ \A t \in Step : <<t, c>> \in nodes' /\ status'[<<t, c>>] = "pending" =>
                           ~Stuck(<<t, c>>)'
  BY DEF CyclesClosed, Stuck, D!Satisfied, D!Causes, D!DoomsIt, D!DOOMED, D!Terminal
<1>1. <<"review", c>> \in Key /\ \A t \in Step : <<t, c>> \in Key
  BY KeysOf
<1>2. PICK plan \in Plans, p \in Key : Planned(c, plan, p)' /\ Succeeded(p)'
  BY DEF CyclesAreOrdered
<1>3. \A t \in Step : <<t, c>> \in nodes' => dependsOn'[<<t, c>>] \subseteq Key
  <2> SUFFICES ASSUME NEW t \in Step, <<t, c>> \in nodes'
               PROVE  dependsOn'[<<t, c>>] \subseteq Key
    OBVIOUS
  <2>1. (Planned(c, plan, p) /\ Succeeded(p) /\ <<t, c>> \in nodes =>
             \A d \in dependsOn[<<t, c>>] : d \in Key /\ d \in nodes)'
    BY PlannedDeps, PTL
  <2> QED BY <1>2, <2>1
<1>4. dependsOn'[<<"review", c>>] \subseteq Key
  <2>1. LastSteps(plan) \subseteq Step
    BY ModelLoopAssumption DEF LastSteps
  <2> QED BY <1>1, <1>2, <2>1 DEF Planned, StepNodes
<1>5. status'[<<"review", c>>] = "pending" => ~Stuck(<<"review", c>>)'
  BY <1>1, <1>4, NeverStuck DEF CyclesClosed
<1>6. ASSUME NEW t \in Step, <<t, c>> \in nodes', status'[<<t, c>>] = "pending"
      PROVE  ~Stuck(<<t, c>>)'
  <2>1. <<t, c>> \in nodes => <<"review", c>> \in nodes
    BY DEF CyclesAreOrdered
  <2> QED BY <1>1, <1>3, <1>6, <2>1, NeverStuck DEF CyclesClosed
<1> QED BY <1>5, <1>6

\* With nothing ready and nothing running, every review has settled.
LEMMA QuietReviewsRest ==
    ASSUME LoopInv, CyclesClosed, \A k \in nodes : status[k] \notin {"ready", "running"}
    PROVE  ReviewsRest
<1> SUFFICES ASSUME NEW c \in Cycle, <<"review", c>> \in nodes
             PROVE  status[<<"review", c>>] \in Rest
  BY DEF ReviewsRest
<1>1. PICK plan \in Plans, p \in Key : Planned(c, plan, p) /\ Succeeded(p)
  BY DEF LoopInv, CyclesAreOrdered
<1>2. DOMAIN plan \subseteq Step /\ status[p] \in Rest
  BY <1>1, ModelLoopAssumption DEF Succeeded, Rest
<1> DEFINE K == {<<"review", c>>} \cup StepNodes(c, DOMAIN plan)
<1>3. K \subseteq nodes
  BY <1>1, <1>2 DEF Planned, StepNodes
<1>4. \A k \in K : status[k] \notin {"ready", "running"} /\ (status[k] = "pending" => ~Stuck(k))
  <2>1. \A t \in DOMAIN plan : status[<<t, c>>] = "pending" => ~Stuck(<<t, c>>)
    BY <1>1, <1>2 DEF CyclesClosed, Planned
  <2>2. status[<<"review", c>>] = "pending" => ~Stuck(<<"review", c>>)
    BY DEF CyclesClosed
  <2> QED BY <1>3, <2>1, <2>2 DEF StepNodes
<1> QED BY <1>1, <1>2, <1>4, CycleRests DEF LoopInv

\* The newest review that succeeded decides.
LEMMA VerifiedIsNewest ==
    ASSUME TypeOK, CyclesAreOrdered, NextModelGraphAction.do = "verified"
    PROVE  Newest(NextModelGraphAction.cycle)
<1> DEFINE next == HighestExec + 1
           newest == Max(DecidedReviews)
<1>1. ~Succeeded(ProducerFor(next)) /\ DecidedReviews # {}
  BY DEF NextModelGraphAction, Do, None
<1>2. DecidedReviews \subseteq 0..LastCycle
  BY DEF DecidedReviews, CyclesOf
<1>3. newest \in DecidedReviews /\ \A d \in DecidedReviews : d <= newest
  BY <1>1, <1>2, GreatestOf, LastCycleNat
<1>4. newest \in 0..LastCycle /\ Succeeded(<<"review", newest>>)
  BY <1>2, <1>3 DEF DecidedReviews
<1>5. NextModelGraphAction =
          LET decision == output[<<"review", newest>>]
          IN  CASE decision = "revise" -> AfterRevise(newest)
                [] decision = "pass"   -> AfterPass(newest)
                [] decision = "block"  -> Do("block", newest)
  BY <1>1 DEF NextModelGraphAction
<1> HIDE DEF newest
<1>6. output[<<"review", newest>>] \in Verdict
  <2>1. newest \in Cycle
    BY <1>4, CycleOfStored DEF Succeeded
  <2> QED BY <1>4, <2>1 DEF CyclesAreOrdered
<1>7. \A what, c : Do(what, c).cycle = c
  BY DEF Do
<1>8. NextModelGraphAction.cycle = newest
  <2>1. CASE output[<<"review", newest>>] = "revise"
    BY <1>5, <2>1 DEF AfterRevise, Do, None
  <2>2. CASE output[<<"review", newest>>] = "pass"
    BY <1>5, <2>2 DEF AfterPass, Do, None
  <2>3. CASE output[<<"review", newest>>] = "block"
    BY <1>5, <2>3 DEF Do
  <2> QED BY <1>6, <2>1, <2>2, <2>3 DEF Verdict
<1>9. \A d \in CyclesOf("review") : Succeeded(<<"review", d>>) => d <= newest
  BY <1>3 DEF DecidedReviews
<1>10. CyclesOf("review") \subseteq 0..LastCycle /\ LastCycle \in Nat
  BY LastCycleNat DEF CyclesOf
<1>11. \A d \in CyclesOf("review") : d > newest => ~Succeeded(<<"review", d>>)
  BY <1>4, <1>9, <1>10
<1> QED BY <1>8, <1>11 DEF Newest

\* Whatever else happens to the statuses, readiness gives no verdict and takes
\* none away.
LEMMA ReadinessKeepsVerdicts ==
    ASSUME NEW deps, NEW N, NEW st \in [Key -> St], NEW k \in Key,
           status' = D(deps)!Readiness(st, N), st[k] = status[k]
    PROVE  /\ status[k] \in Rest => status'[k] = status[k]
           /\ status'[k] = "succeeded" => status[k] = "succeeded"
BY Readied1 DEF Rest

\* While a tick decides and acts, workers and the user give no verdict.
LEMMA NobodyElseDecides ==
    ASSUME LoopInv, LoopInv', asked \subseteq Guarded, WorkerClaim \/ WorkerSettle \/ User,
           inline \/ ReviewsRest
    PROVE  /\ inline' \/ ReviewsRest'
           /\ \A c \in Cycle : Succeeded(<<"review", c>>)' => Succeeded(<<"review", c>>)
<1> USE DEF LoopInv
<1>1. \A k \in nodes' : k \notin nodes => k[1] \in {"replan", "rework"}
  BY OthersLeaveTick
<1>2. \A c \in Cycle : <<"review", c>> \in nodes' => <<"review", c>> \in nodes
  <2>1. \A c : <<"review", c>>[1] = "review"
    OBVIOUS
  <2> QED BY <1>1, <2>1
<1>3. inline' = inline
  BY DEF WorkerClaim, WorkerSettle, User, CancelTask, SubmitChange, StoreChange, DecideChange,
         ReadForReplan, AppendReplan, ResumeAfterReplan, AnswerPermission
<1>4. \A c \in Cycle : <<"review", c>> \in Key /\ <<"review", c>> \in Settling
  BY KeysOf DEF Settling
<1> SUFFICES ASSUME NEW c \in Cycle, <<"review", c>> \in nodes
             PROVE  /\ status[<<"review", c>>] \in Rest => status'[<<"review", c>>] = status[<<"review", c>>]
                    /\ status'[<<"review", c>>] = "succeeded" => status[<<"review", c>>] = "succeeded"
  BY <1>2, <1>3 DEF ReviewsRest, Succeeded
<1> DEFINE r == <<"review", c>>
<1>5. r \in Key /\ r \in Settling /\ status[r] \in St /\ (~inline => status[r] \in Rest)
  BY <1>4 DEF TypeOK, ReviewsRest
<1> DEFINE same == /\ status[r] \in Rest => status'[r] = status[r]
                   /\ status'[r] = "succeeded" => status[r] = "succeeded"
<1> SUFFICES same
  OBVIOUS
<1>6. CASE status' = status
  BY <1>6
<1>7. CASE WorkerClaim
  <2>1. PICK k \in Claimable : status' = [status EXCEPT ![k] = "running"]
    BY <1>7 DEF WorkerClaim
  <2>2. status[k] = "ready"
    BY <2>1 DEF Claimable, D!Claimable
  <2>3. status'[r] = IF r = k THEN "running" ELSE status[r]
    BY <1>5, <2>1 DEF TypeOK
  <2> QED BY <2>2, <2>3 DEF Rest
<1>8. CASE WorkerSettle
  <2>1. PICK k \in nodes : Settle(k) /\ ~inline
    BY <1>8 DEF WorkerSettle
  <2>2. status[k] = "running" /\ r # k
    BY <1>5, <2>1 DEF Settle, Rest
  <2>3. ASSUME NEW s \in St, status' = Readied([status EXCEPT ![k] = s])
        PROVE  same
    <3> DEFINE st == [status EXCEPT ![k] = s]
    <3>1. st \in [Key -> St] /\ st[r] = status[r]
      BY <1>5, <2>2 DEF TypeOK
    <3>2. status' = D(dependsOn)!Readiness(st, nodes)
      BY <2>3 DEF Readied
    <3> HIDE DEF st
    <3> QED BY <1>5, <3>1, <3>2, ReadinessKeepsVerdicts
  <2>4. CASE status' = [status EXCEPT ![k] = "ready"]
    BY <2>2, <2>4, <1>5 DEF TypeOK
  <2>5. "failed" \in St /\ "succeeded" \in St
    BY DEF St
  <2> QED BY <2>1, <2>3, <2>4, <2>5 DEF Settle
<1>9. ASSUME NEW x \in Change, AppendReplan(x)
      PROVE  same
  <2> DEFINE new == change[x].new
             N == nodes \cup DOMAIN new
             deps == [k \in Key |-> IF k \in DOMAIN new THEN new[k] ELSE dependsOn[k]]
             st == [k \in Key |-> IF k \in DOMAIN new THEN "pending" ELSE status[k]]
  <2>1. status' = status \/ (DOMAIN new \cap nodes = {} /\ status' = D(deps)!Readiness(st, N))
    BY <1>9 DEF AppendReplan, CanExpand, Append, Unexpanded
  <2>2. CASE DOMAIN new \cap nodes = {} /\ status' = D(deps)!Readiness(st, N)
    <3>1. st \in [Key -> St]
      BY DEF TypeOK, St
    <3>2. st[r] = status[r]
      BY <1>5, <2>2
    <3> HIDE DEF st, deps, N
    <3> QED BY <1>5, <2>2, <3>1, <3>2, ReadinessKeepsVerdicts
  <2> QED BY <1>6, <2>1, <2>2
<1>10. ASSUME NEW k \in asked, AnswerPermission(k)
       PROVE  same
  <2>1. PICK t \in Step, b \in Nat : k = <<t, b>>
    BY ModelLoopAssumption
  <2>2. r # k
    BY <2>1, StepKinds
  <2>3. \/ status' = status
        \/ \E st \in [Key -> St] :
              /\ status' = D(dependsOn)!Readiness(st, nodes)
              /\ \A j \in Key : \/ st[j] = status[j]
                                \/ st[j] = "pending" /\ status[j] = "skipped" /\ j \notin Settling
                                \/ st[j] = "pending" /\ status[j] = "failed" /\ j = k
    BY <1>10, AnswerIs
  <2>4. ASSUME NEW st \in [Key -> St], status' = D(dependsOn)!Readiness(st, nodes), st[r] = status[r]
        PROVE  same
    BY <1>5, <2>4, ReadinessKeepsVerdicts
  <2> QED BY <1>5, <1>6, <2>2, <2>3, <2>4
<1>11. CASE CancelTask
  BY <1>6, <1>11 DEF CancelTask, graph
<1>12. ASSUME NEW x \in Change,
              SubmitChange(x) \/ StoreChange(x) \/ DecideChange(x) \/ ReadForReplan(x) \/ ResumeAfterReplan(x)
       PROVE  same
  BY <1>6, <1>12 DEF SubmitChange, StoreChange, DecideChange, ReadForReplan, ResumeAfterReplan, graph
<1> QED BY <1>7, <1>8, <1>9, <1>10, <1>11, <1>12 DEF User

LEMMA NewestInitially == Init => NewestInv
<1> SUFFICES ASSUME Init
             PROVE  NewestInv
  OBVIOUS
<1>1. nodes = {} /\ asked = {} /\ tick = Idle
  BY DEF Init
<1>2. tick.pc = "idle"
  BY <1>1, EndedTicks
<1> QED BY <1>1, <1>2 DEF NewestInv, CyclesClosed

LEMMA AskedAreGuarded ==
    ASSUME asked \subseteq Guarded, Next
    PROVE  asked' \subseteq Guarded
<1>1. ASSUME NEW k, Settle(k)
      PROVE  asked' \subseteq Guarded
  BY <1>1 DEF Settle
<1>2. asked' = asked \/ (\E k : Settle(k)) \/ (\E k \in asked : AnswerPermission(k))
  BY DEF Next, Tick, User, StartTick, CreateModelGraph, ViewGraph, RunNodeInline, Decide,
         ExpandExecution, ExpandRepair, RepairNode, ExpandVerify, VerifyNode, SettleVerification,
         BlockForUser,
         CompleteAgent, WorkerClaim, WorkerSettle, CancelTask, SubmitChange, StoreChange,
         DecideChange, ReadForReplan, AppendReplan, ResumeAfterReplan
<1> QED BY <1>1, <1>2 DEF AnswerPermission

\* A tick that goes on to decide, act or complete has changed no status.
LEMMA DecidingTicks ==
    ASSUME LoopInv, Tick, tick'.pc \in {"decide", "act", "complete"}
    PROVE  /\ inline' = inline /\ UNCHANGED <<nodes, status, dependsOn, output>>
           /\ tick'.pc = "decide" => inline \/ \A k \in nodes : status[k] \notin {"ready", "running"}
           /\ tick'.pc = "act" => tick.pc = "decide" /\ tick'.act = NextModelGraphAction
           /\ tick'.pc = "complete" => tick.pc = "act" /\ tick.act.do = "verified" /\ tick'.act = tick.act
<1>1. IsTick(tick) /\ tick' # Idle /\ tick' # ToBlock /\ tick' # [Idle EXCEPT !.pc = "view"]
  BY EndedTicks DEF LoopInv, TypeOK
<1>2. \A new : ~Expand(new)
  BY <1>1 DEF Expand
<1>3. ASSUME NEW p, NEW u, u = [tick EXCEPT !.pc = p]
      PROVE  u.pc = p /\ u.act = tick.act
  BY <1>1, <1>3 DEF IsTick
<1>4. CASE ViewGraph
  <2>1. tick'.pc # "run"
    OBVIOUS
  <2>2. \A k : tick' # [tick EXCEPT !.pc = "run", !.node = k]
    BY <1>1, <2>1 DEF IsTick
  <2>3. ~(inline /\ Claimable # {})
    BY <1>4, <2>2 DEF ViewGraph
  <2>4. /\ UNCHANGED <<inline, nodes, status, dependsOn, output>>
        /\ ~(~inline /\ \E k \in nodes : status[k] \in {"ready", "running"})
    BY <1>1, <1>4, <2>3 DEF ViewGraph
  <2> DEFINE f == GraphStatus = "failed"
  <2>5. tick' = [tick EXCEPT !.pc = "decide", !.failed = f]
    BY <1>1, <1>4, <2>3 DEF ViewGraph
  <2> HIDE DEF f
  <2>6. tick'.pc = "decide"
    BY <1>1, <2>5 DEF IsTick
  <2> QED BY <2>4, <2>6
<1>5. CASE Decide
  <2> DEFINE act == NextModelGraphAction
  <2>1. /\ UNCHANGED <<inline, nodes, status, dependsOn, output>>
        /\ tick.pc = "decide"
        /\ tick' = [tick EXCEPT !.pc = "act", !.act = act]
    BY <1>1, <1>5 DEF Decide, graph
  <2> HIDE DEF act
  <2>2. tick'.pc = "act" /\ tick'.act = act
    BY <1>1, <2>1 DEF IsTick
  <2> QED BY <2>1, <2>2 DEF act
<1>6. CASE SettleVerification
  <2>1. /\ UNCHANGED <<inline, nodes, status, dependsOn, output>>
        /\ tick.pc = "act" /\ tick.act.do = "verified"
        /\ tick' = [tick EXCEPT !.pc = "complete"]
    BY <1>1, <1>2, <1>6 DEF SettleVerification, RepairNode, Unexpanded, Acting
  <2>2. tick'.pc = "complete" /\ tick'.act = tick.act
    BY <1>3, <2>1
  <2> QED BY <2>1, <2>2
<1>7. ~(StartTick \/ CreateModelGraph \/ RunNodeInline \/ ExpandExecution \/ ExpandRepair
        \/ ExpandVerify \/ BlockForUser \/ CompleteAgent)
  BY <1>1, <1>2 DEF StartTick, CreateModelGraph, RunNodeInline, ExpandExecution, ExpandRepair, RepairNode,
                    ExpandVerify, VerifyNode, BlockForUser, CompleteAgent
<1> QED BY <1>4, <1>5, <1>6, <1>7 DEF Tick

LEMMA NewestStep ==
    ASSUME LoopInv, PlainInv, NewestInv, Next
    PROVE  NewestInv'
<1>1. LoopInv' /\ Kept /\ Appended /\ Moved
  BY LoopStep, GraphIsKept, GraphMoves DEF PlainInv
<1>2. asked' \subseteq Guarded
  BY AskedAreGuarded DEF NewestInv
<1>3. CyclesClosed'
  BY <1>1, CyclesClosedStep DEF NewestInv
<1>4. CASE WorkerClaim \/ WorkerSettle \/ User
  <2>1. tick' = tick
    BY <1>4, OthersLeaveTick
  <2>2. ASSUME tick.pc \in {"decide", "act", "complete"}
        PROVE  /\ inline' \/ ReviewsRest'
               /\ \A c : Newest(c) => Newest(c)'
    <3>1. /\ inline' \/ ReviewsRest'
          /\ \A c \in Cycle : Succeeded(<<"review", c>>)' => Succeeded(<<"review", c>>)
      BY <1>1, <1>4, <2>2, NobodyElseDecides DEF NewestInv
    <3>2. ASSUME NEW d \in CyclesOf("review")'
          PROVE  d \in Cycle
      <4>1. d \in 0..LastCycle /\ <<"review", d>> \in nodes'
        BY DEF CyclesOf
      <4>2. <<"review", d>> \in StoredKey
        BY <1>1, <4>1 DEF LoopInv, TypeOK
      <4>3. d \in Nat \ {0}
        BY <4>2, KeysOf
      <4> QED BY <4>1, <4>3, LastCycleNat DEF Cycle
    <3>3. \A d \in CyclesOf("review")' : Succeeded(<<"review", d>>)' =>
              Succeeded(<<"review", d>>) /\ d \in CyclesOf("review")
      BY <3>1, <3>2 DEF CyclesOf, Succeeded
    <3>4. \A c : Newest(c) => Newest(c)'
      BY <3>3 DEF Newest
    <3> QED BY <3>1, <3>4
  <2> QED BY <1>2, <1>3, <2>1, <2>2 DEF NewestInv
<1>5. CASE Tick
  <2>1. CASE tick'.pc \notin {"decide", "act", "complete"}
    BY <1>2, <1>3, <2>1 DEF NewestInv
  <2>2. CASE tick'.pc \in {"decide", "act", "complete"}
    <3>1. /\ inline' = inline /\ UNCHANGED <<nodes, status, dependsOn, output>>
          /\ tick'.pc = "decide" => inline \/ \A k \in nodes : status[k] \notin {"ready", "running"}
          /\ tick'.pc = "act" => tick.pc = "decide" /\ tick'.act = NextModelGraphAction
          /\ tick'.pc = "complete" => tick.pc = "act" /\ tick.act.do = "verified" /\ tick'.act = tick.act
      BY <1>5, <2>2, DecidingTicks
    <3>2. /\ ReviewsRest' <=> ReviewsRest
          /\ \A c : Newest(c)' <=> Newest(c)
      BY <3>1 DEF ReviewsRest, Newest, CyclesOf, Succeeded
    <3>3. inline' \/ ReviewsRest'
      <4>1. CASE tick'.pc = "decide"
        BY <3>1, <3>2, <4>1, QuietReviewsRest DEF NewestInv
      <4>2. CASE tick'.pc # "decide"
        BY <2>2, <3>1, <3>2, <4>2 DEF NewestInv
      <4> QED BY <4>1, <4>2
    <3> DEFINE act == NextModelGraphAction
    <3>4. act.do = "verified" => Newest(act.cycle)
      BY VerifiedIsNewest DEF LoopInv
    <3>5. tick'.pc = "act" => tick'.act = act
      BY <3>1
    <3> HIDE DEF act
    <3>6. (tick.pc = "act" /\ tick.act.do = "verified" => Newest(tick.act.cycle))'
      BY <3>2, <3>4, <3>5
    <3>7. (tick.pc = "complete" => Newest(tick.act.cycle))'
      BY <3>1, <3>2 DEF NewestInv
    <3> QED BY <1>2, <1>3, <3>3, <3>6, <3>7 DEF NewestInv
  <2> QED BY <2>1, <2>2
<1> QED BY <1>4, <1>5 DEF Next

\* The newest verdict decides: a task completes only on a passing review whose
\* verification carries a passing objective record, and at that moment no later
\* review has given a verdict, whatever workers, replans and permissions did
\* between the awaits of the tick (nextModelGraphAction, settleVerification).
THEOREM CompletionsRestOnEvidence == Spec => CompletedOnEvidence
<1>1. Init => NewestInv
  BY NewestInitially
<1>2. LoopInv /\ PlainInv /\ NewestInv /\ [Next]_vars => NewestInv'
  <2> SUFFICES ASSUME LoopInv, PlainInv, NewestInv, [Next]_vars
               PROVE  NewestInv'
    OBVIOUS
  <2>1. CASE Next
    BY <2>1, NewestStep
  <2>2. CASE UNCHANGED vars
    <3>1. UNCHANGED <<inline, nodes, status, dependsOn, tick, asked>>
      BY <2>2 DEF vars, graph
    <3> QED BY <3>1 DEF NewestInv, CyclesClosed, ReviewsRest, Newest, CyclesOf, Succeeded, Stuck,
                        D!Satisfied, D!Causes, D!DoomsIt, D!DOOMED, D!Terminal
  <2> QED BY <2>1, <2>2
<1>3. LoopInv /\ NewestInv /\ [Next]_vars =>
         [agent # "completed" /\ agent' = "completed" =>
             \E c \in CyclesOf("verify") :
                 /\ output[<<"review", c>>] = "pass"
                 /\ Succeeded(<<"verify", c>>)
                 /\ evidence[c] = "passed"
                 /\ \A d \in CyclesOf("review") : d > c => ~Succeeded(<<"review", d>>)]_vars
  <2> SUFFICES ASSUME LoopInv, NewestInv, Next, agent # "completed", agent' = "completed"
               PROVE  \E c \in CyclesOf("verify") :
                          /\ output[<<"review", c>>] = "pass"
                          /\ Succeeded(<<"verify", c>>)
                          /\ evidence[c] = "passed"
                          /\ \A d \in CyclesOf("review") : d > c => ~Succeeded(<<"review", d>>)
    OBVIOUS
  <2>1. CompleteAgent
    BY DEF Next, Tick, StartTick, CreateModelGraph, ViewGraph, RunNodeInline, Settle, Decide,
           ExpandExecution, ExpandRepair, RepairNode, ExpandVerify, VerifyNode, SettleVerification,
         BlockForUser,
           CompleteAgent, WorkerClaim, WorkerSettle, User, CancelTask, SubmitChange, StoreChange,
           DecisionState, DecideChange, ReadForReplan, AppendReplan, ResumeAfterReplan, AnswerPermission
  <2> DEFINE c == tick.act.cycle
  <2>2. Verified(c) /\ evidence[c] = "passed" /\ Newest(c)
    BY <2>1 DEF CompleteAgent, LoopInv, TickInv, NewestInv
  <2> HIDE DEF c
  <2>3. c \in CyclesOf("verify")
    <3>1. c \in Cycle /\ <<"verify", c>> \in nodes
      BY <2>2 DEF Verified, Reviewed, Succeeded
    <3> QED BY <3>1, LastCycleNat DEF Cycle, CyclesOf
  <2> QED BY <2>2, <2>3 DEF Verified, Newest
<1> QED BY <1>1, <1>2, <1>3, PlainGraphsKeepTheirShape, PTL DEF Spec, CompletedOnEvidence
=============================================================================
