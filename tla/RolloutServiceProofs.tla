------------------------- MODULE RolloutServiceProofs -------------------------
(***************************************************************************)
(* Theorems about the rollout engine, for every set of configs, agents and *)
(* rollouts, every valid stage plan and every choice of durations.         *)
(***************************************************************************)
EXTENDS RolloutService, TLAPS

TargetStore == [RolloutIds -> [StageIds -> StageTargets]]

LEMMA StageFacts ==
    /\ Len(StagePlan) \in Nat \ {0}
    /\ StageIndexes \subseteq StageIds
    /\ Verification \in StageIds
    /\ Verification \notin StageIndexes
    /\ 1 \in StageIndexes
    /\ Len(StagePlan) \in StageIndexes
BY PlanAssumption DEF ValidateStagePlan, StageIndexes, StageIds, Verification

\* Counting an acknowledgement keeps the rows well formed.
LEMMA ApplyAckType ==
    ASSUME TypeOK, NEW r \in RolloutIds, Exists(r), NEW ack, ack.agent \in Agents
    PROVE  ApplyAck(r, ack) \in TargetStore
<1>1. rollouts[r].stage \in StageIds
  BY DEF TypeOK, Exists, Rollout
<1>2. ack.agent \in Agents
  OBVIOUS
<1>3. targets[r][rollouts[r].stage] \in StageTargets
  BY <1>1 DEF TypeOK
<1> DEFINE t == targets[r][rollouts[r].stage]
<1>4. [t EXCEPT !.acked = @ \cup {ack.agent}] \in StageTargets
  BY <1>2, <1>3 DEF StageTargets
<1>5. QED
  BY <1>1, <1>4 DEF TypeOK, ApplyAck, TargetStore

LEMMA PendingRowsType ==
    ASSUME NEW S \in SUBSET Agents, NEW v \in Versions, NEW n \in Nat
    PROVE  PendingRows(S, v, n) \in StageTargets
BY DEF PendingRows, NoTargets, StageTargets

LEMMA BuildStageTargetsType ==
    ASSUME NEW ro \in Rollout, NEW i \in StageIndexes, NEW n \in Nat
    PROVE  BuildStageTargets(ro, i, n) \in StageTargets
<1>1. ro.candidate \in Versions
  BY DEF Rollout
<1>2. QED
  BY <1>1, PendingRowsType DEF BuildStageTargets, filterAgents

LEMMA EvaluateGuardrailsType ==
    ASSUME TypeOK, NEW ro \in Rollout, NEW t \in StageTargets
    PROVE  /\ evaluateGuardrails(ro, t) \in Rollout
           /\ \E f \in [Rules -> Nat] :
                 evaluateGuardrails(ro, t) = [ro EXCEPT !.failures = f]
<1> DEFINE f == [rule \in Rules |-> IF rule \in ro.guardrails
                                    THEN FailuresAfter(telemetry[rule], ro.failures[rule])
                                    ELSE ro.failures[rule]]
<1>1. ro.failures \in [Rules -> Nat]
  BY DEF Rollout
<1>2. \A rule \in Rules : telemetry[rule] \in Samples
  BY DEF TypeOK
<1>3. f \in [Rules -> Nat]
  BY <1>1, <1>2 DEF FailuresAfter, Samples
<1>4. ro = [ro EXCEPT !.failures = ro.failures]
  BY DEF Rollout
<1>5. \A g \in [Rules -> Nat] : [ro EXCEPT !.failures = g] \in Rollout
  BY DEF Rollout
<1>6. CASE Consults(ro, t)
  <2>1. evaluateGuardrails(ro, t) = [ro EXCEPT !.failures = f]
    BY <1>6 DEF evaluateGuardrails
  <2>2. QED
    BY <1>3, <1>5, <2>1
<1>7. CASE ~Consults(ro, t)
  <2>1. evaluateGuardrails(ro, t) = [ro EXCEPT !.failures = ro.failures]
    BY <1>4, <1>7 DEF evaluateGuardrails
  <2>2. QED
    BY <1>1, <1>5, <2>1
<1>8. QED
  BY <1>6, <1>7

\* A decision to promote is only taken with coverage.
LEMMA PromoteNeedsCoverage ==
    ASSUME NEW ro, NEW t, evaluateStageDecision(ro, t) = "PROMOTE"
    PROVE  CoverageReached(t)
BY DEF evaluateStageDecision, EvaluateStageProgress, Consults

-----------------------------------------------------------------------------
(***************************************************************************)
(* What one visit to a rollout does: the cases of advance, with ro the     *)
(* rollout as read, its failure counters up to date.                       *)
(***************************************************************************)

Completes(r, ro, tg) ==
    /\ rollouts[r].state # "ROLLING_BACK"
    /\ CoverageReached(tg[r][rollouts[r].stage])
    /\ rollouts[r].index = Len(StagePlan)
    /\ completeRollout(r, ro, tg)

MovesOn(r, ro, tg) ==
    /\ rollouts[r].state # "ROLLING_BACK"
    /\ CoverageReached(tg[r][rollouts[r].stage])
    /\ rollouts[r].index < Len(StagePlan)
    /\ activateNextStage(r, ro, tg)

ChangesState(r, ro, tg) ==
    /\ rollouts[r].state # "ROLLING_BACK"
    /\ \E next \in {"PAUSED", "ROLLING_BACK"} : transition(r, ro, next, tg)

Stays(r, ro, tg) ==
    /\ rollouts' = [rollouts EXCEPT ![r] = ro]
    /\ targets' = tg
    /\ UNCHANGED <<nextRevision, stable>>

StartsVerification(r, tg) ==
    /\ rollouts[r].state = "ROLLING_BACK"
    /\ rollouts[r].stage # Verification
    /\ activateRollbackVerification(r, tg)

Finishes(r, tg) ==
    /\ rollouts[r].state = "ROLLING_BACK"
    /\ rollouts[r].stage = Verification
    /\ RollbackOutcome(rollouts[r], tg[r][Verification]) # "NONE"
    /\ finishRollback(r, rollouts[r], RollbackOutcome(rollouts[r], tg[r][Verification]))
    /\ targets' = tg
    /\ UNCHANGED <<nextRevision, stable>>

LEMMA AdvanceCases ==
    ASSUME TypeOK, NEW r \in RolloutIds, Active(r), NEW tg \in TargetStore, advance(r, tg)
    PROVE  /\ UNCHANGED <<agentService, telemetry>>
           /\ \E f \in [Rules -> Nat] :
                 LET ro == [rollouts[r] EXCEPT !.failures = f]
                 IN  \/ Completes(r, ro, tg)
                     \/ MovesOn(r, ro, tg)
                     \/ ChangesState(r, ro, tg)
                     \/ Stays(r, ro, tg)
                     \/ StartsVerification(r, tg)
                     \/ Finishes(r, tg)
<1> DEFINE old == rollouts[r]
           t   == tg[r][old.stage]
<1>1. old \in Rollout
  BY DEF TypeOK, Active, Exists
<1>2. old.failures \in [Rules -> Nat] /\ old = [old EXCEPT !.failures = old.failures]
  BY <1>1 DEF Rollout
<1>3. rollouts = [rollouts EXCEPT ![r] = old]
  BY DEF TypeOK
<1>4. t \in StageTargets
  BY <1>1 DEF Rollout, TargetStore
<1>5. CASE old.state = "ROLLING_BACK"
  <2>1. reconcileRollback(r, tg)
    BY <1>5 DEF advance
  <2>2. StartsVerification(r, tg) \/ Finishes(r, tg) \/ Stays(r, old, tg)
    BY <1>3, <1>5, <2>1 DEF reconcileRollback, StartsVerification, Finishes, Stays
  <2>3. QED
    BY <1>2, <2>2 DEF advance
<1>6. CASE old.state # "ROLLING_BACK"
  <2> DEFINE decision == evaluateStageDecision(old, t)
             new      == evaluateGuardrails(old, t)
  <2>1. decideStage(r, tg)
    BY <1>6 DEF advance
  <2>2. PICK f \in [Rules -> Nat] : new = [old EXCEPT !.failures = f]
    BY <1>1, <1>4, EvaluateGuardrailsType
  <2>3. new.index = old.index
    BY <1>1, <2>2 DEF Rollout
  <2>4. CASE decision = "PROMOTE" /\ promote(r, new, tg)
    <3>1. CoverageReached(t)
      BY <2>4, PromoteNeedsCoverage
    <3>2. Completes(r, new, tg) \/ MovesOn(r, new, tg)
      BY <1>6, <2>3, <2>4, <3>1 DEF promote, Completes, MovesOn
    <3>3. QED
      BY <2>2, <3>2 DEF advance
  <2>5. CASE decision = "ROLLBACK" /\ transition(r, new, "ROLLING_BACK", tg)
    <3>1. ChangesState(r, new, tg)
      BY <1>6, <2>5 DEF ChangesState
    <3>2. QED
      BY <2>2, <3>1 DEF advance
  <2>6. CASE decision = "PAUSE" /\ pause(r, new, tg)
    <3>1. ChangesState(r, new, tg) \/ Stays(r, new, tg)
      BY <1>6, <2>6 DEF pause, ChangesState, Stays
    <3>2. QED
      BY <2>2, <3>1 DEF advance
  <2>7. CASE /\ decision = "WAIT"
             /\ targets' = tg
             /\ UNCHANGED <<rollouts, nextRevision, stable>>
    <3>1. Stays(r, old, tg)
      BY <1>3, <2>7 DEF Stays
    <3>2. QED
      BY <1>2, <3>1 DEF advance
  <2>8. QED
    BY <2>1, <2>4, <2>5, <2>6, <2>7 DEF decideStage
<1>7. QED
  BY <1>5, <1>6

-----------------------------------------------------------------------------
(* Type correctness *)

\* Writing one well-formed stage keeps the target store well formed.
LEMMA StoreUpdate ==
    ASSUME NEW tg \in TargetStore, NEW r \in RolloutIds, NEW s \in StageIds,
           NEW rows \in StageTargets
    PROVE  [tg EXCEPT ![r][s] = rows] \in TargetStore
BY DEF TargetStore

LEMMA VerificationTargetsType ==
    ASSUME NEW ro \in Rollout, NEW t \in StageTargets, NEW n \in Nat
    PROVE  VerificationTargets(ro, t, n) \in StageTargets
<1>1. ro.stable \in Versions /\ t.agents \in SUBSET Agents
  BY DEF Rollout, StageTargets
<1>2. QED
  BY <1>1, PendingRowsType DEF VerificationTargets

\* Changing stage and restarting the stage clock keeps the record well formed.
LEMMA RestageType ==
    ASSUME NEW ro \in Rollout, NEW state \in States, NEW i \in StageIndexes,
           NEW s \in StageIds
    PROVE  /\ [ro EXCEPT !.state = state, !.index = i, !.stage = s, !.stageAge = 0]
                 \in Rollout
           /\ [ro EXCEPT !.stage = s, !.stageAge = 0] \in Rollout
<1>1. 0 \in 0..Horizon
  BY DurationAssumption
<1>2. QED
  BY <1>1 DEF Rollout

LEMMA AdvanceType ==
    ASSUME TypeOK, NEW r \in RolloutIds, Active(r), NEW tg \in TargetStore, advance(r, tg)
    PROVE  TypeOK'
<1> DEFINE old == rollouts[r]
           t   == tg[r][old.stage]
<1>1. old \in Rollout
  BY DEF TypeOK, Active, Exists
<1>2. t \in StageTargets
  BY <1>1 DEF Rollout, TargetStore
<1>3. PICK f \in [Rules -> Nat] :
         LET ro == [rollouts[r] EXCEPT !.failures = f]
         IN  \/ Completes(r, ro, tg)
             \/ MovesOn(r, ro, tg)
             \/ ChangesState(r, ro, tg)
             \/ Stays(r, ro, tg)
             \/ StartsVerification(r, tg)
             \/ Finishes(r, tg)
  BY AdvanceCases
<1>4. UNCHANGED <<agentService, telemetry>>
  BY AdvanceCases
<1> DEFINE ro == [old EXCEPT !.failures = f]
<1>5. ro \in Rollout
  BY <1>1 DEF Rollout
<1>6. nextRevision \in Nat /\ nextRevision + 1 \in Nat \ {0}
  BY DEF TypeOK
<1>a. CASE Completes(r, ro, tg)
  <2>1. [ro EXCEPT !.state = "COMPLETED"] \in Rollout
    BY <1>5 DEF Rollout, States
  <2>2. ro.config \in Configs /\ ro.candidate \in Versions
    BY <1>5 DEF Rollout
  <2>3. QED
    BY <1>4, <1>a, <2>1, <2>2 DEF TypeOK, TargetStore, Completes, completeRollout
<1>b. CASE MovesOn(r, ro, tg)
  <2>1. ro.index = old.index
    BY <1>1 DEF Rollout
  <2>2. ro.index + 1 \in StageIndexes
    BY <1>1, <1>b, <2>1, StageFacts DEF MovesOn, Rollout, StageIndexes
  <2>3. ro.index + 1 \in StageIds
    BY <2>2, StageFacts
  <2>4. NextStage(ro) \in Rollout
    BY <1>5, <2>2, <2>3, RestageType DEF NextStage, States
  <2>5. BuildStageTargets(NextStage(ro), ro.index + 1, nextRevision) \in StageTargets
    BY <1>6, <2>2, <2>4, BuildStageTargetsType
  <2>6. targets' \in TargetStore
    BY <1>b, <2>3, <2>5, StoreUpdate DEF MovesOn, activateNextStage, activateStage
  <2>7. QED
    BY <1>4, <1>6, <1>b, <2>4, <2>6
    DEF TypeOK, TargetStore, MovesOn, activateNextStage, activateStage
<1>c. CASE ChangesState(r, ro, tg)
  <2>1. PICK next \in {"PAUSED", "ROLLING_BACK"} : transition(r, ro, next, tg)
    BY <1>c DEF ChangesState
  <2>2. [ro EXCEPT !.state = next] \in Rollout
    BY <1>5 DEF Rollout, States
  <2>3. QED
    BY <1>4, <2>1, <2>2 DEF TypeOK, TargetStore, transition
<1>d. CASE Stays(r, ro, tg)
  BY <1>4, <1>5, <1>d DEF TypeOK, TargetStore, Stays
<1>e. CASE StartsVerification(r, tg)
  <2> DEFINE new == [old EXCEPT !.stage = Verification, !.stageAge = 0]
  <2>1. new \in Rollout
    BY <1>1, StageFacts, RestageType DEF States
  <2>2. VerificationTargets(new, t, nextRevision) \in StageTargets
    BY <1>2, <1>6, <2>1, VerificationTargetsType
  <2>3. targets' \in TargetStore
    BY <1>e, <2>2, StageFacts, StoreUpdate DEF StartsVerification, activateRollbackVerification
  <2>4. [new EXCEPT !.state = "ROLLED_BACK", !.rollbackStatus = "VERIFIED"] \in Rollout
    BY <2>1 DEF Rollout, States
  <2>5. rollouts' \in [RolloutIds -> Rollout \cup {NoRollout}]
    BY <1>e, <2>1, <2>4
    DEF TypeOK, StartsVerification, activateRollbackVerification, finishRollback
  <2>6. QED
    BY <1>4, <1>6, <1>e, <2>3, <2>5
    DEF TypeOK, TargetStore, StartsVerification, activateRollbackVerification
<1>f. CASE Finishes(r, tg)
  <2> DEFINE outcome == RollbackOutcome(old, tg[r][Verification])
  <2>1. outcome \in {"VERIFIED", "PARTIAL"}
    BY <1>f DEF Finishes, RollbackOutcome
  <2>2. [old EXCEPT !.state = "ROLLED_BACK", !.rollbackStatus = outcome] \in Rollout
    BY <1>1, <2>1 DEF Rollout, States
  <2>3. QED
    BY <1>4, <1>f, <2>2 DEF TypeOK, TargetStore, Finishes, finishRollback
<1>7. QED
  BY <1>3, <1>a, <1>b, <1>c, <1>d, <1>e, <1>f

LEMMA CreateType ==
    ASSUME TypeOK, NEW r \in RolloutIds, NEW c \in Configs, NEW v \in Versions,
           NEW services \in ServiceChoices, NEW rules \in GuardrailChoices,
           CreateRollout(r, c, v, services, rules)
    PROVE  TypeOK'
<1> DEFINE ro == NewRollout(c, v, services, rules)
<1>1. stable[c] \in Versions
  BY DEF TypeOK, CreateRollout
<1>2. ro \in Rollout
  BY <1>1, StageFacts, NameAssumption, DurationAssumption DEF NewRollout, Rollout, States
<1>3. nextRevision \in Nat /\ nextRevision + 1 \in Nat \ {0}
  BY DEF TypeOK
<1>4. BuildStageTargets(ro, 1, nextRevision) \in StageTargets
  BY <1>2, <1>3, StageFacts, BuildStageTargetsType
<1>5. targets' \in TargetStore
  BY <1>4, StageFacts, StoreUpdate DEF CreateRollout, activateStage, TypeOK, TargetStore
<1>6. QED
  BY <1>2, <1>3, <1>5 DEF CreateRollout, activateStage, TypeOK, TargetStore

LEMMA TickType ==
    ASSUME TypeOK, Tick
    PROVE  TypeOK'
<1>1. \A n \in 0..Horizon : Older(n) \in 0..Horizon
  BY DurationAssumption DEF Older
<1>2. \A ro \in Rollout :
         [ro EXCEPT !.age = Older(@), !.stageAge = Older(@)] \in Rollout
  BY <1>1 DEF Rollout
<1>3. \A r \in RolloutIds : Active(r) => rollouts[r] \in Rollout
  BY DEF TypeOK, Active, Exists
<1>4. QED
  BY <1>2, <1>3 DEF Tick, TypeOK

\* Every variable of the rollout engine always holds a value of its type.
THEOREM TypeCorrect == Spec => []TypeOK
<1>1. Init => TypeOK
  BY DEF Init, TypeOK, NoTargets, StageTargets
<1>2. TypeOK /\ [Next]_vars => TypeOK'
  <2> SUFFICES ASSUME TypeOK, [Next]_vars PROVE TypeOK'
    OBVIOUS
  <2>1. ASSUME NEW r \in RolloutIds, NEW c \in Configs, NEW v \in Versions,
               NEW services \in ServiceChoices, NEW rules \in GuardrailChoices,
               CreateRollout(r, c, v, services, rules)
        PROVE  TypeOK'
    BY <2>1, CreateType
  <2>2. ASSUME NEW r \in RolloutIds, NEW ack \in Acks, Acknowledge(r, ack)
        PROVE  TypeOK'
    <3>1. Active(r) /\ advance(r, ApplyAck(r, ack))
      BY <2>2 DEF Acknowledge
    <3>2. Exists(r)
      BY <3>1 DEF Active
    <3>3. ApplyAck(r, ack) \in TargetStore
      BY <3>2, ApplyAckType DEF Acks
    <3>4. QED
      BY <3>1, <3>3, AdvanceType
  <2>3. ASSUME NEW r \in RolloutIds, reconcileRollout(r)
        PROVE  TypeOK'
    <3>1. targets \in TargetStore
      BY DEF TypeOK, TargetStore
    <3>2. QED
      BY <2>3, <3>1, AdvanceType DEF reconcileRollout
  <2>4. ASSUME NEW c \in Configs, NEW v \in Versions, SetStableVersion(c, v)
        PROVE  TypeOK'
    BY <2>4 DEF SetStableVersion, TypeOK
  <2>5. ASSUME NEW a \in Agents, NEW service \in Services \cup {Elsewhere},
               Register(a, service)
        PROVE  TypeOK'
    BY <2>5 DEF Register, TypeOK
  <2>6. ASSUME NEW rule \in Rules, NEW sample \in Samples, TelemetryChanges(rule, sample)
        PROVE  TypeOK'
    BY <2>6 DEF TelemetryChanges, TypeOK
  <2>7. CASE Tick
    BY <2>7, TickType
  <2>8. CASE UNCHANGED vars
    BY <2>8 DEF vars, TypeOK
  <2>9. QED
    BY <2>1, <2>2, <2>3, <2>4, <2>5, <2>6, <2>7, <2>8 DEF Next
<1>3. QED
  BY <1>1, <1>2, PTL DEF Spec
=============================================================================
