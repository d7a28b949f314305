------------------------- MODULE RolloutOutcomeProofs -------------------------
(***************************************************************************)
(* What a rollout's end says, and why.  RolloutSafetyProofs follows the    *)
(* cohorts; here a visit is described by what it decides: the guardrails'  *)
(* verdict, the stable version and the rollback status.  That is enough    *)
(* for the guardrail and rollback properties, and for the refinement of    *)
(* RolloutLifecycle.                                                       *)
(***************************************************************************)
EXTENDS RolloutSafetyProofs

-----------------------------------------------------------------------------
(* The guardrails' verdict *)

\* No rule of the rollout has reached its consecutive-failure threshold.
Tolerated(ro) == \A rule \in ro.guardrails : ro.failures[rule] < requiredFailures(rule)

\* One evaluation that does not read UNHEALTHY leaves a counter below the
\* threshold it was below.
LEMMA ToleratedSample ==
    ASSUME NEW rule \in Rules, NEW sample \in Samples, NEW n \in Nat,
           n < requiredFailures(rule), StatusAfter(rule, sample, n) # "UNHEALTHY"
    PROVE  FailuresAfter(sample, n) < requiredFailures(rule)
<1>1. requiredFailures(rule) \in Nat \ {0}
  BY GuardrailAssumption DEF requiredFailures
<1> QED
  BY <1>1 DEF StatusAfter, FailuresAfter, Samples

\* The rules are evaluated for every promotion, and none of them is UNKNOWN then;
\* a rule that reaches its threshold makes the decision ROLLBACK.
LEMMA Verdict ==
    ASSUME TypeOK, NEW ro \in Rollout, NEW t
    PROVE  /\ evaluateStageDecision(ro, t) = "PROMOTE" =>
                \A rule \in ro.guardrails : telemetry[rule] # "NO_VALUE"
           /\ evaluateStageDecision(ro, t) # "ROLLBACK" /\ Tolerated(ro) =>
                Tolerated(evaluateGuardrails(ro, t))
<1>1. ro.guardrails \subseteq Rules /\ ro.failures \in [Rules -> Nat]
  BY DEF Rollout
<1> DEFINE status(rule) == StatusAfter(rule, telemetry[rule], ro.failures[rule])
<1>2. CASE ~Consults(ro, t)
  <2>1. evaluateStageDecision(ro, t) = "PROMOTE" => ro.guardrails = {}
    BY <1>2 DEF evaluateStageDecision, Consults
  <2> QED
    BY <1>2, <2>1 DEF evaluateGuardrails
<1>3. CASE Consults(ro, t)
  <2>1. ~Elapsed(ro.age, RolloutMaxDuration)
    BY <1>3 DEF Consults
  <2>2. GuardrailStatus(ro) \in Statuses
    BY DEF GuardrailStatus, AggregateStatus, Statuses
  <2>3. \A rule \in ro.guardrails :
           /\ GuardrailStatus(ro) # "UNHEALTHY" => status(rule) # "UNHEALTHY"
           /\ GuardrailStatus(ro) = "HEALTHY" => status(rule) # "UNKNOWN"
    BY DEF GuardrailStatus, AggregateStatus
  <2>4. ASSUME evaluateStageDecision(ro, t) = "PROMOTE", NEW rule \in ro.guardrails
        PROVE  telemetry[rule] # "NO_VALUE"
    <3>1. GuardrailStatus(ro) = "HEALTHY"
      BY <1>3, <2>1, <2>2, <2>4 DEF evaluateStageDecision, Statuses
    <3> QED
      BY <2>3, <3>1 DEF StatusAfter
  <2>5. ASSUME evaluateStageDecision(ro, t) # "ROLLBACK", Tolerated(ro)
        PROVE  Tolerated(evaluateGuardrails(ro, t))
    <3>1. GuardrailStatus(ro) # "UNHEALTHY"
      BY <1>3, <2>1, <2>5 DEF evaluateStageDecision
    <3> DEFINE new == evaluateGuardrails(ro, t)
    <3>2. /\ new.guardrails = ro.guardrails
          /\ \A rule \in ro.guardrails :
                new.failures[rule] = FailuresAfter(telemetry[rule], ro.failures[rule])
      BY <1>1, <1>3 DEF evaluateGuardrails, Rollout
    <3>3. SUFFICES ASSUME NEW rule \in ro.guardrails
                   PROVE  FailuresAfter(telemetry[rule], ro.failures[rule])
                             < requiredFailures(rule)
      BY <3>2 DEF Tolerated
    <3>4. /\ rule \in Rules /\ telemetry[rule] \in Samples /\ ro.failures[rule] \in Nat
          /\ ro.failures[rule] < requiredFailures(rule)
          /\ status(rule) # "UNHEALTHY"
      BY <1>1, <2>3, <2>5, <3>1 DEF TypeOK, Tolerated
    <3> QED
      BY <3>4, ToleratedSample
  <2> QED
    BY <2>4, <2>5
<1> QED
  BY <1>2, <1>3

-----------------------------------------------------------------------------
(* What a visit decides *)

Promoted(r, new) ==
    /\ rollouts[r].state # "ROLLING_BACK"
    /\ \A rule \in rollouts[r].guardrails : telemetry[rule] # "NO_VALUE"
    /\ Tolerated(rollouts[r]) => Tolerated(new)
    /\ new.rollbackStatus = rollouts[r].rollbackStatus
    /\ \/ /\ rollouts[r].index = Len(StagePlan)
          /\ new.state = "COMPLETED" /\ new.index = rollouts[r].index
          /\ stable' = [stable EXCEPT ![rollouts[r].config] = rollouts[r].candidate]
       \/ /\ rollouts[r].index < Len(StagePlan)
          /\ new.state = "DEPLOYING" /\ new.index = rollouts[r].index + 1
          /\ UNCHANGED stable

Held(r, new) ==
    /\ rollouts[r].state # "ROLLING_BACK"
    /\ new.state \in {rollouts[r].state, "PAUSED"} /\ new.index = rollouts[r].index
    /\ Tolerated(rollouts[r]) => Tolerated(new)
    /\ new.rollbackStatus = rollouts[r].rollbackStatus
    /\ UNCHANGED stable

Dropped(r, new) ==
    /\ new.state = "ROLLING_BACK" /\ new.index = rollouts[r].index
    /\ new.rollbackStatus = rollouts[r].rollbackStatus
    /\ UNCHANGED stable

Ended(r, new) ==
    /\ rollouts[r].state = "ROLLING_BACK"
    /\ new.state = "ROLLED_BACK" /\ new.index = rollouts[r].index
    /\ new.rollbackStatus # "NONE"
    /\ LET t == targets'[r][Verification]
       IN  (new.rollbackStatus = "VERIFIED") = (CoverageReached(t) \/ t.agents = {})
    /\ UNCHANGED stable

SameRequest(new, old) ==
    /\ new.config = old.config
    /\ new.candidate = old.candidate
    /\ new.guardrails = old.guardrails

Outcome(r, new) ==
    /\ Active(r)
    /\ rollouts' = [rollouts EXCEPT ![r] = new]
    /\ SameRequest(new, rollouts[r])
    /\ Promoted(r, new) \/ Held(r, new) \/ Dropped(r, new) \/ Ended(r, new)

\* The stage's decision: promote, pause, roll back or wait.
LEMMA DecisionOutcome ==
    ASSUME TypeOK, NEW r \in RolloutIds, Active(r), NEW tg \in TargetStore,
           rollouts[r].state # "ROLLING_BACK", decideStage(r, tg)
    PROVE  \E new \in Rollout : Outcome(r, new)
<1> DEFINE old      == rollouts[r]
           t        == tg[r][old.stage]
           decision == evaluateStageDecision(old, t)
           ro       == evaluateGuardrails(old, t)
<1>1. old \in Rollout
  BY DEF TypeOK, Active, Exists
<1>2. t \in StageTargets
  BY <1>1 DEF Rollout, TargetStore
<1>3. PICK f \in [Rules -> Nat] : ro = [old EXCEPT !.failures = f]
  BY <1>1, <1>2, EvaluateGuardrailsType
<1>4. /\ ro \in Rollout /\ SameRequest(ro, old)
      /\ ro.state = old.state /\ ro.index = old.index
      /\ ro.rollbackStatus = old.rollbackStatus
  BY <1>1, <1>3 DEF Rollout, SameRequest
<1> HIDE DEF ro
<1>5. decision # "ROLLBACK" => (Tolerated(old) => Tolerated(ro))
  BY <1>1, Verdict DEF ro
<1>6. decision = "PROMOTE" => \A rule \in old.guardrails : telemetry[rule] # "NO_VALUE"
  BY <1>1, Verdict
<1>7. \A s \in States :
         LET new == [ro EXCEPT !.state = s]
         IN  /\ new \in Rollout /\ SameRequest(new, old)
             /\ new.state = s /\ new.index = old.index
             /\ new.rollbackStatus = old.rollbackStatus
             /\ Tolerated(ro) => Tolerated(new)
  BY <1>4 DEF Rollout, SameRequest, Tolerated
<1>8. CASE decision = "PROMOTE" /\ promote(r, ro, tg)
  <2>1. CASE ro.index = Len(StagePlan) /\ completeRollout(r, ro, tg)
    <3> DEFINE new == [ro EXCEPT !.state = "COMPLETED"]
    <3>1. /\ new \in Rollout /\ SameRequest(new, old) /\ new.state = "COMPLETED"
          /\ new.index = old.index /\ new.rollbackStatus = old.rollbackStatus
          /\ Tolerated(ro) => Tolerated(new)
      BY <1>7 DEF States
    <3>2. /\ rollouts' = [rollouts EXCEPT ![r] = new]
          /\ stable' = [stable EXCEPT ![old.config] = old.candidate]
      BY <1>4, <2>1 DEF completeRollout, SameRequest
    <3> HIDE DEF new
    <3>3. Promoted(r, new)
      BY <1>4, <1>5, <1>6, <1>8, <2>1, <3>1, <3>2 DEF Promoted
    <3> QED
      BY <3>1, <3>2, <3>3 DEF Outcome
  <2>2. CASE ro.index < Len(StagePlan) /\ activateNextStage(r, ro, tg)
    <3> DEFINE new == NextStage(ro)
    <3>1. ro.index + 1 \in StageIndexes
      BY <1>4, <2>2, StageFacts DEF Rollout, StageIndexes
    <3>2. new \in Rollout
      BY <1>4, <3>1, StageFacts, RestageType DEF NextStage, States
    <3>3. /\ SameRequest(new, old) /\ new.state = "DEPLOYING"
          /\ new.index = old.index + 1 /\ new.rollbackStatus = old.rollbackStatus
          /\ Tolerated(ro) => Tolerated(new)
      BY <1>4 DEF NextStage, Rollout, SameRequest, Tolerated
    <3>4. rollouts' = [rollouts EXCEPT ![r] = new] /\ UNCHANGED stable
      BY <2>2 DEF activateNextStage
    <3> HIDE DEF new
    <3>5. Promoted(r, new)
      BY <1>4, <1>5, <1>6, <1>8, <2>2, <3>3, <3>4 DEF Promoted
    <3> QED
      BY <3>2, <3>3, <3>4, <3>5 DEF Outcome
  <2> QED
    BY <1>8, <2>1, <2>2 DEF promote
<1>9. CASE decision = "ROLLBACK" /\ transition(r, ro, "ROLLING_BACK", tg)
  <2> DEFINE new == [ro EXCEPT !.state = "ROLLING_BACK"]
  <2>1. /\ new \in Rollout /\ SameRequest(new, old) /\ new.state = "ROLLING_BACK"
        /\ new.index = old.index /\ new.rollbackStatus = old.rollbackStatus
    BY <1>7 DEF States
  <2>2. rollouts' = [rollouts EXCEPT ![r] = new] /\ UNCHANGED stable
    BY <1>9 DEF transition
  <2> HIDE DEF new
  <2> QED
    BY <2>1, <2>2 DEF Outcome, Dropped
<1>10. CASE decision = "PAUSE" /\ pause(r, ro, tg)
  <2>1. CASE transition(r, ro, "PAUSED", tg)
    <3> DEFINE new == [ro EXCEPT !.state = "PAUSED"]
    <3>1. /\ new \in Rollout /\ SameRequest(new, old) /\ new.state = "PAUSED"
          /\ new.index = old.index /\ new.rollbackStatus = old.rollbackStatus
          /\ Tolerated(ro) => Tolerated(new)
      BY <1>7 DEF States
    <3>2. rollouts' = [rollouts EXCEPT ![r] = new] /\ UNCHANGED stable
      BY <2>1 DEF transition
    <3> HIDE DEF new
    <3>3. Held(r, new)
      BY <1>5, <1>10, <3>1, <3>2 DEF Held
    <3> QED
      BY <3>1, <3>2, <3>3 DEF Outcome
  <2>2. CASE rollouts' = [rollouts EXCEPT ![r] = ro] /\ UNCHANGED stable
    <3>1. Held(r, ro)
      BY <1>4, <1>5, <1>10, <2>2 DEF Held
    <3> QED
      BY <1>4, <2>2, <3>1 DEF Outcome
  <2> QED
    BY <1>10, <2>1, <2>2 DEF pause
<1>11. CASE decision = "WAIT" /\ UNCHANGED <<rollouts, stable>>
  <2>1. rollouts' = [rollouts EXCEPT ![r] = old]
    BY <1>11 DEF TypeOK
  <2>2. Held(r, old) /\ SameRequest(old, old)
    BY <1>11 DEF Held, SameRequest
  <2> QED
    BY <1>1, <2>1, <2>2 DEF Outcome
<1> QED
  BY <1>8, <1>9, <1>10, <1>11 DEF decideStage, ro

\* The rollback's verification: started, waiting, or over.
LEMMA RollbackOutcomes ==
    ASSUME TypeOK, NEW r \in RolloutIds, Active(r), NEW tg \in TargetStore,
           rollouts[r].state = "ROLLING_BACK", reconcileRollback(r, tg)
    PROVE  \E new \in Rollout : Outcome(r, new)
<1> DEFINE old == rollouts[r]
<1>1. old \in Rollout
  BY DEF TypeOK, Active, Exists
<1>2. CASE old.stage # Verification /\ activateRollbackVerification(r, tg)
  <2> DEFINE rows  == tg[r][old.stage]
             asked == [old EXCEPT !.stage = Verification, !.stageAge = 0]
             none  == [asked EXCEPT !.state = "ROLLED_BACK", !.rollbackStatus = "VERIFIED"]
  <2>1. asked \in Rollout
    BY <1>1, StageFacts, RestageType DEF States
  <2>2. none \in Rollout
    BY <2>1 DEF Rollout, States
  <2>3. /\ SameRequest(asked, old) /\ asked.state = "ROLLING_BACK"
        /\ asked.index = old.index /\ asked.rollbackStatus = old.rollbackStatus
    BY <1>1 DEF Rollout, SameRequest
  <2>4. /\ SameRequest(none, old) /\ none.state = "ROLLED_BACK"
        /\ none.index = old.index /\ none.rollbackStatus = "VERIFIED"
    BY <2>1, <2>3 DEF Rollout, SameRequest
  <2>5. /\ UNCHANGED stable
        /\ targets' = [tg EXCEPT ![r][Verification] =
                          VerificationTargets(asked, rows, nextRevision)]
        /\ \/ rollouts' = [rollouts EXCEPT ![r] = asked]
           \/ rows.agents = {} /\ rollouts' = [rollouts EXCEPT ![r] = none]
    BY <1>2 DEF activateRollbackVerification, finishRollback
  <2>6. rows.agents = {} => targets'[r][Verification].agents = {}
    BY <2>5, StageFacts DEF VerificationTargets, PendingRows, NoTargets, TargetStore
  <2> HIDE DEF asked, none, rows
  <2>7. CASE rollouts' = [rollouts EXCEPT ![r] = asked]
    BY <2>1, <2>3, <2>5, <2>7 DEF Outcome, Dropped
  <2>8. CASE rows.agents = {} /\ rollouts' = [rollouts EXCEPT ![r] = none]
    <3>1. Ended(r, none)
      BY <2>4, <2>5, <2>6, <2>8 DEF Ended
    <3> QED
      BY <2>2, <2>4, <2>8, <3>1 DEF Outcome
  <2> QED
    BY <2>5, <2>7, <2>8
<1>3. CASE old.stage = Verification /\ targets' = tg /\ UNCHANGED stable
  <2> DEFINE t       == tg[r][Verification]
             outcome == RollbackOutcome(old, t)
             new     == [old EXCEPT !.state = "ROLLED_BACK", !.rollbackStatus = outcome]
  <2>1. CASE outcome # "NONE" /\ finishRollback(r, old, outcome)
    <3>1. /\ outcome \in {"VERIFIED", "PARTIAL"}
          /\ (outcome = "VERIFIED") = (CoverageReached(t) \/ t.agents = {})
      BY <2>1 DEF RollbackOutcome
    <3>2. /\ new \in Rollout /\ SameRequest(new, old) /\ new.state = "ROLLED_BACK"
          /\ new.index = old.index /\ new.rollbackStatus = outcome
      BY <1>1, <3>1 DEF Rollout, States, SameRequest
    <3>3. rollouts' = [rollouts EXCEPT ![r] = new]
      BY <2>1 DEF finishRollback
    <3> HIDE DEF new, outcome
    <3>4. Ended(r, new)
      BY <1>3, <3>1, <3>2 DEF Ended
    <3> QED
      BY <3>2, <3>3, <3>4 DEF Outcome
  <2>2. CASE UNCHANGED rollouts
    <3>1. rollouts' = [rollouts EXCEPT ![r] = old]
      BY <2>2 DEF TypeOK
    <3>2. Dropped(r, old) /\ SameRequest(old, old)
      BY <1>3 DEF Dropped, SameRequest
    <3> QED
      BY <1>1, <3>1, <3>2 DEF Outcome
  <2>3. reconcileRollback(r, tg)
    OBVIOUS
  <2> QED
    BY <1>3, <2>1, <2>2, <2>3 DEF reconcileRollback
<1> QED
  BY <1>2, <1>3 DEF reconcileRollback

\* A request that is accepted.
Request(r, ro) ==
    /\ Creation(r, ro)
    /\ stable[ro.config] \notin {NoVersion, ro.candidate}
    /\ \A rule \in Rules : ro.failures[rule] = 0
    /\ ro.rollbackStatus = "NONE"
    /\ UNCHANGED stable

\* A step that leaves every rollout as it was, time apart.
Background ==
    /\ \/ Tick
       \/ UNCHANGED rollouts
    /\ \/ UNCHANGED stable
       \/ \E c \in Configs, v \in Versions : stable' = [stable EXCEPT ![c] = v]

LEMMA OutcomeCases ==
    ASSUME TypeOK, [Next]_vars
    PROVE  \/ \E r \in RolloutIds, ro \in Rollout : Request(r, ro)
           \/ \E r \in RolloutIds, new \in Rollout : Outcome(r, new)
           \/ Background
<1>1. ASSUME NEW r \in RolloutIds, NEW c \in Configs, NEW v \in Versions,
             NEW services \in ServiceChoices, NEW rules \in GuardrailChoices,
             CreateRollout(r, c, v, services, rules)
      PROVE  \E ro \in Rollout : Request(r, ro)
  <2> DEFINE ro == NewRollout(c, v, services, rules)
  <2>1. stable[c] \in Versions /\ stable[c] \notin {NoVersion, v}
    BY <1>1 DEF TypeOK, CreateRollout
  <2>2. ro \in Rollout
    BY <2>1, StageFacts, NameAssumption, DurationAssumption DEF NewRollout, Rollout, States
  <2>3. /\ ro.config = c /\ ro.candidate = v /\ ro.state = "DEPLOYING"
        /\ ro.index = 1 /\ ro.stage = 1 /\ ro.rollbackStatus = "NONE"
        /\ \A rule \in Rules : ro.failures[rule] = 0
    BY DEF NewRollout
  <2>4. Creation(r, ro) /\ UNCHANGED stable
    BY <1>1, <2>3 DEF Creation, CreateRollout, activateStage
  <2> QED
    BY <2>1, <2>2, <2>3, <2>4 DEF Request
<1>2. ASSUME NEW r \in RolloutIds, NEW tg \in TargetStore, Active(r), advance(r, tg)
      PROVE  \E new \in Rollout : Outcome(r, new)
  BY <1>2, DecisionOutcome, RollbackOutcomes DEF advance
<1>3. ASSUME NEW r \in RolloutIds, NEW ack \in Acks, Acknowledge(r, ack)
      PROVE  \E new \in Rollout : Outcome(r, new)
  <2>1. Active(r) /\ advance(r, ApplyAck(r, ack)) /\ ApplyAck(r, ack) \in TargetStore
    BY <1>3, ApplyAckType DEF Acknowledge, Active, Acks
  <2> QED
    BY <1>2, <2>1
<1>4. ASSUME NEW r \in RolloutIds, reconcileRollout(r)
      PROVE  \E new \in Rollout : Outcome(r, new)
  BY <1>2, <1>4 DEF reconcileRollout, TypeOK, TargetStore
<1> QED
  BY <1>1, <1>3, <1>4
  DEF Next, vars, Background, SetStableVersion, Register, TelemetryChanges, Tick

\* What Background leaves of a rollout.
LEMMA BackgroundFacts ==
    ASSUME TypeOK, Background, NEW r \in RolloutIds
    PROVE  /\ Exists(r)' = Exists(r)
           /\ Exists(r) => OnlyOlder(rollouts'[r], rollouts[r])
<1>1. CASE Tick
  BY <1>1, TickFacts
<1>2. CASE UNCHANGED rollouts
  BY <1>2 DEF Exists, OnlyOlder, SameSubject
<1> QED
  BY <1>1, <1>2 DEF Background

\* The rollout a step works on, and the others.
LEMMA OneRolloutChanges ==
    ASSUME TypeOK, NEW p \in RolloutIds, NEW new \in Rollout,
           rollouts' = [rollouts EXCEPT ![p] = new]
    PROVE  /\ rollouts'[p] = new
           /\ \A r \in RolloutIds \ {p} : rollouts'[r] = rollouts[r]
           /\ \A r \in RolloutIds \ {p} : Exists(r)' = Exists(r)
BY DEF TypeOK, Exists

-----------------------------------------------------------------------------
(* Guardrails *)

\* A rollout that is still delivered, or has completed, has no rule at its
\* consecutive-failure threshold: the evaluation that reaches it decides for a
\* rollback (Evaluator.evaluateRule and evaluateGuardrails).
THEOREM FailuresStopRollout == Spec => []FailuresBelowThreshold
<1>1. Init => FailuresBelowThreshold
  BY DEF Init, FailuresBelowThreshold, Exists
<1>2. TypeOK /\ StageConsistent /\ FailuresBelowThreshold /\ [Next]_vars
        => FailuresBelowThreshold'
  <2> SUFFICES ASSUME TypeOK, StageConsistent, FailuresBelowThreshold, [Next]_vars,
                      NEW r \in RolloutIds, Exists(r)',
                      rollouts'[r].state \in {"DEPLOYING", "PAUSED", "COMPLETED"}
               PROVE  Tolerated(rollouts'[r])
    BY DEF FailuresBelowThreshold, Tolerated
  <2>1. \A q \in RolloutIds :
           Exists(q) /\ rollouts[q].state \in {"DEPLOYING", "PAUSED", "COMPLETED"}
              => Tolerated(rollouts[q])
    BY DEF FailuresBelowThreshold, Tolerated
  <2>2. ASSUME NEW p \in RolloutIds, NEW ro \in Rollout, Request(p, ro)
        PROVE  Tolerated(rollouts'[r])
    <3>1. CASE r = p
      <4>1. rollouts'[r] = ro
        BY <2>2, <3>1, OneRolloutChanges DEF Request, Creation
      <4>2. \A rule \in Rules : requiredFailures(rule) > 0
        BY GuardrailAssumption DEF requiredFailures
      <4>3. \A rule \in ro.guardrails : rule \in Rules /\ ro.failures[rule] = 0
        BY <2>2 DEF Rollout, Request
      <4> QED
        BY <4>1, <4>2, <4>3 DEF Tolerated
    <3>2. CASE r # p
      BY <2>1, <2>2, <3>2, OneRolloutChanges DEF Request, Creation
    <3> QED
      BY <3>1, <3>2
  <2>3. ASSUME NEW p \in RolloutIds, NEW new \in Rollout, Outcome(p, new)
        PROVE  Tolerated(rollouts'[r])
    <3>1. CASE r = p
      <4>1. rollouts'[r] = new
        BY <2>3, <3>1, OneRolloutChanges DEF Outcome
      <4>2. Promoted(p, new) \/ Held(p, new)
        BY <2>3, <3>1, <4>1 DEF Outcome, Dropped, Ended
      <4>3. Tolerated(rollouts[p])
        BY <2>1, <2>3, <4>2 DEF Outcome, Active, Terminal, Promoted, Held, StageConsistent
      <4> QED
        BY <3>1, <4>1, <4>2, <4>3 DEF Promoted, Held
    <3>2. CASE r # p
      BY <2>1, <2>3, <3>2, OneRolloutChanges DEF Outcome
    <3> QED
      BY <3>1, <3>2
  <2>4. CASE Background
    <3>1. Exists(r) /\ OnlyOlder(rollouts'[r], rollouts[r])
      BY <2>4, BackgroundFacts
    <3> QED
      BY <2>1, <3>1 DEF OnlyOlder, Tolerated
  <2> QED
    BY <2>2, <2>3, <2>4, OutcomeCases
<1> QED
  BY <1>1, <1>2, TypeCorrect, StageConsistentAlways, PTL DEF Spec

\* A step that promotes a rollout has a value for each of its guardrails: an
\* UNKNOWN status pauses (evaluateGuardrails), and nothing else promotes.
THEOREM UnknownNeverPromotes == Spec => NoPromotionOnUnknown
<1> DEFINE Known == \A r \in RolloutIds :
                       Exists(r) /\ Progress(r)' # Progress(r) =>
                          \A rule \in rollouts[r].guardrails : telemetry[rule] # "NO_VALUE"
<1>1. TypeOK /\ StageConsistent /\ [Next]_vars => Known
  <2> SUFFICES ASSUME TypeOK, StageConsistent, [Next]_vars, NEW r \in RolloutIds,
                      Exists(r), Progress(r)' # Progress(r)
               PROVE  \A rule \in rollouts[r].guardrails : telemetry[rule] # "NO_VALUE"
    OBVIOUS
  <2>1. \A q \in RolloutIds : Exists(q) /\ rollouts'[q] = rollouts[q]
                                 => Progress(q)' = Progress(q)
    BY DEF Progress
  <2>2. ASSUME NEW p \in RolloutIds, NEW ro \in Rollout, Request(p, ro)
        PROVE  FALSE
    <3>1. r # p
      BY <2>2 DEF Request, Creation
    <3> QED
      BY <2>1, <2>2, <3>1, OneRolloutChanges DEF Request, Creation
  <2>3. ASSUME NEW p \in RolloutIds, NEW new \in Rollout, Outcome(p, new)
        PROVE  \A rule \in rollouts[r].guardrails : telemetry[rule] # "NO_VALUE"
    <3>1. r = p /\ rollouts'[p] = new
      BY <2>1, <2>3, OneRolloutChanges DEF Outcome
    <3>2. rollouts[p].state # "COMPLETED"
      BY <2>3 DEF Outcome, Active, Terminal
    <3>3. ~Held(p, new) /\ ~Dropped(p, new) /\ ~Ended(p, new)
      BY <3>1, <3>2 DEF Progress, Held, Dropped, Ended
    <3> QED
      BY <2>3, <3>1, <3>3 DEF Outcome, Promoted
  <2>4. CASE Background
    BY <2>4, BackgroundFacts DEF OnlyOlder, Progress
  <2> QED
    BY <2>2, <2>3, <2>4, OutcomeCases
<1> QED
  BY <1>1, TypeCorrect, StageConsistentAlways, PTL DEF Spec, NoPromotionOnUnknown

-----------------------------------------------------------------------------
(* Rollback *)

\* A rollback ends VERIFIED exactly when enough of the agents asked confirmed the
\* stable version, and PARTIAL when they did not; no other rollout carries a
\* rollback status (reconcileRollback and finishRollback).
THEOREM RollbackHonest == Spec => []RollbackStatusHonest
<1> DEFINE Honest(ro, t) ==
             /\ (ro.rollbackStatus # "NONE") = (ro.state = "ROLLED_BACK")
             /\ ro.state = "ROLLED_BACK" =>
                  (ro.rollbackStatus = "VERIFIED") = (CoverageReached(t) \/ t.agents = {})
<1>1. Init => RollbackStatusHonest
  BY DEF Init, RollbackStatusHonest, Exists
<1>2. TypeOK /\ StageConsistent /\ RollbackStatusHonest /\ [Next]_vars => RollbackStatusHonest'
  <2> SUFFICES ASSUME TypeOK, StageConsistent, RollbackStatusHonest, [Next]_vars,
                      NEW r \in RolloutIds, Exists(r)'
               PROVE  Honest(rollouts'[r], targets'[r][Verification])
    BY DEF RollbackStatusHonest, CoverageReached, Coverage
  <2>1. \A q \in RolloutIds : Exists(q) => Honest(rollouts[q], targets[q][Verification])
    BY DEF RollbackStatusHonest
  <2>2. ASSUME Exists(r), rollouts'[r].state = rollouts[r].state,
               rollouts'[r].rollbackStatus = rollouts[r].rollbackStatus
        PROVE  Honest(rollouts'[r], targets'[r][Verification])
    <3>1. CASE rollouts[r].state = "ROLLED_BACK"
      BY <2>1, <2>2, <3>1, FinishedStep DEF Terminal
    <3>2. CASE rollouts[r].state # "ROLLED_BACK"
      BY <2>1, <2>2, <3>2
    <3> QED
      BY <3>1, <3>2
  <2> HIDE DEF Honest
  <2>3. ASSUME NEW p \in RolloutIds, NEW ro \in Rollout, Request(p, ro)
        PROVE  Honest(rollouts'[r], targets'[r][Verification])
    <3>1. CASE r = p
      BY <2>3, <3>1, OneRolloutChanges DEF Request, Creation, Honest
    <3>2. CASE r # p
      BY <2>2, <2>3, <3>2, OneRolloutChanges DEF Request, Creation
    <3> QED
      BY <3>1, <3>2
  <2>4. ASSUME NEW p \in RolloutIds, NEW new \in Rollout, Outcome(p, new)
        PROVE  Honest(rollouts'[r], targets'[r][Verification])
    <3>1. CASE r # p
      BY <2>2, <2>4, <3>1, OneRolloutChanges DEF Outcome
    <3>2. CASE r = p
      <4>1. /\ rollouts'[r] = new /\ Exists(r) /\ ~Terminal(rollouts[r].state)
            /\ rollouts[r].state # "ROLLED_BACK"
        BY <2>4, <3>2, OneRolloutChanges DEF Outcome, Active, Terminal
      <4>2. rollouts[r].rollbackStatus = "NONE"
        BY <2>1, <4>1 DEF Honest
      <4>3. CASE Ended(p, new)
        BY <3>2, <4>1, <4>3 DEF Ended, Honest
      <4>4. CASE Promoted(p, new) \/ Held(p, new) \/ Dropped(p, new)
        BY <3>2, <4>1, <4>2, <4>4 DEF Promoted, Held, Dropped, Honest
      <4> QED
        BY <2>4, <4>3, <4>4 DEF Outcome
    <3> QED
      BY <3>1, <3>2
  <2>5. CASE Background
    BY <2>2, <2>5, BackgroundFacts DEF OnlyOlder
  <2> QED
    BY <2>3, <2>4, <2>5, OutcomeCases
<1> QED
  BY <1>1, <1>2, TypeCorrect, StageConsistentAlways, PTL DEF Spec

-----------------------------------------------------------------------------
(* The abstract specification *)

\* The rollout as RolloutLifecycle sees it.
StepOf(r) == IF Exists(r) THEN rollouts[r].index ELSE 0

SubjectOf(r) ==
    IF Exists(r)
    THEN [config |-> rollouts[r].config, candidate |-> rollouts[r].candidate]
    ELSE NoVersion

SameView(r) ==
    /\ StatusOf(r)' = StatusOf(r)
    /\ StepOf(r)' = StepOf(r)
    /\ SubjectOf(r)' = SubjectOf(r)

LEMMA UntouchedView ==
    ASSUME NEW r, rollouts'[r] = rollouts[r]
    PROVE  SameView(r)
BY DEF SameView, StatusOf, StepOf, SubjectOf, Exists

LEMMA StatusFacts ==
    ASSUME TypeOK, StageConsistent, NEW r \in RolloutIds
    PROVE  /\ StatusOf(r) = "none" <=> ~Exists(r)
           /\ Active(r) <=> StatusOf(r) \in {"staged", "withdrawing"}
           /\ Exists(r) => /\ StatusOf(r) = "withdrawing" <=> rollouts[r].state = "ROLLING_BACK"
                           /\ StatusOf(r) = "staged" <=>
                                 rollouts[r].state \in {"DEPLOYING", "PAUSED"}
<1>1. CASE ~Exists(r)
  BY <1>1 DEF StatusOf, Active
<1>2. CASE Exists(r)
  <2>1. rollouts[r].state \in
           {"DEPLOYING", "PAUSED", "COMPLETED", "ROLLING_BACK", "ROLLED_BACK"}
    BY <1>2 DEF StageConsistent
  <2> QED
    BY <1>2, <2>1 DEF StatusOf, Active, Terminal
<1> QED
  BY <1>1, <1>2

LEMMA RequestBegins ==
    ASSUME TypeOK, StageConsistent, NEW p \in RolloutIds, NEW ro \in Rollout, Request(p, ro)
    PROVE  Lifecycle!Begin(p, ro.config, ro.candidate)
<1>1. /\ ~Exists(p) /\ rollouts'[p] = ro /\ Exists(p)'
      /\ ro.state = "DEPLOYING" /\ ro.index = 1
  BY OneRolloutChanges, NoRolloutAssumption DEF Request, Creation, Exists
<1>2. \A r \in RolloutIds \ {p} : SameView(r)
  BY OneRolloutChanges, UntouchedView DEF Request, Creation
<1>3. /\ StatusOf(p) = "none" /\ StatusOf(p)' = "staged" /\ StepOf(p)' = 1
      /\ SubjectOf(p)' = [config |-> ro.config, candidate |-> ro.candidate]
  BY <1>1 DEF StatusOf, StepOf, SubjectOf
<1>4. \A q \in RolloutIds :
         StatusOf(q) \in {"staged", "withdrawing"} => SubjectOf(q).config # ro.config
  BY StatusFacts DEF Request, Creation, activeRolloutExists, Active, SubjectOf
<1>5. stable[ro.config] \notin {NoVersion, ro.candidate} /\ UNCHANGED stable
  BY DEF Request
<1> QED
  BY <1>2, <1>3, <1>4, <1>5
  DEF Lifecycle!Begin, Lifecycle!UnderWay, SameView, StepOf, SubjectOf

LEMMA OutcomeMoves ==
    ASSUME TypeOK, StageConsistent, NEW p \in RolloutIds, NEW new \in Rollout, Outcome(p, new)
    PROVE  Lifecycle!Move(p) \/ UNCHANGED Lifecycle!lifecycleVars
<1> DEFINE old == rollouts[p]
<1>1. /\ Active(p) /\ Exists(p) /\ rollouts'[p] = new /\ Exists(p)'
      /\ old \in Rollout /\ SameRequest(new, old)
  BY OneRolloutChanges, NoRolloutAssumption DEF Outcome, Active, Exists, TypeOK
<1>2. \A r \in RolloutIds \ {p} : SameView(r)
  BY OneRolloutChanges, UntouchedView DEF Outcome
<1>3. /\ StepOf(p) = old.index /\ StepOf(p)' = new.index
      /\ SubjectOf(p) = [config |-> old.config, candidate |-> old.candidate]
      /\ SubjectOf(p)' = SubjectOf(p)
  BY <1>1 DEF StepOf, SubjectOf, SameRequest
<1>4. \/ StatusOf(p) = "staged" /\ old.state \in {"DEPLOYING", "PAUSED"}
      \/ StatusOf(p) = "withdrawing" /\ old.state = "ROLLING_BACK"
  BY <1>1, StatusFacts
<1>5. CASE Promoted(p, new)
  <2>1. StatusOf(p) = "staged"
    BY <1>4, <1>5 DEF Promoted
  <2>2. CASE /\ old.index = Len(StagePlan)
             /\ new.state = "COMPLETED" /\ new.index = old.index
             /\ stable' = [stable EXCEPT ![old.config] = old.candidate]
    <3>1. StatusOf(p)' = "done"
      BY <1>1, <2>2 DEF StatusOf
    <3>2. stable' = [stable EXCEPT ![SubjectOf(p).config] = SubjectOf(p).candidate]
      BY <1>3, <2>2
    <3>3. StepOf(p) = Len(StagePlan) /\ StepOf(p)' = StepOf(p) /\ SubjectOf(p)' = SubjectOf(p)
      BY <1>3, <2>2
    <3>4. Lifecycle!Complete(p)
      BY <1>2, <2>1, <3>1, <3>2, <3>3 DEF Lifecycle!Complete, SameView, StepOf, SubjectOf
    <3> QED
      BY <3>4 DEF Lifecycle!Move
  <2>3. CASE /\ old.index < Len(StagePlan)
             /\ new.state = "DEPLOYING" /\ new.index = old.index + 1
             /\ UNCHANGED stable
    <3>1. StatusOf(p)' = "staged"
      BY <1>1, <2>3 DEF StatusOf
    <3>2. Lifecycle!NextStage(p)
      BY <1>2, <1>3, <2>1, <2>3, <3>1 DEF Lifecycle!NextStage, SameView, StepOf, SubjectOf
    <3> QED
      BY <3>2 DEF Lifecycle!Move
  <2> QED
    BY <1>5, <2>2, <2>3 DEF Promoted
<1>6. CASE Held(p, new)
  <2>1. SameView(p)
    BY <1>1, <1>3, <1>4, <1>6 DEF Held, SameView, StatusOf
  <2> QED
    BY <1>2, <1>6, <2>1 DEF Lifecycle!lifecycleVars, Held, SameView, StepOf, SubjectOf
<1>7. CASE Dropped(p, new)
  <2>1. StatusOf(p)' = "withdrawing"
    BY <1>1, <1>7 DEF StatusOf, Dropped
  <2>2. CASE StatusOf(p) = "staged"
    <3>1. Lifecycle!Withdraw(p)
      BY <1>2, <1>3, <1>7, <2>1, <2>2
      DEF Lifecycle!Withdraw, SameView, StepOf, SubjectOf, Dropped
    <3> QED
      BY <3>1 DEF Lifecycle!Move
  <2>3. CASE StatusOf(p) = "withdrawing"
    BY <1>2, <1>3, <1>7, <2>1, <2>3
    DEF Lifecycle!lifecycleVars, SameView, StepOf, SubjectOf, Dropped
  <2> QED
    BY <1>4, <2>2, <2>3
<1>8. CASE Ended(p, new)
  <2>1. StatusOf(p)' = "withdrawn" /\ StatusOf(p) = "withdrawing"
    BY <1>1, <1>4, <1>8 DEF StatusOf, Ended
  <2>2. Lifecycle!Withdrawn(p)
    BY <1>2, <1>3, <1>8, <2>1 DEF Lifecycle!Withdrawn, SameView, StepOf, SubjectOf, Ended
  <2> QED
    BY <2>2 DEF Lifecycle!Move
<1> QED
  BY <1>5, <1>6, <1>7, <1>8 DEF Outcome

LEMMA BackgroundPublishes ==
    ASSUME TypeOK, Background
    PROVE  \/ \E c \in Configs, v \in Versions : Lifecycle!Publish(c, v)
           \/ UNCHANGED Lifecycle!lifecycleVars
<1>1. \A r \in RolloutIds : SameView(r)
  BY BackgroundFacts DEF SameView, StatusOf, StepOf, SubjectOf, OnlyOlder, SameSubject
<1>2. CASE UNCHANGED stable
  BY <1>1, <1>2 DEF Lifecycle!lifecycleVars, SameView, StepOf, SubjectOf
<1>3. ASSUME NEW c \in Configs, NEW v \in Versions, stable' = [stable EXCEPT ![c] = v]
      PROVE  Lifecycle!Publish(c, v)
  BY <1>1, <1>3 DEF Lifecycle!Publish, SameView, StepOf, SubjectOf
<1> QED
  BY <1>2, <1>3 DEF Background

\* The engine implements the safety part of RolloutLifecycle for every stage plan,
\* fleet and choice of durations: stages are passed one at a time, only the end
\* of the last one publishes the candidate, and a rollback leaves the stable
\* version alone.
THEOREM RefinesLifecycle == Spec => Lifecycle!LifecycleSafety
<1>1. Init => Lifecycle!LifecycleInit
  BY DEF Init, Lifecycle!LifecycleInit, StatusOf, Exists
<1>2. TypeOK /\ StageConsistent /\ [Next]_vars
        => [Lifecycle!LifecycleNext]_(Lifecycle!lifecycleVars)
  <2> SUFFICES ASSUME TypeOK, StageConsistent, [Next]_vars
               PROVE  Lifecycle!LifecycleNext \/ UNCHANGED Lifecycle!lifecycleVars
    OBVIOUS
  <2>1. ASSUME NEW p \in RolloutIds, NEW ro \in Rollout, Request(p, ro)
        PROVE  Lifecycle!LifecycleNext
    <3>1. ro.config \in Configs /\ ro.candidate \in Versions
      BY DEF Rollout
    <3> QED
      BY <2>1, <3>1, RequestBegins DEF Lifecycle!LifecycleNext
  <2>2. ASSUME NEW p \in RolloutIds, NEW new \in Rollout, Outcome(p, new)
        PROVE  Lifecycle!LifecycleNext \/ UNCHANGED Lifecycle!lifecycleVars
    BY <2>2, OutcomeMoves DEF Lifecycle!LifecycleNext
  <2>3. CASE Background
    BY <2>3, BackgroundPublishes DEF Lifecycle!LifecycleNext
  <2> QED
    BY <2>1, <2>2, <2>3, OutcomeCases
<1> QED
  BY <1>1, <1>2, TypeCorrect, StageConsistentAlways, PTL DEF Spec, Lifecycle!LifecycleSafety
=============================================================================
