---------------------------- MODULE RolloutService ----------------------------
(***************************************************************************)
(* The rollout engine (internal/rollout): a rollout moves a candidate      *)
(* version of one config through a plan of percentage stages.  Each stage  *)
(* freezes a cohort of agents, waits for enough of them to acknowledge the *)
(* candidate, consults the guardrails and promotes, pauses or rolls back.  *)
(*                                                                         *)
(* CreateRollout, Acknowledge and ReconcileActive hold Service.mu for      *)
(* their whole body, so each is one action here.  ReconcileActive visits   *)
(* the active rollouts one after another and touches nothing but the one   *)
(* it visits, so one visit is one action.                                  *)
(*                                                                         *)
(* A member of Configs is a (definition, environment) pair.  Timestamps    *)
(* are kept as ages that stop growing at Horizon: the code only compares   *)
(* an elapsed time with a duration, and Horizon is no less than any.       *)
(***************************************************************************)
EXTENDS Integers, FiniteSets, Sequences, Guardrail

CONSTANTS
    Configs, Versions, NoVersion,
    Agents, RoamingAgents,   \* RoamingAgents may register again under another service
    Services, Elsewhere,     \* Elsewhere: not registered, or in another environment
    RolloutIds, NoRollout,
    ServiceChoices, GuardrailChoices,   \* values of the rollout request's fields
    StagePlan,               \* sequence of [percentage, minimumDuration]
    BucketOf,                \* the hash bucket of <<config, candidate, agent>>
    RequiredAck,             \* RequiredAckPercent, in percent
    DeploymentTimeout, RolloutMaxDuration, RollbackTimeout,
    Horizon

BucketCount == 10000

StageIndexes == 1..Len(StagePlan)
Verification == Len(StagePlan) + 1   \* the id rollbackVerificationStageID builds
StageIds     == 1..Verification

ValidateStagePlan ==
    /\ Len(StagePlan) > 0
    /\ \A i \in StageIndexes : StagePlan[i].percentage \in 1..100
    /\ \A i, j \in StageIndexes :
          i < j => StagePlan[i].percentage < StagePlan[j].percentage
    /\ StagePlan[Len(StagePlan)].percentage = 100

ASSUME PlanAssumption ==
    /\ StagePlan \in Seq([percentage : Nat, minimumDuration : Nat])
    /\ ValidateStagePlan

ASSUME NameAssumption ==
    /\ NoVersion \notin Versions
    /\ Elsewhere \notin Services
    /\ ServiceChoices \subseteq SUBSET Services
    /\ GuardrailChoices \subseteq SUBSET Rules
    /\ RoamingAgents \subseteq Agents
    /\ BucketOf \in [Configs \X Versions \X Agents -> 0..(BucketCount - 1)]

ASSUME DurationAssumption ==
    /\ RequiredAck \in Int
    /\ DeploymentTimeout \in Int
    /\ RolloutMaxDuration \in Int
    /\ RollbackTimeout \in Int
    /\ Horizon \in Nat
    /\ \A i \in StageIndexes : StagePlan[i].minimumDuration <= Horizon
    /\ DeploymentTimeout <= Horizon
    /\ RolloutMaxDuration <= Horizon
    /\ RollbackTimeout <= Horizon

VARIABLES
    rollouts,       \* the rollouts table, by rollout id
    targets,        \* the stage target rows, by rollout id and stage id
    nextRevision,   \* the snapshot revision sequence
    stable,         \* StableVersionID of each config's environment state
    agentService,   \* the service under which an agent is registered
    telemetry       \* what a guardrail query returns now

vars == <<rollouts, targets, nextRevision, stable, agentService, telemetry>>

-----------------------------------------------------------------------------
(* Data *)

States == {"PENDING", "VALIDATING", "READY", "DEPLOYING", "EVALUATING",
           "PROMOTING", "PAUSED", "COMPLETED", "ROLLING_BACK", "ROLLED_BACK", "FAILED"}

\* allowedTransitions, by source state
AllowedFrom(from) ==
    CASE from = "PENDING"      -> {"VALIDATING"}
      [] from = "VALIDATING"   -> {"READY"}
      [] from = "READY"        -> {"DEPLOYING"}
      [] from = "DEPLOYING"    -> {"EVALUATING", "PAUSED", "ROLLING_BACK"}
      [] from = "EVALUATING"   -> {"PROMOTING", "PAUSED", "ROLLING_BACK", "COMPLETED"}
      [] from = "PROMOTING"    -> {"DEPLOYING", "ROLLING_BACK"}
      [] from = "PAUSED"       -> {"EVALUATING", "ROLLING_BACK"}
      [] from = "ROLLING_BACK" -> {"ROLLED_BACK"}
      [] OTHER                 -> {}

CanTransition(from, to) == to \in AllowedFrom(from)

Terminal(state) == state \in {"COMPLETED", "ROLLED_BACK", "FAILED"}

Rollout ==
    [config : Configs, stable : Versions, candidate : Versions,
     services : SUBSET Services, guardrails : SUBSET Rules,
     state : States, index : StageIndexes, stage : StageIds,
     failures : [Rules -> Nat], rollbackStatus : {"NONE", "VERIFIED", "PARTIAL"},
     age : 0..Horizon, stageAge : 0..Horizon]

ASSUME NoRolloutAssumption == NoRollout \notin Rollout

\* All targets of one stage share their expected version and revision.
StageTargets ==
    [agents : SUBSET Agents, acked : SUBSET Agents,
     version : Versions \cup {NoVersion}, revision : Nat]

NoTargets == [agents |-> {}, acked |-> {}, version |-> NoVersion, revision |-> 0]

\* One PENDING row per agent; a cohort of none leaves no row.
PendingRows(agents, version, revision) ==
    IF agents = {} THEN NoTargets
    ELSE [agents |-> agents, acked |-> {}, version |-> version, revision |-> revision]

Exists(r) == rollouts[r] # NoRollout
Active(r) == Exists(r) /\ ~Terminal(rollouts[r].state)

Coverage(t, required) == 100 * Cardinality(t.acked) >= required * Cardinality(t.agents)
CoverageReached(t) == t.agents # {} /\ Coverage(t, RequiredAck)

Elapsed(age, limit) == limit > 0 /\ age >= limit

-----------------------------------------------------------------------------
(* Stage activation *)

filterAgents(services) ==
    {a \in Agents : /\ agentService[a] # Elsewhere
                    /\ services = {} \/ agentService[a] \in services}

Eligible(bucket, percentage) ==
    IF percentage >= 100 THEN bucket < BucketCount ELSE bucket < percentage * 100

BuildStageTargets(ro, i, revision) ==
    PendingRows({a \in filterAgents(ro.services) :
                    Eligible(BucketOf[<<ro.config, ro.candidate, a>>],
                             StagePlan[i].percentage)},
                ro.candidate, revision)

\* activateStage: write the cohort of stage i under a fresh revision.
activateStage(r, ro, i, tg) ==
    /\ targets' = [tg EXCEPT ![r][i] = BuildStageTargets(ro, i, nextRevision)]
    /\ nextRevision' = nextRevision + 1

NewRollout(c, v, services, rules) ==
    [config |-> c, stable |-> stable[c], candidate |-> v,
     services |-> services, guardrails |-> rules,
     state |-> "DEPLOYING", index |-> 1, stage |-> 1,
     failures |-> [rule \in Rules |-> 0], rollbackStatus |-> "NONE",
     age |-> 0, stageAge |-> 0]

activeRolloutExists(c) == \E q \in RolloutIds : Active(q) /\ rollouts[q].config = c

CreateRollout(r, c, v, services, rules) ==
    /\ ~Exists(r)
    /\ stable[c] # NoVersion
    /\ stable[c] # v
    /\ ~activeRolloutExists(c)
    /\ LET ro == NewRollout(c, v, services, rules)
       IN  /\ rollouts' = [rollouts EXCEPT ![r] = ro]
           /\ activateStage(r, ro, 1, targets)
    /\ UNCHANGED <<stable, agentService, telemetry>>

-----------------------------------------------------------------------------
(* Stage decisions *)

\* Mutant: a stage promotes when its minimum duration is over, acknowledged or not.
EvaluateStageProgressOnTime(ro, t) ==
    IF ro.stageAge >= StagePlan[ro.index].minimumDuration THEN "PROMOTE" ELSE "WAIT"

EvaluateStageProgress(ro, t) ==
    IF CoverageReached(t) /\ ro.stageAge >= StagePlan[ro.index].minimumDuration
    THEN "PROMOTE"
    ELSE IF ~CoverageReached(t) /\ Elapsed(ro.stageAge, DeploymentTimeout)
         THEN "ROLLBACK" ELSE "WAIT"

GuardrailStatus(ro) ==
    AggregateStatus({StatusAfter(rule, telemetry[rule], ro.failures[rule]) :
                        rule \in ro.guardrails})

\* The guardrails are consulted only when the stage would otherwise promote.
Consults(ro, t) ==
    /\ ~Elapsed(ro.age, RolloutMaxDuration)
    /\ EvaluateStageProgress(ro, t) = "PROMOTE"
    /\ ro.guardrails # {}

\* Mutant: the maximum duration is not looked at.
evaluateStageDecisionUnlimited(ro, t) ==
    IF EvaluateStageProgress(ro, t) # "PROMOTE" \/ ro.guardrails = {}
    THEN EvaluateStageProgress(ro, t)
    ELSE CASE GuardrailStatus(ro) = "HEALTHY"   -> "PROMOTE"
           [] GuardrailStatus(ro) = "UNHEALTHY" -> "ROLLBACK"
           [] GuardrailStatus(ro) = "UNKNOWN"   -> "PAUSE"

evaluateStageDecision(ro, t) ==
    IF Elapsed(ro.age, RolloutMaxDuration) THEN "ROLLBACK"
    ELSE IF ~Consults(ro, t) THEN EvaluateStageProgress(ro, t)
    ELSE CASE GuardrailStatus(ro) = "HEALTHY"   -> "PROMOTE"
           [] GuardrailStatus(ro) = "UNHEALTHY" -> "ROLLBACK"
           [] GuardrailStatus(ro) = "UNKNOWN"   -> "PAUSE"

\* The failure counters evaluateGuardrails leaves in the rollout.
evaluateGuardrails(ro, t) ==
    IF Consults(ro, t)
    THEN [ro EXCEPT !.failures =
            [rule \in Rules |-> IF rule \in ro.guardrails
                                THEN FailuresAfter(telemetry[rule], ro.failures[rule])
                                ELSE ro.failures[rule]]]
    ELSE ro

\* promote in the last stage: publish the candidate and finish.
completeRollout(r, ro, tg) ==
    /\ CanTransition(ro.state, "EVALUATING") \/ ro.state = "EVALUATING"
    /\ stable' = [stable EXCEPT ![ro.config] = ro.candidate]
    /\ rollouts' = [rollouts EXCEPT ![r] = [ro EXCEPT !.state = "COMPLETED"]]
    /\ targets' = tg
    /\ UNCHANGED nextRevision

NextStage(ro) ==
    [ro EXCEPT !.state = "DEPLOYING", !.index = ro.index + 1,
               !.stage = ro.index + 1, !.stageAge = 0]

\* promote in an earlier stage: move on without consulting the transition table.
activateNextStage(r, ro, tg) ==
    /\ rollouts' = [rollouts EXCEPT ![r] = NextStage(ro)]
    /\ activateStage(r, NextStage(ro), ro.index + 1, tg)
    /\ UNCHANGED stable

\* Mutant: the rollout completes one stage early.
promoteOneEarly(r, ro, tg) ==
    \/ ro.index >= Len(StagePlan) - 1 /\ completeRollout(r, ro, tg)
    \/ ro.index < Len(StagePlan) - 1 /\ activateNextStage(r, ro, tg)

promote(r, ro, tg) ==
    \/ ro.index = Len(StagePlan) /\ completeRollout(r, ro, tg)
    \/ ro.index < Len(StagePlan) /\ activateNextStage(r, ro, tg)

\* transition: an error, hence no write, when the table forbids the move
transition(r, ro, next, tg) ==
    /\ CanTransition(ro.state, next)
    /\ rollouts' = [rollouts EXCEPT ![r] = [ro EXCEPT !.state = next]]
    /\ targets' = tg
    /\ UNCHANGED <<nextRevision, stable>>

pause(r, ro, tg) ==
    \/ ro.state # "PAUSED" /\ transition(r, ro, "PAUSED", tg)
    \/ /\ ro.state = "PAUSED"
       /\ rollouts' = [rollouts EXCEPT ![r] = ro]
       /\ targets' = tg
       /\ UNCHANGED <<nextRevision, stable>>

decideStage(r, tg) ==
    LET old      == rollouts[r]
        t        == tg[r][old.stage]
        decision == evaluateStageDecision(old, t)
        ro       == evaluateGuardrails(old, t)
    IN  \/ decision = "PROMOTE"  /\ promote(r, ro, tg)
        \/ decision = "ROLLBACK" /\ transition(r, ro, "ROLLING_BACK", tg)
        \/ decision = "PAUSE"    /\ pause(r, ro, tg)
        \/ /\ decision = "WAIT"
           /\ targets' = tg
           /\ UNCHANGED <<rollouts, nextRevision, stable>>

-----------------------------------------------------------------------------
(* Rollback *)

finishRollback(r, ro, status) ==
    rollouts' = [rollouts EXCEPT ![r] =
                    [ro EXCEPT !.state = "ROLLED_BACK", !.rollbackStatus = status]]

\* Mutant: only the agents that had not acknowledged the candidate are asked.
VerificationTargetsUnacked(ro, t, revision) ==
    PendingRows(t.agents \ t.acked, ro.stable, revision)

\* The cohort of the current candidate stage is asked for the stable version.
VerificationTargets(ro, t, revision) ==
    PendingRows(t.agents, ro.stable, revision)

activateRollbackVerification(r, tg) ==
    LET t  == tg[r][rollouts[r].stage]
        ro == [rollouts[r] EXCEPT !.stage = Verification, !.stageAge = 0]
    IN  /\ targets' = [tg EXCEPT ![r][Verification] =
                          VerificationTargets(ro, t, nextRevision)]
        /\ nextRevision' = nextRevision + 1
        /\ \/ t.agents = {} /\ finishRollback(r, ro, "VERIFIED")
           \/ t.agents # {} /\ rollouts' = [rollouts EXCEPT ![r] = ro]
        /\ UNCHANGED stable

\* Mutant: the timeout is looked at before the coverage.
RollbackOutcomeTimeoutFirst(ro, t) ==
    IF Elapsed(ro.stageAge, RollbackTimeout) THEN "PARTIAL"
    ELSE IF CoverageReached(t) \/ t.agents = {} THEN "VERIFIED" ELSE "NONE"

RollbackOutcome(ro, t) ==
    IF CoverageReached(t) \/ t.agents = {} THEN "VERIFIED"
    ELSE IF Elapsed(ro.stageAge, RollbackTimeout) THEN "PARTIAL" ELSE "NONE"

reconcileRollback(r, tg) ==
    LET ro      == rollouts[r]
        outcome == RollbackOutcome(ro, tg[r][ro.stage])
    IN  \/ ro.stage # Verification /\ activateRollbackVerification(r, tg)
        \/ /\ ro.stage = Verification
           /\ targets' = tg
           /\ \/ outcome # "NONE" /\ finishRollback(r, ro, outcome)
              \/ outcome = "NONE" /\ UNCHANGED rollouts
           /\ UNCHANGED <<nextRevision, stable>>

-----------------------------------------------------------------------------
(* The handlers *)

\* Acknowledgements an agent may send, late and repeated ones included: any
\* stage and version, and any revision handed out so far.
Acks == [stage : StageIds, agent : Agents, version : Versions,
         revision : 1..(nextRevision - 1)]

\* ApplyAck against the rows of the rollout's current stage
Counts(r, ack) ==
    LET ro == rollouts[r]
        t  == targets[r][ro.stage]
    IN  /\ ack.agent \in t.agents \ t.acked
        /\ ack.stage = ro.stage
        /\ ack.version = t.version
        /\ ack.revision = t.revision

\* Mutant: an acknowledgement replaces the ones counted before it.
ApplyAckOverwrites(r, ack) ==
    IF Counts(r, ack)
    THEN [targets EXCEPT ![r][rollouts[r].stage].acked = {ack.agent}]
    ELSE targets

ApplyAck(r, ack) ==
    IF Counts(r, ack)
    THEN [targets EXCEPT ![r][rollouts[r].stage].acked = @ \cup {ack.agent}]
    ELSE targets

\* What Acknowledge and reconcileRollout do with the stage's rows.
advance(r, tg) ==
    /\ \/ rollouts[r].state = "ROLLING_BACK" /\ reconcileRollback(r, tg)
       \/ rollouts[r].state # "ROLLING_BACK" /\ decideStage(r, tg)
    /\ UNCHANGED <<agentService, telemetry>>

\* Mutant: acknowledgements of a finished rollout are not refused.
AcknowledgeFinished(r, ack) == Exists(r) /\ advance(r, ApplyAck(r, ack))

Acknowledge(r, ack) == Active(r) /\ advance(r, ApplyAck(r, ack))

reconcileRollout(r) == Active(r) /\ advance(r, targets)

\* SetStableVersion of the config registry: ActiveRolloutID is never set, so
\* its check for a running rollout never refuses.
SetStableVersion(c, v) ==
    /\ stable' = [stable EXCEPT ![c] = v]
    /\ UNCHANGED <<rollouts, targets, nextRevision, agentService, telemetry>>

\* Register of the agent registry: SaveAgent overwrites the agent's row.
Register(a, service) ==
    /\ a \notin RoamingAgents => agentService[a] \in {Elsewhere, service}
    /\ agentService' = [agentService EXCEPT ![a] = service]
    /\ UNCHANGED <<rollouts, targets, nextRevision, stable, telemetry>>

TelemetryChanges(rule, sample) ==
    /\ telemetry' = [telemetry EXCEPT ![rule] = sample]
    /\ UNCHANGED <<rollouts, targets, nextRevision, stable, agentService>>

Older(age) == IF age < Horizon THEN age + 1 ELSE age

\* The clock s.now() advances; finished rollouts no longer look at it.
Tick ==
    /\ rollouts' = [r \in RolloutIds |->
                      IF Active(r)
                      THEN [rollouts[r] EXCEPT !.age = Older(@), !.stageAge = Older(@)]
                      ELSE rollouts[r]]
    /\ UNCHANGED <<targets, nextRevision, stable, agentService, telemetry>>

-----------------------------------------------------------------------------
(* Specification *)

Init ==
    /\ rollouts = [r \in RolloutIds |-> NoRollout]
    /\ targets = [r \in RolloutIds |-> [s \in StageIds |-> NoTargets]]
    /\ nextRevision = 1
    /\ stable = [c \in Configs |-> NoVersion]
    /\ agentService = [a \in Agents |-> Elsewhere]
    /\ telemetry \in [Rules -> Samples]

Next ==
    \/ \E r \in RolloutIds, c \in Configs, v \in Versions,
          services \in ServiceChoices, rules \in GuardrailChoices :
             CreateRollout(r, c, v, services, rules)
    \/ \E r \in RolloutIds, ack \in Acks : Acknowledge(r, ack)
    \/ \E r \in RolloutIds : reconcileRollout(r)
    \/ \E c \in Configs, v \in Versions : SetStableVersion(c, v)
    \/ \E a \in Agents, service \in Services \cup {Elsewhere} : Register(a, service)
    \/ \E rule \in Rules, sample \in Samples : TelemetryChanges(rule, sample)
    \/ Tick

Spec == Init /\ [][Next]_vars

\* The reconciler's ticker keeps calling ReconcileActive, and time passes.
Fairness ==
    /\ WF_vars(Tick)
    /\ \A r \in RolloutIds : WF_vars(reconcileRollout(r))

FairSpec == Spec /\ Fairness

-----------------------------------------------------------------------------
(* Properties *)

\* A stage whose cohort has been written.
Activated(r, s) ==
    Exists(r) /\ (s <= rollouts[r].index \/ s = rollouts[r].stage)

\* Every variable holds a value of its type.
TypeOK ==
    /\ rollouts \in [RolloutIds -> Rollout \cup {NoRollout}]
    /\ targets \in [RolloutIds -> [StageIds -> StageTargets]]
    /\ nextRevision \in Nat \ {0}
    /\ stable \in [Configs -> Versions \cup {NoVersion}]
    /\ agentService \in [Agents -> Services \cup {Elsewhere}]
    /\ telemetry \in [Rules -> Samples]

\* At most one unfinished rollout per config and environment, whatever the order
\* of requests, acknowledgements and reconciliations: the data plane serves
\* from the one GetActiveRollout finds.
OneActiveRollout ==
    \A r, q \in RolloutIds :
        Active(r) /\ Active(q) /\ rollouts[r].config = rollouts[q].config => r = q

\* A rollout stands in a stage only if every stage before it ended with
\* acknowledgement coverage, and has completed only if all of them did.
EarlierStagesCovered ==
    \A r \in RolloutIds : Exists(r) =>
        \A i \in StageIndexes :
            i < rollouts[r].index \/ rollouts[r].state = "COMPLETED"
                => CoverageReached(targets[r][i])

\* No two stages, of one or of different rollouts, are activated under the same
\* snapshot revision, so that an acknowledgement names one activation.
RevisionsDistinct ==
    \A r, q \in RolloutIds : \A s, u \in StageIds :
        targets[r][s].agents # {} /\ targets[q][u].agents # {}
            /\ targets[r][s].revision = targets[q][u].revision
                => r = q /\ s = u

\* An agent that keeps its registration and was ever given the candidate stays
\* in the cohort of each later stage, and is among the agents that a rollback
\* has to hear from.
StationaryCohortsNested ==
    \A r \in RolloutIds, i, s \in StageIds :
        Activated(r, s) /\ i <= rollouts[r].index /\ i < s
            => targets[r][i].agents \ RoamingAgents \subseteq targets[r][s].agents

\* A rollback ends VERIFIED exactly when enough of the agents asked (or all of
\* none) confirmed the stable version, and PARTIAL when they did not.
RollbackStatusHonest ==
    \A r \in RolloutIds : Exists(r) =>
        LET ro == rollouts[r]
            t  == targets[r][Verification]
        IN  /\ (ro.rollbackStatus # "NONE") = (ro.state = "ROLLED_BACK")
            /\ ro.state = "ROLLED_BACK" =>
                 (ro.rollbackStatus = "VERIFIED") = (CoverageReached(t) \/ t.agents = {})

\* A rule whose violations reached its consecutive-failure threshold has
\* stopped the rollout: it is neither still being delivered nor completed.
FailuresBelowThreshold ==
    \A r \in RolloutIds :
        Exists(r) /\ rollouts[r].state \in {"DEPLOYING", "PAUSED", "COMPLETED"} =>
            \A rule \in rollouts[r].guardrails :
                rollouts[r].failures[rule] < requiredFailures(rule)

\* The stage counter as a rollout sees it, completion being one stage more.
Progress(r) ==
    IF rollouts[r].state = "COMPLETED" THEN Verification ELSE rollouts[r].index

\* A rollout never moves to its next stage, nor completes, while one of its
\* guardrails has no usable telemetry.
NoPromotionOnUnknown ==
    [][\A r \in RolloutIds :
          Exists(r) /\ Progress(r)' # Progress(r) =>
              \A rule \in rollouts[r].guardrails : telemetry[rule] # "NO_VALUE"]_vars

\* Once a stage is activated its cohort, expected version and revision are
\* frozen, and an acknowledgement that was counted is never lost.
FrozenCohorts ==
    [][\A r \in RolloutIds, s \in StageIds :
          Activated(r, s) =>
              /\ targets'[r][s].agents   = targets[r][s].agents
              /\ targets'[r][s].version  = targets[r][s].version
              /\ targets'[r][s].revision = targets[r][s].revision
              /\ targets[r][s].acked \subseteq targets'[r][s].acked]_vars

\* A finished rollout and its targets never change again, whatever late
\* acknowledgements and reconciliations follow.
TerminalIsFinal ==
    [][\A r \in RolloutIds :
          Exists(r) /\ Terminal(rollouts[r].state) =>
              rollouts'[r] = rollouts[r] /\ targets'[r] = targets[r]]_vars

\* Every rollout ends: the maximum duration and the rollback timeout bound it,
\* whatever the agents and the telemetry do.
RolloutsFinish ==
    \A r \in RolloutIds : Active(r) ~> ~Active(r)

-----------------------------------------------------------------------------
(* The abstract specification *)

StatusOf(r) ==
    IF ~Exists(r) THEN "none"
    ELSE CASE rollouts[r].state = "COMPLETED"    -> "done"
           [] rollouts[r].state = "ROLLED_BACK"  -> "withdrawn"
           [] rollouts[r].state = "ROLLING_BACK" -> "withdrawing"
           [] OTHER                              -> "staged"

Lifecycle == INSTANCE RolloutLifecycle WITH
    StageCount <- Len(StagePlan),
    status     <- [r \in RolloutIds |-> StatusOf(r)],
    step       <- [r \in RolloutIds |-> IF Exists(r) THEN rollouts[r].index ELSE 0],
    subject    <- [r \in RolloutIds |->
                     IF Exists(r)
                     THEN [config |-> rollouts[r].config, candidate |-> rollouts[r].candidate]
                     ELSE NoVersion]

\* The engine implements RolloutLifecycle: stages are passed one at a time,
\* only the completion of the last one publishes the candidate, a rollback
\* leaves the stable version alone, and each rollout ends.
ImplementsLifecycle == Lifecycle!LifecycleSpec
=============================================================================
