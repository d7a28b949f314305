SPECIFICATION FairSpec
CONSTANTS
    a1 = a1
    Configs = {c1}
    Versions = {v1, v2}
    NoVersion = NoVersion
    Agents = {a1, a2}
    RoamingAgents = {a2}
    Services = {payments}
    Elsewhere = Elsewhere
    RolloutIds = {r1}
    NoRollout = NoRollout
    ServiceChoices <- MCOneService
    GuardrailChoices <- MCGuardrails
    StagePlan <- MCStagePlan
    BucketOf <- MCBucketOf
    RequiredAck = 95
    DeploymentTimeout = 1
    RolloutMaxDuration = 2
    RollbackTimeout = 1
    Horizon = 2
    Rules = {error_rate, latency}
    ConsecutiveFailures <- MCConsecutiveFailures
INVARIANT TypeOK
INVARIANT EarlierStagesCovered
INVARIANT StationaryCohortsNested
INVARIANT RollbackStatusHonest
INVARIANT FailuresBelowThreshold
PROPERTY FrozenCohorts
PROPERTY TerminalIsFinal
PROPERTY NoPromotionOnUnknown
PROPERTY RolloutsFinish
PROPERTY ImplementsLifecycle
