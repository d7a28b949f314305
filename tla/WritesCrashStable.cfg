SPECIFICATION WriteSpec
CONSTANTS
    a1 = a1
    Configs = {c1}
    Versions = {v1, v2}
    NoVersion = NoVersion
    Agents = {a1, a2}
    RoamingAgents = {}
    Services = {payments}
    Elsewhere = Elsewhere
    RolloutIds = {r1}
    NoRollout = NoRollout
    ServiceChoices <- MCAllServices
    GuardrailChoices <- MCNoGuardrails
    StagePlan <- MCStagePlan
    BucketOf <- MCBucketOf
    RowOrder <- MCRowOrder
    RequiredAck = 95
    DeploymentTimeout = 1
    RolloutMaxDuration = 2
    RollbackTimeout = 1
    Horizon = 2
    Rules = {}
    ConsecutiveFailures <- MCConsecutiveFailures
    Replicas = {p1}
    Reconcilers = {p1}
    SharedStageIds = FALSE
    MaxCrashes = 1
PROPERTY RollbackKeepsStable
