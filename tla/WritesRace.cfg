SPECIFICATION WriteSpec
CONSTANTS
    a1 = a1
    Configs = {c1}
    Versions = {v1, v2}
    NoVersion = NoVersion
    Agents = {a1}
    RoamingAgents = {}
    Services = {payments}
    Elsewhere = Elsewhere
    RolloutIds = {r1, r2}
    NoRollout = NoRollout
    ServiceChoices <- MCAllServices
    GuardrailChoices <- MCNoGuardrails
    StagePlan <- MCOneStage
    BucketOf <- MCBucketOf
    RowOrder <- MCRowOrder
    RequiredAck = 95
    DeploymentTimeout = 0
    RolloutMaxDuration = 1
    RollbackTimeout = 0
    Horizon = 1
    Rules = {}
    ConsecutiveFailures <- MCConsecutiveFailures
    Replicas = {p1, p2}
    Reconcilers = {p1}
    SharedStageIds = FALSE
    MaxCrashes = 1
SYMMETRY MCSymmetry
INVARIANT OneActiveRollout
INVARIANT RevisionsDistinct
