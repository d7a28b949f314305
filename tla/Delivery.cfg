SPECIFICATION FairDeliverySpec
CONSTANTS
    a1 = a1
    Configs = {c1}
    Versions = {v1, v2}
    OperatorVersions = {v1}
    Expiring = {a1}
    NoVersion = NoVersion
    Agents = {a1, a2}
    RoamingAgents = {}
    Services = {payments}
    Elsewhere = Elsewhere
    RolloutIds = {r1}
    NoRollout = NoRollout
    ServiceChoices <- MCAllServices
    GuardrailChoices <- MCGuarded
    StagePlan <- MCStagePlan
    BucketOf <- MCBucketOf
    RowOrder <- MCRowOrder
    RequiredAck = 95
    DeploymentTimeout = 0
    RolloutMaxDuration = 0
    RollbackTimeout = 0
    Horizon = 0
    Rules = {error_rate}
    ConsecutiveFailures <- MCOneFailure
    Replicas = {p1}
    Reconcilers = {p1}
    SharedStageIds = FALSE
    MaxCrashes = 0
INVARIANT CandidateOnlyInCohort
INVARIANT CountedMeansInstalled
PROPERTY AgentsConverge
PROPERTY DeliveredToTheEnd
