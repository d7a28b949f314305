SPECIFICATION FairSpec
CONSTANTS
    t1 = t1
    k1 = k1
    number = number
    anything = anything
    low = low
    high = high
    Tenants = {t1}
    Keys = {k1}
    TenantOf <- MCTenantOf
    Schemas = {number, anything}
    Values = {low, high}
    Fits <- MCFits
    NoValue = NoValue
    StageIdsAreKeys = TRUE
    Documents <- MCDocuments
    Appliers = {p1, p2}
    IncludeRollouts = {p1}
    Nothing = Nothing
    MaxLost = 1
    MaxOperated = 2
INVARIANT DoneMeansDeclared
PROPERTY OnlyDeclared
PROPERTY RerunsSucceed
CHECK_DEADLOCK FALSE
