SPECIFICATION FairSpec
CONSTANTS
    Flat = {s1}
    Compact = {s2}
    Spaced = {s3}
    None = None
    Partial = Partial
    Configs = {c1, c2}
    MaxFaults = 2
INVARIANT OneFaultKeepsACopy
PROPERTY AcknowledgedIsInstalled
PROPERTY KeepsServing
PROPERTY CatchesUp
