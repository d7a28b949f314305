SPECIFICATION FairSpec
CONSTANTS
    Flat = {s1, s2}
    Compact = {}
    Spaced = {}
    None = None
    Partial = Partial
    Configs = {c1, c2}
    MaxFaults = 2
PROPERTY PollersCatchUp
