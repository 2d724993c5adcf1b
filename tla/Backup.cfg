SPECIFICATION Spec
CONSTANTS
    MaxStamp = 3
    MaxVer = 1
    MaxTurns = 1
    Generations = 2
    None = None
INVARIANTS AlwaysComplete OneLeftover DryRunTellsTruth
PROPERTIES LatestDataStays SuccessMeansKept KeepsPromise
