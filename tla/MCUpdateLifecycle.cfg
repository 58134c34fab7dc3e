SPECIFICATION FairSpec
CONSTANTS
    LastBuild = 2
    MaxUpdates = 2
    MaxFaults = 3
    MaxCrashes = 2
    None = None
    NoJournal = NoJournal
INVARIANTS ServesAccepted RollbackKeeps
PROPERTY UpdateSettles
