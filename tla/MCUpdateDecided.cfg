SPECIFICATION FairSpec
CONSTANTS
    LastBuild = 1
    MaxUpdates = 1
    MaxFaults = 1
    MaxCrashes = 0
    None = None
    NoJournal = NoJournal
PROPERTY DecidedStarts
