SPECIFICATION FairSpec
CONSTANTS
    None = None
    NoJournal = NoJournal
    MaxEntries = 3
    MaxCreates = 3
    MaxFaults = 2
    MaxCrashes = 2
INVARIANTS OneOwner ListedIsWhole NothingOrphaned
PROPERTIES CreationSettles
