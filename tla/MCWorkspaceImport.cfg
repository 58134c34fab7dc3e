SPECIFICATION FairSpec
CONSTANTS
    None = None
    NoJournal = NoJournal
    MaxEntries = 2
    MaxImports = 2
    MaxFaults = 3
    MaxCrashes = 2
INVARIANTS EverythingBound ListedIsWhole OneWorkspacePerLineage NoPlaintextAdmitted
PROPERTY ImportSettles
