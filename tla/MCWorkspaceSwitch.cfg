SPECIFICATION FairSpec
CONSTANTS
    Workspaces = {w1, w2, w3}
    First = w1
    NoWorkspace = NoWorkspace
    NoJournal = NoJournal
    MaxSwitches = 3
    MaxFaults = 2
    MaxCrashes = 2
INVARIANTS StartupResolves OnlyValidatedStands RunsSelection
PROPERTIES SwitchSettles
