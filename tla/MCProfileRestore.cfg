SPECIFICATION FairSpec
CONSTANTS
    Operations = 2
    Crashes = 2
    Throws = 2
    Originals <- MCOriginals
CHECK_DEADLOCK FALSE
INVARIANTS NothingLost CensusAdmits DecisionStands NeverMixed
PROPERTY RestoreSettles
