SPECIFICATION FairSessionSpec
CONSTANT Commands = 3
PROPERTY ProviderSpec
CHECK_DEADLOCK FALSE
