SPECIFICATION FairSpec
CONSTANTS
    Instance = {1, 2, 3, 4}
    Setups <- MCSetups
INVARIANT TypeOK
PROPERTIES
    RoundKeepsEachRole
    StartsEnd
    Converges
CHECK_DEADLOCK FALSE
