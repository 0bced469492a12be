SPECIFICATION Spec
CONSTANTS
    Instance = {1, 2, 3}
    Setups <- MCLast
PROPERTY RoundKeepsEachRole
CHECK_DEADLOCK FALSE
