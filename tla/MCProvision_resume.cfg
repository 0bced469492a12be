SPECIFICATION Spec
CONSTANTS
    r1 = r1
    r2 = r2
    Request = {r1, r2}
    Name = {"a", "b"}
    Setups <- MCSetups
PROPERTIES
    HandedOverIsKept
CHECK_DEADLOCK FALSE
