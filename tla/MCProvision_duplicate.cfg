SPECIFICATION Spec
CONSTANTS
    r1 = r1
    r2 = r2
    Request = {r1, r2}
    Name = {"a", "b"}
    Setups <- MCSetups
INVARIANTS
    CreatedOnce
CHECK_DEADLOCK FALSE
