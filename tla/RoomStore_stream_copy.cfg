\* A portable JAT copied within its Dimension while it is removed.
CONSTANTS
    Clients = {c1, c2}
    Rooms = {r1, r2}
    Ids = {1, 2}
    Commands = {"create", "stream-copy", "remove-jat"}
    Faults = {}
    MaxAttempts = 4
    ExpectRevision = FALSE
SPECIFICATION Spec
INVARIANTS
    NoDanglingReference
CHECK_DEADLOCK FALSE
