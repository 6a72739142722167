\* Without faults every unreachable snapshot is forgotten or left to a receipt.
CONSTANTS
    Clients = {c1, c2}
    Rooms = {r1}
    Ids = {1, 2}
    Commands = {"import", "remove"}
    Faults = {}
    MaxAttempts = 4
    ExpectRevision = FALSE
SPECIFICATION FairSpec
PROPERTIES
    GarbageIsSettled
CHECK_DEADLOCK FALSE
