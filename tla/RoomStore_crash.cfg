\* One machine, every command but copy, errors at every step.
CONSTANTS
    Clients = {c1}
    Rooms = {r1}
    Ids = {1, 2}
    Commands = {"save", "import", "remove", "create", "stream-copy", "remove-jat"}
    Faults = {"unverified", "late", "cleanup", "crash"}
    MaxAttempts = 4
    ExpectRevision = TRUE
SPECIFICATION Spec
INVARIANTS
    TypeOK
    NoDanglingReference
    NoSilentGarbage
CHECK_DEADLOCK FALSE
