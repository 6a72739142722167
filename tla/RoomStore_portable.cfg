\* Portable JATs beside native saves; PUTs with unknown outcome, applied late.
CONSTANTS
    Clients = {c1, c2}
    Rooms = {r1}
    Ids = {1, 2}
    Commands = {"create", "remove-jat", "save", "remove"}
    Faults = {"uncertain", "late"}
    MaxAttempts = 4
    ExpectRevision = TRUE
SPECIFICATION Spec
SYMMETRY ClientSymmetry
VIEW ReportView
INVARIANTS
    OnlyConfirmedRemoved
    SafetyInvariant
    CommittedIsPublished
PROPERTIES
    RejectionIsFinal
    OrphansStayUnreferenced
CHECK_DEADLOCK FALSE
