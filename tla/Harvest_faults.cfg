SPECIFICATION Spec
CONSTANTS
    Triggers = {t1}
    MaxRecords = 1
    Processes = {p1, p2}
    SegmentRecords = 1
    MaxSegments = 2
    Limit = 2
    Commands = {"run", "drain", "schedule", "retry", "quarantine"}
    Faults = {"source", "policy", "encrypt", "quota", "storage", "upload", "expire", "crash"}
    MaxFaults = 2
CHECK_DEADLOCK FALSE
SYMMETRY Symmetry
INVARIANTS TypeOK PreparedIsBacked IndexAfterObject
PROPERTIES StageNeverRegresses
