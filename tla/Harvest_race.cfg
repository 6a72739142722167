SPECIFICATION Spec
CONSTANTS
    Triggers = {t1, t2}
    MaxRecords = 2
    Processes = {p1, p2}
    SegmentRecords = 1
    MaxSegments = 2
    Limit = 2
    Commands = {"run", "drain"}
    Faults = {"expire"}
    MaxFaults = 1
CHECK_DEADLOCK FALSE
SYMMETRY Symmetry
INVARIANTS CursorCovered CommittedIsDurable
