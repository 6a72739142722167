SPECIFICATION FairSpec
CONSTANTS
    Triggers = {t1, t2}
    MaxRecords = 3
    Processes = {p1}
    SegmentRecords = 2
    MaxSegments = 2
    Limit = 2
    Commands = {"schedule"}
    Faults = {"source", "storage", "upload"}
    MaxFaults = 1
CHECK_DEADLOCK FALSE
PROPERTIES TriggerIsPrepared
