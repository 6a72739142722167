\* Two machines, one document, two saves or removals by others, any two faults.
CONSTANTS
    Machines = {m1, m2}
    Docs = {d1}
    MaxSaves = 2
    Faults = {"timeout", "server", "repeat", "error", "interrupt", "crash", "overlap"}
    MaxFaults = 2
SPECIFICATION FairSpec
INVARIANTS
    TypeOK
    CopiesExist
    CommittedIsSwitched
PROPERTIES
    SwitchKeepsContents
    CompletesOrOutdated
CHECK_DEADLOCK FALSE
