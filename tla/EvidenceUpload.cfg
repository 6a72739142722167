\* Two hosts, both sizes, any three faults.
CONSTANTS
    Hosts = {h1, h2}
    Parts = {1, 2}
    Sizes = {"small", "large"}
    MaxAttempts = 2
    MaxUploads = 4
    Faults = {"timeout", "server", "limit", "refuse", "repeat", "read", "expire", "corrupt", "crash", "lose"}
    MaxFaults = 3
SPECIFICATION FairSpec
INVARIANTS
    TypeOK
    OwnerUploads
    NothingLeftToWrite
PROPERTIES
    CreateOnce
    EveryHostIsServed
CHECK_DEADLOCK FALSE
