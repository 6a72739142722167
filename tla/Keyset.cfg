\* Two machines on either provider, any two faults.
CONSTANTS
    Machines = {m1, m2}
    Providers = {"minio", "r2"}
    Faults = {"timeout", "repeat", "read", "init", "crash"}
    MaxFaults = 2
SPECIFICATION FairSpec
INVARIANTS
    TypeOK
    LosersAdoptTheWinner
    UsersAgree
PROPERTIES
    MaterialIsFinal
    EveryMachineOpens
