\* Native saves, copies and removals of two machines on one Dimension, which fail
\* or die at any step.
CONSTANTS
    Clients = {c1, c2}
    Rooms = {r1, r2}
    Ids = {1, 2}
    Commands = {"save", "copy", "remove"}
    Faults = {"unverified", "late", "cleanup", "crash"}
    MaxAttempts = 4
    ExpectRevision = FALSE
SPECIFICATION Spec
SYMMETRY ClientSymmetry
VIEW CatalogView
INVARIANTS
    NoDanglingReference
    NoLostUpdate
    CatalogWellFormed
CHECK_DEADLOCK FALSE
