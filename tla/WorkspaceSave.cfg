\* Two changes, reported or not, and any one fault.
SPECIFICATION FairSpec
CONSTANTS
    MaxEdits = 2
    Faults = {"silent", "foreign", "terminal", "verify", "crash", "reload"}
    MaxFaults = 1
INVARIANTS TypeOK PointsAreExact AnswersAreTrue AnswersAreCurrent SavedIsTrue
PROPERTIES SettlesOrBehind
