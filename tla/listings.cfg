SPECIFICATION ListSpec
CONSTANTS
    IDs <- MCIDs
    Times <- MCTimes
    Limits = {1, 2}
INVARIANTS
    ListTypeOK
    NothingSkipped
    NothingTwice
    BackSkipBound
PROPERTIES
    WalkEnds
CHECK_DEADLOCK FALSE
