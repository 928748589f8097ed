SPECIFICATION LiveSpec
CONSTANTS
    Scripts <- MCScripts
    Attempts = 2
    RedoMaxDepth = 1
    PageRows = 2
CHECK_DEADLOCK FALSE
INVARIANTS
    EndedNotRevived
    NothingHeardLost
PROPERTIES
    CatchesUp
