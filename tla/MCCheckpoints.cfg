SPECIFICATION LiveSpec
CONSTANTS
    Scripts <- MCScripts
    Attempts = 2
    RedoMaxDepth = 1
    SegmentTurns = 2
    ReverifyEvery = 2
CHECK_DEADLOCK FALSE
INVARIANTS
    ChainCoversPrefix
    CallsBounded
PROPERTIES
    PublishedProcessed
    GoalKept
    GoalReached
