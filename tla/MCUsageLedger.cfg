SPECIFICATION LiveSpec
CONSTANTS
    c1 = c1
    c2 = c2
    consumer = consumer
    other = other
    None = None
    Calls = {c1, c2}
    Processes = {consumer, other}
    Kinds <- MCKinds
    MaxBuffer = 1
INVARIANTS
    MeasuredUsageKept
PROPERTIES
    SettledForGood
    EveryCallSettles
CHECK_DEADLOCK FALSE
