SPECIFICATION Spec
CONSTANTS
    t1 = t1
    t2 = t2
    None = None
    Personal = Personal
    NoEntry = NoEntry
    Ticks = {t1, t2}
    MaxDay = 2
    MaxMent = 2
    MaxTries = 2
    Plans <- MCPlans
SYMMETRY TickSymmetry
INVARIANTS
    OneGenerator
    NightServed
    PushedOnce
PROPERTIES
    PublishedAsScheduled
CHECK_DEADLOCK FALSE
