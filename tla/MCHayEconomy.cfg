CONSTANTS
    plain = plain
    lent = lent
    s1 = s1
    s2 = s2
    Products = {plain, lent}
    SubscriberOnly = {lent}
    Sessions = {s1, s2}
    RoutineStreaks = {0, 2}
    Start = 1
    Price = 1
    MaxDay = 2
    MaxMoves = 2
    AdLimit = 1
    None = None
    Ids = {"a", "b", "c", "d"}
    Stages = 2
    ReviewPoints = {2}
    MaxTries = 2
    RefillEvery = 2
    MaxTime = 4
    Scripts <- MCScripts
SPECIFICATION TrainingSpec
INVARIANTS RewardsForward PaidForOwned SubmissionsCount
CHECK_DEADLOCK FALSE
