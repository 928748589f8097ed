SPECIFICATION ReleaseLiveSpec
CONSTANTS
    anna = anna
    ben = ben
    w1 = w1
    w2 = w2
    b1 = b1
    o1 = o1
    o2 = o2
    NoAccount = NoAccount
    Subjects = {anna, ben}
    History <- MCHistory
    Writers = {w1, w2}
    Builders = {b1}
    Operators = {o1, o2}
    Plans <- MCPlans
    MaxTries = 2
    MaxDeaths = 1
CHECK_DEADLOCK FALSE
INVARIANTS
    OneSealedRelease
PROPERTIES
    PromotedAsAudited
    WritersFinish
