CONSTANTS
    r1 = r1
    r2 = r2
    s1 = s1
    s2 = s2
    Requests = {r1, r2}
    Promotions = {p1}
    NoOp = NoOp
    Jobs = {j1}
    Sweepers = {s1, s2}
    NoEpoch = NoEpoch
    MaxWrites = 3
    Batch = 1
SPECIFICATION MCSpec
PROPERTIES LiveAccountUntouched TwoEmptySweepsOfOne GoneEventuallyClosed
