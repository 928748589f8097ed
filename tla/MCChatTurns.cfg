CONSTANTS
    r1 = r1
    r2 = r2
    r3 = r3
    k1 = k1
    k2 = k2
    Requests <- MCRequests
    Keys = {k1, k2}
    KeyOf <- MCKeyOf
    NoOne = NoOne
    Limit = 2
    MaxCost = 2
    MayWait = {r3}
    MaxAtOnce = 2
SYMMETRY Symmetry
SPECIFICATION InferenceSpec
INVARIANTS TurnsAsAdmitted PressureSound
PROPERTY PublishedOnCurrent
