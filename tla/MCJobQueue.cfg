CONSTANTS
    Jobs = {j1}
    Checkpoints = {j1}
    Tasks = {w1, w2, w3}
    Users = {u1}
    NoUser = NoUser
    NoJob = NoJob
    MaxAttempts = 2
    MaxDefers = 1
SPECIFICATION LiveSpec
INVARIANTS SingleHolder
PROPERTIES EventuallyTerminal ImplementsJobAbstract
