CONSTANTS
    Jobs = {j1}
    Checkpoints = {j1}
    Tasks = {w1}
    Users = {u1}
    NoUser = NoUser
    NoJob = NoJob
    MaxAttempts = 2
    MaxDefers = 1
SPECIFICATION LiveSpec
PROPERTY PublishBlockedByBarrier
