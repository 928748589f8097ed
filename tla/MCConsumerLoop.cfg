CONSTANTS
    memory = memory
    content = content
    j1 = j1
    j2 = j2
    j3 = j3
    j4 = j4
    Queues = {memory, content}
    Rows <- MCRows
    QueueOf <- MCQueueOf
    Concurrency = 2
    ClaimBatch = 2
SPECIFICATION LoopLiveSpec
INVARIANTS NoLostWakeup
PROPERTY StopEnds
