SPECIFICATION MCSpec
CONSTANTS
    MaxTurn = 2
    MaxChunk = 2
    Remember = {TRUE, FALSE}
    MaxFaults = 1
    MaxGen = 2
    MaxHour = 2
INVARIANTS
    NoTurnSkipped
    OneIngestUntilReset
PROPERTIES
    EventuallyIngestedThere
    EventuallyJudgedThere
\* A conversation of MaxTurn turns that is worked off stops.
CHECK_DEADLOCK FALSE
