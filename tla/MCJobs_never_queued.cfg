SPECIFICATION FairSpec
CONSTANTS
    NoKey = NoKey
    EmptyKey = EmptyKey
    Nobody = Nobody
    NoJob = NoJob
    MaxAttempts = 3
    QueueAttempts = 3
    MaxStalled = 1
    Keys = {k1}
    Requests = {r1, r2}
    Dtos <- OnlyNoJson
    Workers = {w1}
    MaxFaults <- NoFaults
PROPERTIES
    AnsweredJobIsProcessed
CHECK_DEADLOCK FALSE
