SPECIFICATION Spec
CONSTANTS
    NoKey = NoKey
    EmptyKey = EmptyKey
    Nobody = Nobody
    NoJob = NoJob
    MaxAttempts = 3
    QueueAttempts = 3
    MaxStalled = 1
    Keys = {}
    Requests = {r1}
    Dtos <- OnlyBad
    Workers = {w1}
    MaxFaults <- DbOnly
INVARIANTS
    ExhaustedJobIsMarkedFailed
CHECK_DEADLOCK FALSE
