SPECIFICATION Spec
CONSTANTS
    NoKey = NoKey
    EmptyKey = EmptyKey
    Nobody = Nobody
    NoJob = NoJob
    MaxAttempts = 3
    QueueAttempts = 3
    MaxStalled = 1
    Keys = {k1}
    Requests = {r1, r2}
    Dtos <- Assorted
    Workers = {w1, w2}
    MaxFaults <- CleanFaults
INVARIANTS
    OneEntryPerKey
    IdempotentAnswers
    OutcomeMatchesStatus
PROPERTIES
    TerminalIsFinal
    LifecycleSpec
CHECK_DEADLOCK FALSE
