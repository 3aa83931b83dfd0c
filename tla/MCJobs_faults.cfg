SPECIFICATION FairSpec
CONSTANTS
    NoKey = NoKey
    EmptyKey = EmptyKey
    Nobody = Nobody
    NoJob = NoJob
    MaxAttempts = 3
    QueueAttempts = 3
    MaxStalled = 1
    Keys = {k1}
    Requests = {r1}
    Dtos <- GoodOrBad
    Workers = {w1, w2}
    MaxFaults <- AnyFault2
INVARIANTS
    TypeOK
    FailedMeansExhausted
    AttemptsBounded
    CompletedEntryHasCompletedRow
    RowSettledWithEntry
PROPERTIES
    EntryAdvances
    EntrySettles
    QueuedRowSettles
CHECK_DEADLOCK FALSE
