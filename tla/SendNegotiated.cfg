\* Negotiated in the background, two partitions in four messages.
CONSTANTS
    LocalParts = 2
    LocalSize = 2
    Parts = 4
    Size = 1
    Negotiated = TRUE
    HeapGarbage = {}
    MaxRounds = 2
    Windows = {}
    Workers = {w1, w2}
    Sync = sync
SPECIFICATION Spec
INVARIANTS
    TypeOK
    NoPrematureSend
    StartedOnce
    SendSeesArrays
    CompletionMeansSent
    FreedMeansQuiet
    WaitSeesArrays
PROPERTIES
    ImplementsPartitioned
    EveryPartitionGoesOut
    WaitReturns
