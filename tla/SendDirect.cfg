\* HARD mode, four partitions in two messages, no background thread.
CONSTANTS
    LocalParts = 4
    LocalSize = 1
    Parts = 2
    Size = 2
    Negotiated = FALSE
    HeapGarbage = {0, 1, 2, 3}
    MaxRounds = 2
    Windows = {}
    Workers = {w1, w2}
    Sync = sync
SPECIFICATION Spec
SYMMETRY WorkerSymmetry
INVARIANTS
    NoPrematureSend
    StartedOnce
    CompletionMeansSent
PROPERTY ImplementsPartitioned
