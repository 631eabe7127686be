\* The catch-up and the marking thread both count a partition.
CONSTANTS
    LocalParts = 2
    LocalSize = 1
    Parts = 1
    Size = 2
    Negotiated = TRUE
    HeapGarbage = {}
    MaxRounds = 1
    Windows = {}
    Workers = {w1, w2}
    Sync = sync
SPECIFICATION Spec
INVARIANT NoPrematureSend
