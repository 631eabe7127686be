\* The catch-up reads flags that were never cleared.
CONSTANTS
    LocalParts = 2
    LocalSize = 1
    Parts = 2
    Size = 1
    Negotiated = TRUE
    HeapGarbage = {0, 1}
    MaxRounds = 1
    Windows = {}
    Workers = {w1}
    Sync = sync
SPECIFICATION Spec
INVARIANT NoPrematureSend
