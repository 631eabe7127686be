\* The background thread ends before the init call stores RUNNING.
CONSTANTS
    LocalParts = 2
    LocalSize = 1
    Parts = 2
    Size = 1
    Negotiated = TRUE
    HeapGarbage = {}
    MaxRounds = 1
    Windows = {"outrun"}
    Workers = {w1}
    Sync = sync
SPECIFICATION Spec
INVARIANT CompletionMeansSent
