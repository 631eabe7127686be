\* Negotiated in the background, two partitions behind four messages.
CONSTANTS
    LocalParts = 2
    LocalSize = 2
    Parts = 4
    Size = 1
    Negotiated = TRUE
    HeapGarbage = {}
    MaxRounds = 2
    Windows = {}
    Workers = {w1, w2}
SPECIFICATION Spec
INVARIANTS
    TypeOK
    ParrivedSound
    PostedOnce
    PollSeesArrays
    CompletionMeansArrived
PROPERTIES
    AnswerStable
    ReceivesGetPosted
    WaitReturns
