\* Three requests, one negotiated in the background, two activations each.
CONSTANTS
    Count = 3
    Threaded = {1}
    MaxRounds = 2
SPECIFICATION Spec
INVARIANT TypeOK
PROPERTIES
    NothingLost
    AllMeansAll
    CompletionMeansArrived
    WaitsReturn
