\* Two requests; an earlier call, of any kind, may consume the completion of one
\* of them before MPIP_Testall is called.
CONSTANTS
    Count = 2
    Threaded = {}
    MaxRounds = 1
SPECIFICATION Spec
PROPERTY TestallReports
