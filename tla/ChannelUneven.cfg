\* The sender chooses; the receiver has more partitions than messages.
CONSTANTS
    MaxParts = 3
    MaxElements = 6
    Infos <- SenderInfo
    StaleModes = {}
    StaleSets = {}
SPECIFICATION Spec
CHECK_DEADLOCK FALSE
INVARIANT EndToEnd
