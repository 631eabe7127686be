\* Every geometry of up to four partitions and eight elements, every info object.
\* A channel may stop: a message may never be started, a
\* side may wait for numbers the other does not send.
CONSTANTS
    MaxParts = 4
    MaxElements = 8
    Infos <- AnyInfos
    StaleModes = {"garbage", "SENDER", "RECEIVER", "HARD"}
    StaleSets = {0, 2}
SPECIFICATION Spec
CHECK_DEADLOCK FALSE
INVARIANTS
    TypeOK
    Agreement
    MessagesInBuffer
    IndexInRange
    EndToEndRegular
PROPERTIES
    ImplementsPartitioned
    EverythingArrives
