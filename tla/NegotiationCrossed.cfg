\* Three channels, the ranks' init calls in opposite orders.  A receive whose
\* request has another channel's numbers may wait for ever.
CONSTANTS
    Channels = {1, 2, 3}
    Order <- CrossedOrder
    Driver <- CrossedDriver
    Sender <- CrossedSender
    Numbers <- CrossedNumbers
    Tag <- CrossedTag
SPECIFICATION Spec
CHECK_DEADLOCK FALSE
INVARIANTS
    TypeOK
    OnePerNegotiation
    DataMatches
PROPERTY ChannelsComplete
