\* Two channels with one driver: their threads may receive in either order.
CONSTANTS
    Channels = {1, 2}
    Order <- SharedOrder
    Driver <- SharedDriver
    Sender <- SharedDriver
    Numbers <- SharedNumbers
    Tag <- SharedTag
SPECIFICATION Spec
INVARIANT BytesEqual
