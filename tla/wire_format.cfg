CONSTANTS
    Base = 32
    Size = 2
    MachineOrders = {TRUE, FALSE}
    Messages <- MCMessages
    Replies <- MCReplies
SPECIFICATION WireSpec
INVARIANTS
    PeerHearsLittleEndian
    ClientHearsLittleEndian
    Loopback
CHECK_DEADLOCK FALSE
