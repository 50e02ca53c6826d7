SPECIFICATION WireSpec
CONSTANTS
    Base = 32
    Size = 2
    MachineOrders = {FALSE}
    Messages <- MCProtocolVersion
    Replies <- MCPlayers
INVARIANTS PeerHearsClient
CHECK_DEADLOCK FALSE
