SPECIFICATION DhcpSpec
CONSTANTS
    Client = {1, 2, 3}
    RangeSize = 3
    Locked = {}
    Static <- MCStatic
    Net = {1, 2}
    Via <- MCVia
    Gateway <- MCGateway
    Reach <- MCReach
    DhcpWorld <- MCWorld
    CharBits = 2
    BootpClient = {3}
    OfferTime = 1
    Lease = 1
    MaxIndex = 2
    MaxMishap = 0
INVARIANTS OneHolder HeldIsKnown HeldIsRecorded
CHECK_DEADLOCK FALSE
