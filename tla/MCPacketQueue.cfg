CONSTANTS
    p1 = p1
    p2 = p2
    eth0 = eth0
    Packet = {p1, p2}
    AddData = {eth0}
    NoData = NoData
    Garbage = Garbage
    MaxPackets = 3
    CounterMod = 8
    QsizeMod = 4
    MaxTicks = 2
    MaxSets = 2
SPECIFICATION FairSpec
INVARIANTS RingConsistent
PROPERTIES ImplementsFifo EventuallyDelivers
