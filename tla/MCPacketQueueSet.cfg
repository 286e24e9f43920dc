CONSTANTS
    t1 = t1
    t2 = t2
    Putter = {t1, t2}
    FilterId = {1, 2}
    FilterQueueMax = 2
    SetQueueMax = 2
    MaxPackets = 3
    MaxTicks = 1
    World <- MCWorld
SPECIFICATION Spec
INVARIANTS Conservation ServesFilterset DeliveryOrder StaysWithFilter
CHECK_DEADLOCK FALSE
SYMMETRY Symmetry
