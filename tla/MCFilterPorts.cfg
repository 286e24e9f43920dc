CONSTANTS
    Thread = {t1}
    Scenario <- BothPortsCases
SPECIFICATION Spec
INVARIANT PortConditionsHold
CHECK_DEADLOCK FALSE
