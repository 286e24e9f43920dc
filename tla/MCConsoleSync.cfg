CONSTANTS
    MAXVALUES = 5
    REFRESH_INTERVAL = 2
    ServerFilters <- MCServerFilters
    ConsoleFilters <- MCConsoleFilters
    Total <- MCTotal
    FirstSeq = 0
    MaxSeq = 12
SPECIFICATION FairSpec
INVARIANTS ReplicaFaithful ReplicaContiguous MomSpeedRight ConsoleSpeedCurrent
PROPERTIES EventuallyInSync
