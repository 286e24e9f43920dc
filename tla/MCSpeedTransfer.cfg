CONSTANTS
    Speeds <- MCSpeeds
SPECIFICATION TransferSpec
INVARIANTS DisplayAccurate DisplayMonotone
CHECK_DEADLOCK FALSE
