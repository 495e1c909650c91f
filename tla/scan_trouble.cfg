SPECIFICATION ScanSpec
CONSTANTS
    Scans <- ScannerRegistry
    Generic <- generic
INVARIANT TroubleIsNotGone
CHECK_DEADLOCK FALSE
