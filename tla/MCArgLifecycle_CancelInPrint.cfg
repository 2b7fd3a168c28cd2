CONSTANTS
    NoOwner = NoOwner
    CancelPointInPrint = TRUE

SPECIFICATION Spec
CHECK_DEADLOCK FALSE

PROPERTY ShutdownCompletes
