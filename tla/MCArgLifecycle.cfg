CONSTANTS
    NoOwner = NoOwner
    CancelPointInPrint = FALSE

SPECIFICATION Spec

INVARIANT TypeOK
INVARIANT CleanerGoneBeforeDestroy
PROPERTY ShutdownCompletes
