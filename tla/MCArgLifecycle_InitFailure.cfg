CONSTANTS
    NoOwner = NoOwner
    CancelPointInPrint = FALSE

SPECIFICATION Spec

INVARIANT NatLockValidWhenUsed
