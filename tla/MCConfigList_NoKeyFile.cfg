\* A directory may hold no key file at all.
CONSTANTS
    Texts <- MCTexts
    CRs <- MCLF
    DirEntries <- MCDirEntries
    MaxFileLen = 5
    MaxDirLen = 3
    Cells = {g1, g2}
    NULL = NULL
    Free = Free
    MallocMayFail = TRUE
SYMMETRY MCSymmetry
SPECIFICATION Spec
INVARIANT NoCrash
