\* Three key files; calloc may fail for the middle one.
CONSTANTS
    Texts <- MCTexts
    CRs <- MCLF
    DirEntries <- MCThreePeers
    MaxFileLen = 5
    MaxDirLen = 3
    Cells = {g1, g2}
    NULL = NULL
    Free = Free
    MallocMayFail = TRUE
SYMMETRY MCSymmetry
SPECIFICATION Spec
INVARIANT AllocatedGatesListed
