\* read_config / release_config with LF line endings, calloc failures and
\* every kind of directory entry.
CONSTANTS
    Texts <- MCTexts
    CRs <- MCLF
    DirEntries <- MCDirEntries
    MaxFileLen = 5
    MaxDirLen = 3
    Cells = {g1, g2}
    NULL = NULL
    Free = Free
    MallocMayFail = TRUE
SYMMETRY MCSymmetry
SPECIFICATION Spec
INVARIANT TypeOK
INVARIANT GatesInDirOrder
INVARIANT ReleaseFreesList
INVARIANT OurGateListed
