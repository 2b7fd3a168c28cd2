CONSTANTS
    Threads = {t1, t2}
    Cleaner = Cleaner
    NoOwner = NoOwner
    Free = Free
    None = None
    Cells = {c1, c2}
    IntIPs <- MCIntIPs
    IntPorts <- MCIntPorts
    ExtIPs <- MCExtIPs
    ExtPorts <- MCExtPorts
    Protos <- MCProtos
    HopIPs <- MCHopIPs
    NAT_CLEAN_TIME = 1
    MaxTime = 3
    MallocMayFail = TRUE
    CaptureJoined = TRUE

SYMMETRY MCSymmetry
SPECIFICATION Spec

INVARIANT NoUseAfterFree
