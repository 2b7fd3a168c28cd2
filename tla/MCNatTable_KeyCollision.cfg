CONSTANTS
    Threads = {t1}
    Cleaner = Cleaner
    NoOwner = NoOwner
    Free = Free
    None = None
    Cells = {c1, c2}
    IntIPs <- MCIntIPs
    IntPorts <- MCIntPorts
    ExtIPs <- MCCollidingExtIPs
    ExtPorts <- MCCollidingExtPorts
    Protos <- MCProtos
    HopIPs <- MCHopIPs
    NAT_CLEAN_TIME = 1
    MaxTime = 3
    MallocMayFail = TRUE
    CaptureJoined = TRUE

SYMMETRY MCSymmetry
SPECIFICATION Spec

INVARIANT InboundReturnsToContactingHost
