\* Shutdown while a rewrite is in progress: uninit_director does not wait
\* for the capture thread that already holds natTableLock.
CONSTANTS
    Threads = {t1}
    Cleaner = Cleaner
    NoOwner = NoOwner
    Free = Free
    None = None
    Cells = {c1, c2}
    IntIPs <- MCIntIPs
    IntPorts <- MCIntPorts
    ExtIPs <- MCExtIPs
    ExtPorts <- MCExtPorts
    Protos <- MCProtos
    HopIPs <- MCHopIPs
    NAT_CLEAN_TIME = 1
    MaxTime = 2
    MallocMayFail = TRUE
    CaptureJoined = FALSE

SYMMETRY MCSymmetry
SPECIFICATION Spec

PROPERTY NatTableImplementsNatMapping
