\* The director accepts hop(now) and hop(now - 1); three hop addresses let
\* two hops move both away from the address an entry was created with.
CONSTANTS
    Threads = {t1}
    Cleaner = Cleaner
    NoOwner = NoOwner
    Free = Free
    None = None
    Cells = {c1, c2}
    IntIPs <- MCIntIPs
    IntPorts <- MCIntPorts
    ExtIPs <- MCExtIPs
    ExtPorts <- MCExtPorts
    Protos <- MCProtos
    HopIPs <- MCHopIPs3
    NAT_CLEAN_TIME = 1
    MaxTime = 1
    MallocMayFail = TRUE
    CaptureJoined = TRUE

SYMMETRY MCSymmetry
SPECIFICATION Spec

PROPERTY RepliesReachNatInbound
