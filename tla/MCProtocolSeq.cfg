\* 3-bit sequence numbers, window 2, one wrap of the sender, lossy network
\* with replays.
CONSTANTS
    Bits = 3
    WRAP = 2
    MaxSend = 9
    Lossy = TRUE
SPECIFICATION Spec
INVARIANT TypeOK
INVARIANT NoReplayBeforeWrap
INVARIANT WrapWithinWindowAccepted
