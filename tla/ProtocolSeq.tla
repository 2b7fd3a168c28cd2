---------------------------- MODULE ProtocolSeq ----------------------------
(***************************************************************************)
(* The per-peer sequence-number replay defence of the protocol engine      *)
(* (spec §4.5; the engine's source is not in the repository, only          *)
(* proto_data's inSeqNum/outSeqNum in src/protocol.h and                   *)
(* SEQ_NUM_WRAP_ALLOWANCE in src/settings.h).                              *)
(*                                                                         *)
(* The sender numbers frames with outSeqNum, a uint32_t incremented under  *)
(* protoLock before each frame, so it wraps to 0.  The receiver accepts    *)
(* seq iff seq > inSeqNum, or inSeqNum > 2^32 - SEQ_NUM_WRAP_ALLOWANCE and *)
(* seq < SEQ_NUM_WRAP_ALLOWANCE, and then sets inSeqNum to seq.            *)
(*                                                                         *)
(* The width is the constant Bits (32 in the code) so that TLC can reach   *)
(* the wrap; the window is WRAP.  The network is the attacker of spec §8:  *)
(* every frame sent stays capturable and can be delivered again, in any    *)
(* order, and frames can be lost before they are first delivered.          *)
(***************************************************************************)
EXTENDS Naturals, Sequences, FiniteSets

CONSTANTS
    Bits,      \* width of the sequence numbers (32)
    WRAP,      \* SEQ_NUM_WRAP_ALLOWANCE (10)
    MaxSend,   \* bound on the frames the sender numbers
    Lossy      \* frames may be lost

ASSUME /\ Bits \in Nat \ {0}
       /\ WRAP \in 1..2^Bits
       /\ MaxSend \in Nat
       /\ Lossy \in BOOLEAN

Modulus == 2^Bits

VARIABLES
    outSeqNum,     \* sender: last sequence number sent
    inSeqNum,      \* receiver: last sequence number accepted
    sent,          \* frame i (send order) -> its seq
    net,           \* frames the network or an attacker can still deliver
    lastAccepted,  \* history: send index of the frame accepted last (0: none)
    staleAccepted, \* history: a frame no newer than lastAccepted was accepted
    droppedGaps    \* history: i - lastAccepted of each rejected newer frame i

vars == <<outSeqNum, inSeqNum, sent, net, lastAccepted, staleAccepted,
          droppedGaps>>

\* Fault variant of the replay test: >= instead of >.
AcceptSeqGE(in, seq) ==
    \/ seq >= in
    \/ in > Modulus - WRAP /\ seq < WRAP

\* Fault variant of the wrap window: one value short at its high end.
AcceptSeqNarrow(in, seq) ==
    \/ seq > in
    \/ in > Modulus - WRAP + 1 /\ seq < WRAP

\* The replay test of spec §4.5 on Bits-bit unsigned values.
AcceptSeq(in, seq) ==
    \/ seq > in
    \/ in > Modulus - WRAP /\ seq < WRAP

\* Fault variant of Send: the counter is not kept to its width.
SendUnwrapped ==
    /\ Len(sent) < MaxSend
    /\ outSeqNum' = outSeqNum + 1
    /\ sent' = Append(sent, outSeqNum')
    /\ net' = net \cup {Len(sent) + 1}
    /\ UNCHANGED <<inSeqNum, lastAccepted, staleAccepted, droppedGaps>>

\* Allocate ++outSeqNum under protoLock, sign, send.
Send ==
    /\ Len(sent) < MaxSend
    /\ outSeqNum' = (outSeqNum + 1) % Modulus
    /\ sent' = Append(sent, outSeqNum')
    /\ net' = net \cup {Len(sent) + 1}
    /\ UNCHANGED <<inSeqNum, lastAccepted, staleAccepted, droppedGaps>>

\* A frame is lost in transit, and no attacker captured it.
Lose(i) ==
    /\ Lossy
    /\ net' = net \ {i}
    /\ UNCHANGED <<outSeqNum, inSeqNum, sent, lastAccepted, staleAccepted,
                   droppedGaps>>

\* Frame i reaches the receiver (first delivery, reordered, or replayed; it
\* stays capturable).  The check and the update run under protoLock.
Receive(i) ==
    /\ \/ /\ AcceptSeq(inSeqNum, sent[i])
          /\ inSeqNum' = sent[i]
          /\ lastAccepted' = i
          /\ staleAccepted' = (staleAccepted \/ i <= lastAccepted)
          /\ UNCHANGED droppedGaps
       \/ /\ ~AcceptSeq(inSeqNum, sent[i])
          /\ droppedGaps' = IF i > lastAccepted
                              THEN droppedGaps \cup {i - lastAccepted}
                              ELSE droppedGaps
          /\ UNCHANGED <<inSeqNum, lastAccepted, staleAccepted>>
    /\ UNCHANGED <<outSeqNum, sent, net>>

Init ==
    /\ outSeqNum = 0
    /\ inSeqNum = 0
    /\ sent = <<>>
    /\ net = {}
    /\ lastAccepted = 0
    /\ staleAccepted = FALSE
    /\ droppedGaps = {}

\* The sender has stopped and the network holds nothing.
Quiet ==
    /\ Len(sent) = MaxSend
    /\ net = {}
    /\ UNCHANGED vars

Next ==
    \/ Send
    \/ \E i \in net : Lose(i) \/ Receive(i)
    \/ Quiet

Spec == Init /\ [][Next]_vars

-----------------------------------------------------------------------------
(* Properties *)

TypeOK ==
    /\ outSeqNum \in 0..Modulus - 1
    /\ inSeqNum \in 0..Modulus - 1
    /\ sent \in Seq(0..Modulus - 1)
    /\ net \subseteq 1..Len(sent)
    /\ lastAccepted \in 0..Len(sent)
    /\ staleAccepted \in BOOLEAN
    /\ droppedGaps \subseteq 1..Len(sent)

\* While the sender's numbers stay below the wrap window, the receiver
\* accepts each frame at most once and never one older than a frame it has
\* accepted: every replayed or reordered frame the attacker delivers is
\* dropped by the check on inSeqNum.
NoReplayBeforeWrap ==
    Len(sent) <= Modulus - WRAP => ~staleAccepted

\* A frame sent fewer than WRAP frames after the last accepted one is
\* accepted, also when the sequence numbers wrapped in between (spec §8: a
\* seq wrap within the window is accepted), whatever frames the attacker
\* replayed before it.
WrapWithinWindowAccepted == \A g \in droppedGaps : g >= WRAP

=============================================================================
