---------------------------- MODULE MCNatTable ----------------------------
(* Model-checking instance of NatTable: one packet thread (two for the     *)
(* use-after-free run), two entry cells, two internal hosts sharing one  *)
(* source port, two or three hop addresses.                              *)
EXTENDS NatTable

\* External endpoints whose bucket keys are all different (4^1 = 5, 4^2 = 6).
MCExtIPs   == {4}
MCExtPorts == {1, 2}

\* Two external endpoints with the same key (1^2 = 2^1 = 3).
MCCollidingExtIPs   == {1, 2}
MCCollidingExtPorts == {1, 2}

MCIntIPs   == {1, 2}
MCIntPorts == {1}
MCProtos   == {6}
MCHopIPs   == {10, 11}

\* Three hop addresses: two hops move both current and previous address
\* away from the first one.
MCHopIPs3  == {10, 11, 12}

MCSymmetry == Permutations(Threads) \cup Permutations(Cells)
=============================================================================
