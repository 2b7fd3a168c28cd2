----------------------------- MODULE NatMapping -----------------------------
(***************************************************************************)
(* What the gateway's NAT promises, without buckets, lists, heap, lock or  *)
(* threads: a set of mappings, each tying an internal endpoint (address,   *)
(* port, protocol) and the external endpoint it talks to to the gateway    *)
(* endpoint its traffic leaves from, with the time it was last used.       *)
(*                                                                         *)
(*  - An outbound packet uses the mapping of its internal and external     *)
(*    endpoints, or opens one from the current hop address, keeping the    *)
(*    internal port; either way the mapping is marked used now.            *)
(*  - An inbound packet from x to gateway endpoint g is let in only along  *)
(*    a mapping from x to g, which it marks used.                          *)
(*  - A mapping disappears only once it has been idle for longer than      *)
(*    NAT_CLEAN_TIME.                                                      *)
(*  - An outbound packet may also be dropped for lack of memory, which     *)
(*    changes no mapping (a stuttering step).                              *)
(*  - At shutdown the NAT closes: every mapping is dropped at once and no  *)
(*    packet is rewritten afterwards.                                      *)
(***************************************************************************)
EXTENDS Naturals

CONSTANTS IntIPs, IntPorts, ExtIPs, ExtPorts, Protos, HopIPs,
          NAT_CLEAN_TIME, MaxTime

VARIABLES now, curIP, mappings, up

absVars == <<now, curIP, mappings, up>>

IntEPs == IntIPs \X IntPorts \X Protos
ExtEPs == ExtIPs \X ExtPorts

MappingRec == [int: IntEPs, ext: ExtEPs, gate: HopIPs \X IntPorts,
               lastUsed: 0..MaxTime]

Used(m) == [m EXCEPT !.lastUsed = now]

Outbound(h, x) ==
    /\ up
    /\ \/ \E m \in mappings :
            /\ m.int = h /\ m.ext = x
            /\ mappings' = (mappings \ {m}) \cup {Used(m)}
       \/ /\ \A m \in mappings : ~(m.int = h /\ m.ext = x)
          /\ mappings' = mappings \cup
                {[int |-> h, ext |-> x, gate |-> <<curIP, h[2]>>, lastUsed |-> now]}
    /\ UNCHANGED <<now, curIP, up>>

Inbound(x, g, proto) ==
    /\ up
    /\ \E m \in mappings :
          /\ m.ext = x /\ m.gate = g /\ m.int[3] = proto
          /\ mappings' = (mappings \ {m}) \cup {Used(m)}
    /\ UNCHANGED <<now, curIP, up>>

Expire ==
    /\ \E gone \in SUBSET mappings :
          /\ gone # {}
          /\ \A m \in gone : now - m.lastUsed > NAT_CLEAN_TIME
          /\ mappings' = mappings \ gone
    /\ UNCHANGED <<now, curIP, up>>

Close ==
    /\ up
    /\ up' = FALSE
    /\ mappings' = {}
    /\ UNCHANGED <<now, curIP>>

Tick ==
    /\ now < MaxTime
    /\ now' = now + 1
    /\ UNCHANGED <<curIP, mappings, up>>

Hop ==
    /\ \E a \in HopIPs \ {curIP} : curIP' = a
    /\ UNCHANGED <<now, mappings, up>>

Init ==
    /\ now = 0
    /\ curIP \in HopIPs
    /\ mappings = {}
    /\ up = TRUE

Next ==
    \/ \E h \in IntEPs, x \in ExtEPs : Outbound(h, x)
    \/ \E x \in ExtEPs, g \in HopIPs \X IntPorts, proto \in Protos : Inbound(x, g, proto)
    \/ Expire \/ Close \/ Tick \/ Hop

Spec == Init /\ [][Next]_absVars

=============================================================================
