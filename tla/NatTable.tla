------------------------------ MODULE NatTable ------------------------------
(***************************************************************************)
(* The NAT table of the address-hopping gateway (src/nat.c).               *)
(*                                                                         *)
(* natTable is a uthash table of buckets keyed by                          *)
(* create_nat_bucket_key(extIP, extPort); each bucket owns a linked list   *)
(* of nat_entry cells, newest first.  One mutex, natTableLock, protects    *)
(* the table.  Packet threads run do_nat_outbound_rewrite and              *)
(* do_nat_inbound_rewrite: they look the entry up under the lock, release  *)
(* it, and only then copy the packet and read the entry's addresses.  The  *)
(* cleanup thread loops clean_nat_table / print_nat_table / sleep.         *)
(*                                                                         *)
(* Entries live in a heap of Cells, linked through their bucket, next      *)
(* and prev fields as in nat.h, so that a pointer kept after the unlock    *)
(* can be seen to dangle and a wrong pointer fixup breaks a list.  The     *)
(* hopper's current_ip() is the variable curIP; the hop itself is an       *)
(* environment step.  The hopper also keeps the previous interval's        *)
(* address, prevIP, and the director hands an external packet to NAT       *)
(* inbound only when it is addressed to one of the two (spec §4.3, §4.6). *)
(***************************************************************************)
EXTENDS Integers, Sequences, SequencesExt, FiniteSets, Bitwise, TLC

CONSTANTS
    Threads,         \* packet threads that call do_nat_*_rewrite
    Cleaner,         \* the thread running nat_cleanup_thread
    NoOwner,         \* natTableLock is free
    Free,            \* content of a heap cell that is not allocated
    None,            \* "no cell" / "no entry" in a thread's locals
    Cells,           \* heap cells malloc may return for a nat_entry
    IntIPs,          \* addresses of internal hosts (as the int memcpy'd from the header)
    IntPorts,        \* source ports internal hosts use
    ExtIPs,          \* addresses of external hosts
    ExtPorts,        \* ports of external hosts
    Protos,          \* IP protocol numbers
    HopIPs,          \* addresses current_ip() can return
    NAT_CLEAN_TIME,  \* seconds between sweeps and idle time before removal
    MaxTime,         \* bound on the clock (seconds)
    MallocMayFail,   \* whether malloc/copy_packet returning NULL is explored
    CaptureJoined    \* whether uninit_director waits for rewrites in progress

ASSUME /\ Cleaner \notin Threads
       /\ NoOwner \notin Threads \cup {Cleaner}
       /\ NAT_CLEAN_TIME \in Nat \ {0}
       /\ MaxTime \in Nat
       /\ MallocMayFail \in BOOLEAN

VARIABLES
    now,          \* wall clock, seconds
    curIP,        \* current_ip(): the gateway's hop address
    prevIP,       \* the hop address of the previous interval
    natTable,     \* key -> bucket [key, extIP, extPort, first]
    heap,         \* cell -> nat_entry record, or Free
    natTableLock, \* owner of natTableLock
    pc,           \* per packet thread: where it is in a rewrite
    pkt,          \* per packet thread: the packet being rewritten
    ref,          \* per packet thread: the nat_entry pointer e
    held,         \* per packet thread: the entry as seen under the lock
    cpc,          \* the cleanup thread's place in its loop
    sweepNow,     \* clean_nat_table's `now`, read before taking the lock
    headNull,     \* clean_nat_table's `b = natTable == NULL`, read before the lock
    wakeAt,       \* when sleep(NAT_CLEAN_TIME) returns
    opened,       \* history: mappings outbound rewrites have used
    phase,        \* shutdown: where arg_exit is in stopping the director and NAT
    emptyB        \* empty_nat_table's `b = natTable != NULL`, read before the lock

vars == <<now, curIP, prevIP, natTable, heap, natTableLock, pc, pkt, ref, held,
          cpc, sweepNow, headNull, wakeAt, opened, phase, emptyB>>

shutdownVars == <<phase, emptyB>>

-----------------------------------------------------------------------------
(* Data *)

\* The data of a nat_entry, as a packet thread copies it after the unlock.
EntryData == [intIP: IntIPs, intPort: IntPorts, gateIP: HopIPs,
              gatePort: IntPorts, proto: Protos]

Ptr == Cells \cup {None}

OutPackets == [saddr: IntIPs, sport: IntPorts, daddr: ExtIPs,
               dport: ExtPorts, proto: Protos]

\* A packet from outside may be addressed to any hop address and port.
InPackets == [saddr: ExtIPs, sport: ExtPorts, daddr: HopIPs,
              dport: IntPorts, proto: Protos]

\* create_nat_bucket_key: the four address bytes read as an int, xor the port.
create_nat_bucket_key(ip, port) == ip ^^ port

Keys == {create_nat_bucket_key(ip, port) : ip \in ExtIPs, port \in ExtPorts}

\* struct nat_entry: its data, lastUsed, and the traversal fields bucket
\* (as the bucket's key), next and prev.
Entry == [intIP: IntIPs, intPort: IntPorts, gateIP: HopIPs, gatePort: IntPorts,
          proto: Protos, lastUsed: 0..MaxTime, bucket: Keys, next: Ptr, prev: Ptr]

\* struct nat_entry_bucket.
Bucket == [key: Keys, extIP: ExtIPs, extPort: ExtPorts, first: Ptr]

Data(e) == [intIP |-> e.intIP, intPort |-> e.intPort, gateIP |-> e.gateIP,
            gatePort |-> e.gatePort, proto |-> e.proto]

\* Outcomes of a malloc or copy_packet: TRUE is success.
AllocOutcomes == IF MallocMayFail THEN BOOLEAN ELSE {TRUE}

FreeCells == {c \in Cells : heap[c] = Free}

NumCells == Cardinality(Cells)

\* The cells reached from e along next pointers, in order.  A walk stops at
\* NULL, at a freed cell (which it includes) or after NumCells cells, so a
\* corrupted list still yields a finite sequence.
RECURSIVE ListFrom(_, _, _)
ListFrom(h, e, fuel) ==
    IF e = None \/ fuel = 0 THEN <<>>
    ELSE IF h[e] = Free THEN <<e>>
    ELSE <<e>> \o ListFrom(h, h[e].next, fuel - 1)

\* The entries of bucket k, from bucket->first.
EntriesOf(k) == ListFrom(heap, natTable[k].first, NumCells)

LinkedCells == UNION {Range(EntriesOf(k)) : k \in DOMAIN natTable}

-----------------------------------------------------------------------------
(* Helpers of nat.c.  A table state st is [heap |-> ..., tbl |-> ...]. *)

\* Fault variant of create_nat_bucket: the source address is copied instead
\* of the destination (iph->saddr for iph->daddr).
create_nat_bucket_saddr(p, k) ==
    [key |-> k, extIP |-> p.saddr, extPort |-> p.dport, first |-> None]

\* create_nat_bucket: an empty bucket for the packet's destination.
create_nat_bucket(p, k) ==
    [key |-> k, extIP |-> p.daddr, extPort |-> p.dport, first |-> None]

\* create_nat_entry, filling in: gateway side is the current hop address
\* and the internal port itself ("TBD random port"); e->bucket, e->prev.
create_nat_entry(p, k) ==
    [intIP |-> p.saddr, intPort |-> p.sport, gateIP |-> curIP,
     gatePort |-> p.sport, proto |-> p.proto, lastUsed |-> now,
     bucket |-> k, next |-> None, prev |-> None]

\* Fault variant of the insertion: `oldHead->prev = e` forgotten.
InsertHeadNoPrev(st, k, c) ==
    [heap |-> [st.heap EXCEPT ![c].next = st.tbl[k].first],
     tbl  |-> [st.tbl EXCEPT ![k].first = c]]

\* create_nat_entry, insertion of cell c as head of bucket k:
\* bucket->first = e; e->next = oldHead; oldHead->prev = e.
InsertHead(st, k, c) ==
    LET old == st.tbl[k].first
        h   == [st.heap EXCEPT ![c].next = old]
    IN [heap |-> IF old # None THEN [h EXCEPT ![old].prev = c] ELSE h,
        tbl  |-> [st.tbl EXCEPT ![k].first = c]]

\* Fault variant of the outbound scan: the entry's intIP compared with the
\* packet's destination (iph->daddr) rather than its source.
OutboundMatchDaddr(e, p) ==
    /\ e.proto = p.proto
    /\ e.intPort = p.sport
    /\ e.intIP = p.daddr

\* The scan condition of do_nat_outbound_rewrite (internal side).
OutboundMatch(e, p) ==
    /\ e.proto = p.proto
    /\ e.intPort = p.sport
    /\ e.intIP = p.saddr

\* Fault variant of the inbound scan: the gateway address is not compared.
InboundMatchNoGateIP(e, p) ==
    /\ e.proto = p.proto
    /\ e.gatePort = p.dport

\* The scan condition of do_nat_inbound_rewrite (gateway side).
InboundMatch(e, p) ==
    /\ e.proto = p.proto
    /\ e.gatePort = p.dport
    /\ e.gateIP = p.daddr

\* The outbound walk: e = bucket->first; while e and no match, e = e->next.
RECURSIVE OutboundScan(_, _, _)
OutboundScan(e, p, fuel) ==
    IF e = None \/ fuel = 0 THEN None
    ELSE IF OutboundMatch(heap[e], p) THEN e
    ELSE OutboundScan(heap[e].next, p, fuel - 1)

\* The inbound walk, the same loop with the gateway-side test.
RECURSIVE InboundScan(_, _, _)
InboundScan(e, p, fuel) ==
    IF e = None \/ fuel = 0 THEN None
    ELSE IF InboundMatch(heap[e], p) THEN e
    ELSE InboundScan(heap[e].next, p, fuel - 1)

\* update_nat_entry_time
update_nat_entry_time(e) == [e EXCEPT !.lastUsed = now]

\* Fault variant of the age test: >= instead of >.
ExpiredAtTTL(e, tnow) == tnow - e.lastUsed >= NAT_CLEAN_TIME

\* The age test of clean_nat_table.
Expired(e, tnow) == tnow - e.lastUsed > NAT_CLEAN_TIME

\* remove_nat_entry: hook prev and next together, move bucket->first off e
\* if it points at e, free e; the result also carries e's saved next.
remove_nat_entry(st, e) ==
    LET n  == st.heap[e].next
        p  == st.heap[e].prev
        k  == st.heap[e].bucket
        h1 == IF p # None THEN [st.heap EXCEPT ![p].next = n] ELSE st.heap
        h2 == IF n # None THEN [h1 EXCEPT ![n].prev = p] ELSE h1
    IN [heap |-> [h2 EXCEPT ![e] = Free],
        tbl  |-> IF st.tbl[k].first = e THEN [st.tbl EXCEPT ![k].first = n]
                 ELSE st.tbl,
        next |-> n]

\* Fault variant of the sweep loop: after removing e it also steps over the
\* entry that took e's place (e = remove_nat_entry(e); e = e->next).
RECURSIVE SweepFromSkipNext(_, _, _, _)
SweepFromSkipNext(st, e, tnow, fuel) ==
    IF e = None \/ fuel = 0 THEN st
    ELSE IF Expired(st.heap[e], tnow)
         THEN LET r == remove_nat_entry(st, e)
              IN SweepFromSkipNext(r, IF r.next = None THEN None
                                      ELSE r.heap[r.next].next, tnow, fuel - 1)
         ELSE SweepFromSkipNext(st, st.heap[e].next, tnow, fuel - 1)

\* The inner loop of clean_nat_table over one bucket: an expired e is
\* removed and the walk goes on at the next that remove_nat_entry returns.
RECURSIVE SweepFrom(_, _, _, _)
SweepFrom(st, e, tnow, fuel) ==
    IF e = None \/ fuel = 0 THEN st
    ELSE IF Expired(st.heap[e], tnow)
         THEN LET r == remove_nat_entry(st, e)
              IN SweepFrom(r, r.next, tnow, fuel - 1)
         ELSE SweepFrom(st, st.heap[e].next, tnow, fuel - 1)

\* The bucket test of clean_nat_table: b->first == NULL.
BucketUnused(b) == b.first = None

\* remove_nat_bucket's loop: while(e != NULL) e = remove_nat_entry(e).
RECURSIVE RemoveEntriesFrom(_, _, _)
RemoveEntriesFrom(st, e, fuel) ==
    IF e = None \/ fuel = 0 THEN st
    ELSE LET r == remove_nat_entry(st, e) IN RemoveEntriesFrom(r, r.next, fuel - 1)

\* remove_nat_bucket: free every entry of bucket k, then HASH_DEL and free
\* the bucket.
remove_nat_bucket(st, k) ==
    LET r == RemoveEntriesFrom(st, st.tbl[k].first, NumCells)
    IN [heap |-> r.heap, tbl |-> [x \in DOMAIN r.tbl \ {k} |-> r.tbl[x]]]

\* clean_nat_table's outer loop, one bucket b after the other: sweep its
\* entries, then remove it if it is left empty.  Buckets share no entry, so
\* uthash's order of the buckets does not change the result.
RECURSIVE CleanBuckets(_, _, _)
CleanBuckets(st, ks, tnow) ==
    IF ks = {} THEN st
    ELSE LET k  == CHOOSE x \in ks : TRUE
             s1 == SweepFrom(st, st.tbl[k].first, tnow, NumCells)
             s2 == IF BucketUnused(s1.tbl[k]) THEN remove_nat_bucket(s1, k) ELSE s1
         IN CleanBuckets(s2, ks \ {k}, tnow)

\* empty_nat_table's loop: while(b != NULL) b = remove_nat_bucket(b).
RECURSIVE EmptyBuckets(_, _)
EmptyBuckets(st, ks) ==
    IF ks = {} THEN st
    ELSE LET k == CHOOSE x \in ks : TRUE
         IN EmptyBuckets(remove_nat_bucket(st, k), ks \ {k})

-----------------------------------------------------------------------------
(* Packet threads *)

\* The director's rule for external packets (spec §4.6 rule 4, with the
\* acceptance window of §4.3): only those addressed to hop(now) or
\* hop(now - 1) reach do_nat_inbound_rewrite.
DirectorAcceptsInbound(p) == p.daddr \in {curIP, prevIP}

\* Take natTableLock for a packet routed to NAT outbound or inbound.
LockForRewrite(t) ==
    /\ phase = "running"
    /\ pc[t] = "idle"
    /\ natTableLock = NoOwner
    /\ \/ \E p \in OutPackets : pkt' = [pkt EXCEPT ![t] = p]
                                /\ pc' = [pc EXCEPT ![t] = "out_locked"]
       \/ \E p \in InPackets : DirectorAcceptsInbound(p)
                               /\ pkt' = [pkt EXCEPT ![t] = p]
                               /\ pc' = [pc EXCEPT ![t] = "in_locked"]
    /\ natTableLock' = t
    /\ UNCHANGED <<now, curIP, prevIP, natTable, heap, ref, held, cpc, sweepNow,
                   headNull, wakeAt, opened>>
    /\ UNCHANGED shutdownVars

\* Give up under the lock (ENOMEM, BUCKET_NOT_FOUND, ENTRY_NOT_FOUND).
Abandon(t) ==
    /\ natTableLock' = NoOwner
    /\ pc' = [pc EXCEPT ![t] = "idle"]
    /\ pkt' = [pkt EXCEPT ![t] = None]

\* Found or created entry c in heap h, touched; lock released; go on to
\* the rewrite.
UseEntry(t, h, c, next) ==
    /\ heap' = [h EXCEPT ![c] = update_nat_entry_time(h[c])]
    /\ ref' = [ref EXCEPT ![t] = c]
    /\ held' = [held EXCEPT ![t] = Data(h[c])]
    /\ natTableLock' = NoOwner
    /\ pc' = [pc EXCEPT ![t] = next]

\* The locked part of do_nat_outbound_rewrite.
OutboundLookup(t) ==
    LET p   == pkt[t]
        k   == create_nat_bucket_key(p.daddr, p.dport)
        has == k \in DOMAIN natTable
        tbl == IF has THEN natTable
                      ELSE natTable @@ (k :> create_nat_bucket(p, k))
        e   == OutboundScan(tbl[k].first, p, NumCells)
    IN
    /\ pc[t] = "out_locked"
    /\ \/ \* create_nat_bucket returns NULL
          /\ ~has
          /\ FALSE \in AllocOutcomes
          /\ Abandon(t)
          /\ UNCHANGED <<natTable, heap, ref, held, opened>>
       \/ \* create_nat_entry returns NULL: a new bucket stays, empty
          /\ FALSE \in AllocOutcomes \/ FreeCells = {}
          /\ e = None
          /\ natTable' = tbl
          /\ Abandon(t)
          /\ UNCHANGED <<heap, ref, held, opened>>
       \/ /\ e # None
          /\ natTable' = tbl
          /\ UseEntry(t, heap, e, "out_rewrite")
          /\ pkt' = [pkt EXCEPT ![t] = None]
          /\ opened' = opened \cup
                {[int |-> <<p.saddr, p.sport, p.proto>>, ext |-> <<p.daddr, p.dport>>,
                  gate |-> <<heap[e].gateIP, heap[e].gatePort>>]}
       \/ /\ e = None
          /\ \E c \in FreeCells :
                LET st == InsertHead([heap |-> [heap EXCEPT ![c] = create_nat_entry(p, k)],
                                      tbl  |-> tbl], k, c)
                IN /\ natTable' = st.tbl
                   /\ UseEntry(t, st.heap, c, "out_rewrite")
                   /\ pkt' = [pkt EXCEPT ![t] = None]
          /\ opened' = opened \cup
                {[int |-> <<p.saddr, p.sport, p.proto>>, ext |-> <<p.daddr, p.dport>>,
                  gate |-> <<curIP, p.sport>>]}
    /\ UNCHANGED <<now, curIP, prevIP, cpc, sweepNow, headNull, wakeAt>>
    /\ UNCHANGED shutdownVars

\* The unlocked part of do_nat_outbound_rewrite: copy_packet, write the
\* entry's gateway address and port as source, send.  Every outcome
\* (copy fails, send fails, sent) leaves the table as it is.
OutboundSend(t) ==
    /\ pc[t] = "out_rewrite"
    /\ pc' = [pc EXCEPT ![t] = "idle"]
    /\ ref' = [ref EXCEPT ![t] = None]
    /\ held' = [held EXCEPT ![t] = None]
    /\ UNCHANGED <<now, curIP, prevIP, natTable, heap, natTableLock, pkt, cpc,
                   sweepNow, headNull, wakeAt, opened>>
    /\ UNCHANGED shutdownVars

\* The locked part of do_nat_inbound_rewrite.
InboundLookup(t) ==
    LET p == pkt[t]
        k == create_nat_bucket_key(p.saddr, p.sport)
        e == IF k \in DOMAIN natTable
             THEN InboundScan(natTable[k].first, p, NumCells)
             ELSE None
    IN
    /\ pc[t] = "in_locked"
    /\ \/ /\ e = None
          /\ Abandon(t)
          /\ UNCHANGED <<heap, ref, held>>
       \/ /\ e # None
          /\ UseEntry(t, heap, e, "in_rewrite")
          /\ UNCHANGED pkt
    /\ UNCHANGED <<now, curIP, prevIP, natTable, cpc, sweepNow, headNull, wakeAt,
                   opened>>
    /\ UNCHANGED shutdownVars

\* The unlocked part of do_nat_inbound_rewrite: copy_packet, write the
\* entry's internal address and port as destination, send inside.  Every
\* outcome (copy fails, send fails, sent) leaves the table as it is.
InboundSend(t) ==
    /\ pc[t] = "in_rewrite"
    /\ pc' = [pc EXCEPT ![t] = "idle"]
    /\ pkt' = [pkt EXCEPT ![t] = None]
    /\ ref' = [ref EXCEPT ![t] = None]
    /\ held' = [held EXCEPT ![t] = None]
    /\ UNCHANGED <<now, curIP, prevIP, natTable, heap, natTableLock, cpc,
                   sweepNow, headNull, wakeAt, opened>>
    /\ UNCHANGED shutdownVars

-----------------------------------------------------------------------------
(* The cleanup thread *)

\* clean_nat_table, before the lock: `b = natTable` and current_time(&now).
CleanStart ==
    /\ cpc = "clean"
    /\ sweepNow' = now
    /\ headNull' = (DOMAIN natTable = {})
    /\ cpc' = "sweep"
    /\ UNCHANGED <<now, curIP, prevIP, natTable, heap, natTableLock, pc, pkt, ref, held,
                   wakeAt, opened>>
    /\ UNCHANGED shutdownVars

\* clean_nat_table under the lock: unlink and free expired entries, then
\* remove buckets left empty.  A head read as NULL skips the whole sweep.
CleanSweep ==
    LET st == CleanBuckets([heap |-> heap, tbl |-> natTable], DOMAIN natTable, sweepNow)
    IN
    /\ cpc = "sweep"
    /\ natTableLock = NoOwner
    /\ IF headNull
       THEN UNCHANGED <<natTable, heap>>
       ELSE /\ natTable' = st.tbl
            /\ heap' = st.heap
    /\ cpc' = "print_lock"
    /\ UNCHANGED <<now, curIP, prevIP, natTableLock, pc, pkt, ref, held, sweepNow,
                   headNull, wakeAt, opened>>
    /\ UNCHANGED shutdownVars

\* nat_cleanup_thread: lock around print_nat_table.
PrintLock ==
    /\ cpc = "print_lock"
    /\ natTableLock = NoOwner
    /\ natTableLock' = Cleaner
    /\ cpc' = "print"
    /\ UNCHANGED <<now, curIP, prevIP, natTable, heap, pc, pkt, ref, held, sweepNow,
                   headNull, wakeAt, opened>>
    /\ UNCHANGED shutdownVars

\* print_nat_table has logged the table; unlock and sleep(NAT_CLEAN_TIME).
PrintUnlock ==
    /\ cpc = "print"
    /\ natTableLock' = NoOwner
    /\ wakeAt' = now + NAT_CLEAN_TIME
    /\ cpc' = "sleep"
    /\ UNCHANGED <<now, curIP, prevIP, natTable, heap, pc, pkt, ref, held, sweepNow,
                   headNull, opened>>
    /\ UNCHANGED shutdownVars

Wake ==
    /\ cpc = "sleep"
    /\ now >= wakeAt
    /\ cpc' = "clean"
    /\ UNCHANGED <<now, curIP, prevIP, natTable, heap, natTableLock, pc, pkt, ref, held,
                   sweepNow, headNull, wakeAt, opened>>
    /\ UNCHANGED shutdownVars

-----------------------------------------------------------------------------
(* Shutdown: arg_exit stops the director, then uninit_nat. *)

\* uninit_director (from arg_exit or the SIGINT handler): no new packet is
\* routed to NAT.  Its body is not in src/; spec §5 says only that capture
\* threads leave at their next loop iteration, so a rewrite already in
\* progress may still run.  CaptureJoined = TRUE assumes uninit_director
\* also waits for such rewrites to finish.
StopDirector ==
    /\ phase = "running"
    /\ CaptureJoined => \A t \in Threads : pc[t] = "idle"
    /\ phase' = "uninit_nat"
    /\ UNCHANGED <<now, curIP, prevIP, natTable, heap, natTableLock, pc, pkt, ref,
                   held, cpc, sweepNow, headNull, wakeAt, opened, emptyB>>

\* The cleanup thread's cancellation point: sleep().
CancelPoint(c) == c = "sleep"

\* uninit_nat: pthread_cancel, then pthread_join, which returns once the
\* cleanup thread reaches a cancellation point; natCleanupThread = 0.
UninitCancelJoin ==
    /\ phase = "uninit_nat"
    /\ CancelPoint(cpc)
    /\ cpc' = "cancelled"
    /\ phase' = "empty_start"
    /\ UNCHANGED <<now, curIP, prevIP, natTable, heap, natTableLock, pc, pkt, ref,
                   held, sweepNow, headNull, wakeAt, opened, emptyB>>

\* empty_nat_table, before the lock: b = natTable.
EmptyStart ==
    /\ phase = "empty_start"
    /\ emptyB' = (DOMAIN natTable # {})
    /\ phase' = "empty_lock"
    /\ UNCHANGED <<now, curIP, prevIP, natTable, heap, natTableLock, pc, pkt, ref,
                   held, cpc, sweepNow, headNull, wakeAt, opened>>

\* empty_nat_table under the lock: while(b) b = remove_nat_bucket(b);
\* then unlock; uninit_nat destroys natTableLock.  A head read as NULL
\* leaves the table as it is.
EmptyNatTable ==
    LET st == EmptyBuckets([heap |-> heap, tbl |-> natTable], DOMAIN natTable)
    IN
    /\ phase = "empty_lock"
    /\ natTableLock = NoOwner
    /\ IF emptyB
       THEN /\ natTable' = st.tbl
            /\ heap' = st.heap
       ELSE UNCHANGED <<natTable, heap>>
    /\ phase' = "done"
    /\ UNCHANGED <<now, curIP, prevIP, natTableLock, pc, pkt, ref, held, cpc,
                   sweepNow, headNull, wakeAt, opened, emptyB>>

\* NAT is uninitialised; the process goes on to uninit_hopper and exits.
Halted ==
    /\ phase = "done"
    /\ UNCHANGED vars

-----------------------------------------------------------------------------
(* Environment: time passes, the hopper moves the gateway address. *)

Tick ==
    /\ now < MaxTime
    /\ now' = now + 1
    /\ UNCHANGED <<curIP, prevIP, natTable, heap, natTableLock, pc, pkt, ref, held,
                   cpc, sweepNow, headNull, wakeAt, opened>>
    /\ UNCHANGED shutdownVars

Hop ==
    /\ \E a \in HopIPs \ {curIP} : curIP' = a
    /\ prevIP' = curIP
    /\ UNCHANGED <<now, natTable, heap, natTableLock, pc, pkt, ref, held,
                   cpc, sweepNow, headNull, wakeAt, opened>>
    /\ UNCHANGED shutdownVars

-----------------------------------------------------------------------------

Init ==
    /\ now = 0
    /\ curIP \in HopIPs
    /\ prevIP \in HopIPs
    /\ natTable = [k \in {} |-> None]
    /\ heap = [c \in Cells |-> Free]
    /\ natTableLock = NoOwner
    /\ pc = [t \in Threads |-> "idle"]
    /\ pkt = [t \in Threads |-> None]
    /\ ref = [t \in Threads |-> None]
    /\ held = [t \in Threads |-> None]
    /\ cpc = "clean"
    /\ sweepNow = 0
    /\ headNull = TRUE
    /\ wakeAt = 0
    /\ opened = {}
    /\ phase = "running"
    /\ emptyB = FALSE

Next ==
    \/ \E t \in Threads :
          \/ LockForRewrite(t)
          \/ OutboundLookup(t)
          \/ OutboundSend(t)
          \/ InboundLookup(t)
          \/ InboundSend(t)
    \/ CleanStart \/ CleanSweep \/ PrintLock \/ PrintUnlock \/ Wake
    \/ StopDirector \/ UninitCancelJoin \/ EmptyStart \/ EmptyNatTable \/ Halted
    \/ Tick \/ Hop

Spec == Init /\ [][Next]_vars

-----------------------------------------------------------------------------
(* Properties *)

Mapping == [int: IntIPs \X IntPorts \X Protos, ext: ExtIPs \X ExtPorts,
            gate: HopIPs \X IntPorts]

TypeOK ==
    /\ now \in 0..MaxTime
    /\ {curIP, prevIP} \subseteq HopIPs
    /\ DOMAIN natTable \subseteq Keys
    /\ \A k \in DOMAIN natTable : natTable[k] \in Bucket /\ natTable[k].key = k
    /\ heap \in [Cells -> Entry \cup {Free}]
    /\ natTableLock \in Threads \cup {Cleaner, NoOwner}
    /\ pc \in [Threads -> {"idle", "out_locked", "in_locked", "out_rewrite", "in_rewrite"}]
    /\ ref \in [Threads -> Cells \cup {None}]
    /\ held \in [Threads -> EntryData \cup {None}]
    /\ cpc \in {"clean", "sweep", "print_lock", "print", "sleep", "cancelled"}
    /\ opened \subseteq Mapping
    /\ phase \in {"running", "uninit_nat", "empty_start", "empty_lock", "done"}
    /\ emptyB \in BOOLEAN

\* Each bucket's entries form a well-formed doubly linked list: walking
\* next from bucket->first meets only allocated entries that name this
\* bucket, each entry's prev is the entry before it (NULL for the head),
\* and the walk ends at NULL.  No entry is in two lists, and every
\* allocated entry is in one.  This is what the pointer fixups of
\* create_nat_entry and remove_nat_entry, run by the rewrites, the sweep
\* and empty_nat_table, must keep true, or a later walk leaks an entry,
\* loops, or follows a freed one.
EntriesOwnedByBuckets ==
    /\ \A k \in DOMAIN natTable :
          LET l == EntriesOf(k) IN
          /\ IsInjective(l)
          /\ \A i \in DOMAIN l :
                /\ heap[l[i]] # Free
                /\ heap[l[i]].bucket = k
                /\ heap[l[i]].prev = IF i = 1 THEN None ELSE l[i - 1]
          /\ l # <<>> => heap[l[Len(l)]].next = None
    /\ \A k1, k2 \in DOMAIN natTable :
          k1 # k2 => Range(EntriesOf(k1)) \cap Range(EntriesOf(k2)) = {}
    /\ LinkedCells = {c \in Cells : heap[c] # Free}

\* Within a bucket no two entries share (intIP, intPort, proto): the scan of
\* do_nat_outbound_rewrite finds an existing entry before one is created.
IntSideUnique ==
    \A k \in DOMAIN natTable :
       \A i, j \in DOMAIN EntriesOf(k) :
          LET a == heap[EntriesOf(k)[i]]
              b == heap[EntriesOf(k)[j]]
          IN i # j => <<a.intIP, a.intPort, a.proto>> # <<b.intIP, b.intPort, b.proto>>

\* Return-path NAT: a packet from external endpoint x to gateway address g
\* is rewritten to internal endpoint h only if an outbound rewrite of h's
\* traffic to x went out from g.
InboundReturnsToContactingHost ==
    \A t \in Threads :
       pc[t] = "in_rewrite" =>
          [int  |-> <<held[t].intIP, held[t].intPort, pkt[t].proto>>,
           ext  |-> <<pkt[t].saddr, pkt[t].sport>>,
           gate |-> <<pkt[t].daddr, pkt[t].dport>>] \in opened

\* Every outbound rewrite takes as source a gateway address the director
\* still hands to NAT inbound when it looks the entry up (hop(now) or
\* hop(now - 1)), so the reply to the packet can be rewritten back to the
\* internal host (spec §8: outbound NAT followed by return-path inbound NAT
\* restores the original).  The entry's gateIP is set once, by
\* create_nat_entry, and reused on every later lookup.
RepliesReachNatInbound ==
    [][\A t \in Threads :
          pc[t] = "out_locked" /\ pc'[t] = "out_rewrite" =>
             held'[t].gateIP \in {curIP, prevIP}]_vars

\* After a sweep, until the next one starts, the table holds no entry that
\* was already older than NAT_CLEAN_TIME when the sweep read the clock.
ExpiredEntriesSwept ==
    cpc \in {"print_lock", "print", "sleep"} =>
       \A c \in LinkedCells : ~Expired(heap[c], sweepNow)

\* The refinement mapping: each linked entry is the mapping from its
\* internal endpoint and its bucket's external endpoint to its gateway
\* endpoint.  Buckets, lists, cells, the lock and the packet threads'
\* locals are hidden.
AbsMappings ==
    UNION {{[int |-> <<heap[c].intIP, heap[c].intPort, heap[c].proto>>,
             ext |-> <<natTable[k].extIP, natTable[k].extPort>>,
             gate |-> <<heap[c].gateIP, heap[c].gatePort>>,
             lastUsed |-> heap[c].lastUsed] : c \in Range(EntriesOf(k))}
           : k \in DOMAIN natTable}

Abs == INSTANCE NatMapping WITH mappings <- AbsMappings, up <- phase # "done"

\* The NAT table implements the abstract NAT: every rewrite step opens,
\* uses or leaves the mappings as NatMapping allows, and the sweep of
\* clean_nat_table (with its `now` read before the lock) only removes
\* mappings idle for longer than NAT_CLEAN_TIME.
NatTableImplementsNatMapping == Abs!Spec

\* A packet thread that has released natTableLock still reads its entry
\* (nat.c copies e->intIP/e->gateIP after the unlock): that entry must not
\* have been freed, or freed and handed out again, in between.
NoUseAfterFree ==
    \A t \in Threads :
       pc[t] \in {"out_rewrite", "in_rewrite"} =>
          /\ heap[ref[t]] # Free
          /\ Data(heap[ref[t]]) = held[t]

=============================================================================
