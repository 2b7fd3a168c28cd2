# TLA+ models of the Address Routing Gateway (ARG)

These modules model the parts of the ARG gateway whose source is in `src/`:
- the NAT table (`nat.c`, `nat.h`) with its cleanup thread, and an abstract NAT that the table is shown to implement;
- the process lifecycle (`init.c`) that starts and stops it;
- the configuration reader (`settings.c`) that builds the list of peer gates.

One module is modelled from `spec.md`, because its code is not in the repository: the protocol engine's sequence-number replay check (§4.5). They are all checked with TLC.

## The system and its parts

| Part | Source | State | Operations | Interacts with |
|---|---|---|---|---|
| NAT table | `nat.c`, `nat.h` | `natTable`, a uthash table of buckets keyed by `extIP ^ extPort`. Each bucket holds a doubly linked list of `nat_entry` (internal, gateway and external endpoint, protocol, `lastUsed`). The table is guarded by `natTableLock`. | `do_nat_outbound_rewrite` and `do_nat_inbound_rewrite` on packet threads. `nat_cleanup_thread` runs `clean_nat_table`, then `print_nat_table` under the lock, then `sleep`. | The hopper (`current_ip()` gives the gateway address for new entries) and the director (routes packets here) |
| Lifecycle | `init.c`, `nat.c` | The mutex state, the cleanup thread handle `natCleanupThread`, the director and hopper up/down | `main`, `arg_init` with its failure paths, `arg_exit`, `sig_handler`, `init_nat_locks`, `init_nat`, `uninit_nat`, `empty_nat_table` | Every subsystem |
| Configuration | `settings.c`, `settings.h` | `config_data` and the gate list built from the `.pub` files of a directory | `read_config`, `get_next_line`, `read_public_key`, `read_private_key` | The hopper and the director, via `arg_init` |
| Protocol, hopper, director, crypto | `protocol.h` only | The per-peer `proto_data` (`inSeqNum`, `outSeqNum`) and the `ARG_DO_*` state bits | Their implementation is not in the repository. Spec §4.5 describes the replay check on `seq`. | Peers, over the network |

### Behaviours that are hard to test

- **The NAT table is read outside the lock.** Each rewrite releases `natTableLock` and then reads the entry: `nat.c:113` on the inbound path and `nat.c:197` on the outbound path. `clean_nat_table` reads the table head and the clock before it takes the lock (`nat.c:414`, `nat.c:417`).
- **Collisions.** The bucket key `ip ^ port` collides between external endpoints, and the inbound scan never checks the bucket's external address.
- **Shared gateway ports.** Port preservation (`gatePort = intPort`, marked "TBD" in the code) lets two internal hosts share one gateway endpoint. No run checks it (see `hazards`).
- **Partial failure.** A malloc can fail between creating a bucket and creating its entry.
- **Cancellation.** The cleanup thread is cancelled with deferred cancellation. A cancellation point inside `print_nat_table` (arglog's `write`) is reached while the lock is held.
- **Ignored init failure.** `main` ignores `arg_init`'s result, so teardown runs twice after a failed start.
- **Configuration corner cases.** A directory without a `.pub` file, or a calloc failure in the scan between two that succeed (`settings.c:118`, `settings.c:137`).
- **Stale gateway address.** An entry's `gateIP` is fixed at creation (`nat.c:299`) while the hopper moves on, and the director only accepts the last two hop addresses.
- **Shutdown.** `empty_nat_table` reads the table head before taking the lock (`nat.c:335`). That is safe only if no rewrite is still running after `uninit_director`, whose body is not in `src/`.
- **Sequence-number wrap.** The replay check near `2^32` (`settings.h:31`), against an attacker that replays, reorders and drops frames.

The project lists these in `PROJECT.json` under `hazards`, with the properties that cover each one.

## Modules

### `NatTable.tla`, the NAT table and its cleanup thread

**State**

| Variable | Models |
|---|---|
| `natTable` | A function from bucket key to bucket record. A bucket's `first` points to a heap cell or is `None`. |
| `heap` | Cells holding an `Entry` or `Free`. This models malloc, free and the reuse of freed memory. An `Entry` carries the code's `bucket`, `next` and `prev` fields, so the lists are the pointer structure of `nat.h`, and `ListFrom` walks it from `first` along `next`. |
| `natTableLock` | The owner of the lock. |
| `pc`, `pkt`, `ref`, `held` | Per packet thread: the program counter, the packet, the entry pointer `e`, and the entry contents the thread saw under the lock. |
| `cpc`, `sweepNow`, `headNull`, `wakeAt` | The cleanup thread: its program counter, the `now` and `b` it read before locking, and the end of its `sleep`. |
| `curIP`, `prevIP` | The hopper's current address, and the one of the previous hop interval. The director hands NAT inbound only packets addressed to one of the two (spec §4.3, §4.6 rule 4: `DirectorAcceptsInbound`). |
| `now` | `current_time`, in whole `NAT_CLEAN_TIME` units. |
| `opened` | History: every mapping an outbound rewrite has used. |
| `phase`, `emptyB` | Shutdown: how far `arg_exit` has got in stopping the director and NAT, and `empty_nat_table`'s `b != NULL`, read before the lock. |

**Actions**

Each rewrite is split at `pthread_mutex_unlock`:

| Action | Models |
|---|---|
| `LockForRewrite` | The lock at lines 69 and 145. An inbound packet reaches it only if `DirectorAcceptsInbound` holds. |
| `OutboundLookup`, `InboundLookup` | Everything under the lock: the key, `HASH_FIND`, `create_nat_bucket`, the scan along `next` (`OutboundScan`, `InboundScan`), `create_nat_entry` with its head insertion (`InsertHead`: `e->next`, `oldHead->prev`, `bucket->first`), `update_nat_entry_time`, and every `ENOMEM` and `NOT_FOUND` return. |
| `OutboundSend`, `InboundSend` | The unlocked tail (copy, rewrite, send). It leaves the table alone. |
| `CleanStart` | The reads before the lock. |
| `CleanSweep` | The locked sweep. `CleanBuckets` visits each bucket; `SweepFrom` walks its list, calling `remove_nat_entry` (with its `prev`/`next`/`first` fixups) on expired entries and following `e->next` otherwise; an empty bucket goes through `remove_nat_bucket`. uthash's bucket order is not modelled: each bucket's walk touches only its own list. |
| `PrintLock`, `PrintUnlock`, `Wake` | The rest of `nat_cleanup_thread`'s loop. |
| `StopDirector` | `uninit_director`, modelled from spec §5, since its body is absent. No packet is routed to NAT afterwards. With `CaptureJoined = TRUE` it waits until no rewrite is in progress; with `FALSE` a rewrite already under way goes on. |
| `UninitCancelJoin` | `uninit_nat`'s `pthread_cancel` and `pthread_join`. The join returns once the cleanup thread is at its cancellation point, `sleep` (`CancelPoint`). |
| `EmptyStart`, `EmptyNatTable`, `Halted` | `empty_nat_table`: `b = natTable` before the lock, then, under the lock, `EmptyBuckets` runs `remove_nat_bucket` on each bucket, which walks `RemoveEntriesFrom` (`remove_nat_entry` until `next` is NULL) and deletes the bucket. Then the mutex is destroyed. |
| `Tick`, `Hop` | The environment. `Hop` moves `curIP` to a new address and the old one to `prevIP`. |

### `ArgLifecycle.tla`, start-up and shutdown

- The main thread runs through `main` → `arg_init` (every failure return) → `join_director` → `arg_exit`.
- `uninit_nat` is split into four steps: `UninitCancel`, `UninitJoin`, `EmptyNatTable` and `UninitDestroy`. `CallUninitNat` records where it returns to.
- The cleanup thread goes through its loop, and `CleanerCancelled` acts at cancellation points: `sleep`, and `print_nat_table` when `CancelPointInPrint` holds.
- `SigInt` is the signal handler. It can fire at any moment before `main` returns.
- NAT table contents are abstracted away. Only the lock and the thread matter here.

### `ConfigList.tla`, reading the configuration and the gate list

**State**

| Variable | Models |
|---|---|
| `file`, `filePos` | The configuration file and the `FILE` position. A line is a record `[text, cr]`: its contents, and whether it ended in `\r\n` rather than `\n`. |
| `field`, `ourGateName` | Which of the four lines `read_config` reads next, and `conf->ourGateName`. |
| `seen` | The entries `readdir` has returned so far. A directory entry is a record: its name, whether it starts with `.`, its length, whether it ends in `.pub`, and the name without `.pub`. |
| `heap`, `confGate`, `currGate`, `prevGate` | `calloc`ed `gate_list` nodes, `conf->gate`, and the two loop pointers. |
| `relCurr` | `release_config`'s `curr`. |
| `listed`, `callocFailed` | History: the list as `read_config` returned it, and whether a calloc failed. |

**Actions**

| Action | Models |
|---|---|
| `ReadConfigStart` | Lines 28-55. |
| `GetField` | One of the four `get_next_line` calls, with its `-ARG_CONFIG_BAD` return. |
| `OpenDir` | `opendir` and its `-1` return. |
| `ReadDirEntry`, `FoundGate` | One `readdir`, the hidden-file, length and `.pub` tests, then calloc, link and name copy. |
| `Terminate` | `currGate->next = NULL; return 0`. It faults when `currGate` is NULL. |
| `ReleaseStart`, `ReleaseLoop`, `ReleaseEnd` | `release_config`'s walk. |

`get_next_line` is the operator that skips blank lines. It uses `SelectInSubSeq` from SequencesExt. The gate list is read from the heap by the recursive operator `ListFrom`.

### `NatMapping.tla`, the abstract NAT, and the refinement

`NatMapping` is a set of mappings. Each ties an internal endpoint and an external endpoint to a gateway endpoint, with a `lastUsed` time.
- Outbound uses or opens a mapping from the current hop address.
- Inbound follows a mapping.
- A mapping is removed only once it has been idle for longer than `NAT_CLEAN_TIME`.
- `Close` drops every mapping at shutdown. After it, no packet is rewritten (`up` is false).

`Inbound` chooses the external endpoint among the mappings, since the abstract NAT has no packet variable. The refinement therefore does not check that an inbound packet's source matches its mapping. `InboundReturnsToContactingHost` checks that, in `nat_core` and in `nat_key_collision`.

`NatTable` defines `AbsMappings`, which flattens buckets and entry cells into that set. It then checks `NatTableImplementsNatMapping == Abs!Spec`, where `Abs == INSTANCE NatMapping WITH mappings <- AbsMappings, up <- phase # "done"`. `EmptyNatTable` is the step that implements `Close`. Every other step of the table is a stuttering step of the abstract NAT: the unlocked halves, the lock, the cleanup thread's reads, printing and sleep.

### `ProtocolSeq.tla`, the replay check on sequence numbers (from spec §4.5)

**State**
- The sender's `outSeqNum` and the receiver's `inSeqNum`.
- The frames sent, and `net`: the frames an attacker can still deliver. A frame stays deliverable after its first delivery, so it can be replayed.
- History variables: the last accepted frame, whether a stale frame was accepted, and the distance (in sends) of each rejected newer frame.

**Actions**
- `Send` allocates `(outSeqNum + 1) % 2^Bits`.
- `Lose` drops an uncaptured frame.
- `Receive` applies `AcceptSeq` and updates `inSeqNum` on accept.

**Constants**
- `Bits` is the width of the numbers: 32 in the code, 3 in the runs.
- `WRAP` is `SEQ_NUM_WRAP_ALLOWANCE`: 10 in the code, 2 in the runs.

## Runs

| Run | Config | Expect | Shows |
|---|---|---|---|
| `nat_core` | `MCNatTable.cfg` | pass | Every bucket's list stays a well-formed doubly linked list of allocated entries that name the bucket, and every allocated entry is on exactly one list (`EntriesOwnedByBuckets`). This depends on the pointer fixups of `create_nat_entry` and `remove_nat_entry`. The table never holds two entries for one internal endpoint (`IntSideUnique`). An inbound rewrite only follows a mapping an outbound rewrite used (`InboundReturnsToContactingHost`). Each sweep removes every expired entry even though `b` and `now` are read before the lock (`ExpiredEntriesSwept`). The table implements the abstract NAT (`NatTableImplementsNatMapping`): no sweep removes a mapping idle for `NAT_CLEAN_TIME` or less despite the stale `now`, and at shutdown every mapping is gone. The shutdown part holds under `CaptureJoined = TRUE`. |
| `nat_shutdown_race` | `MCNatTable_ShutdownRace.cfg` | violation | With `CaptureJoined = FALSE`, a rewrite holds the lock while `empty_nat_table` reads `b = natTable` as NULL (`nat.c:335`). The rewrite then creates the first bucket, and `uninit_nat` returns with the table full, which the abstract `Close` forbids. |
| `nat_key_collision` | `MCNatTable_KeyCollision.cfg` | violation | With external endpoints whose keys collide, a reply from an endpoint nobody contacted is let in (`nat.c:86`). |
| `nat_use_after_free` | `MCNatTable_UseAfterFree.cfg` | violation | A delayed rewrite reads an entry that the sweep has freed (`nat.c:113`, `nat.c:197`). |
| `lifecycle` | `MCArgLifecycle.cfg` | pass | On every start-up path the cleanup thread is joined before `natTableLock` is destroyed. Once the director stops, `main` returns. |
| `lifecycle_cancel_in_print` | `MCArgLifecycle_CancelInPrint.cfg` | violation | If logging is a cancellation point, shutdown hangs in `empty_nat_table` (`nat.c:399`). |
| `lifecycle_init_failure` | `MCArgLifecycle_InitFailure.cfg` | violation | After `init_director` fails, `uninit_nat` runs again on a destroyed mutex (`init.c:133`). |
| `config_core` | `MCConfigList.cfg` | pass | `read_config`'s list holds gate names of `.pub` files, in `readdir` order, each once (`GatesInDirOrder`). Our own gate is listed if its key file is there and no calloc failed (`OurGateListed`). `release_config` frees every node (`ReleaseFreesList`). |
| `config_no_key_file` | `MCConfigList_NoKeyFile.cfg` | violation | A directory without a `.pub` file, or a failed last calloc, makes `currGate->next = NULL` dereference NULL (`settings.c:137`). |
| `config_calloc_fail` | `MCConfigList_CallocFail.cfg` | violation | The directory holds `g.pub`, `gw2.pub` and `gw4.pub`. `g.pub` is listed, calloc fails for `gw2.pub`, and `gw4.pub`'s node is allocated, named and linked nowhere, because `prevGate` is NULL (`settings.c:122`, `settings.c:128`). `read_config` still returns 0 (`AllocatedGatesListed`). |
| `seq_core` | `MCProtocolSeq.cfg` | pass | While the sender's numbers stay below the wrap window, every replayed or reordered frame is dropped (`NoReplayBeforeWrap`). A frame fewer than `WRAP` sends after the last accepted one is accepted, across the wrap too and after any replays (`WrapWithinWindowAccepted`). |
| `nat_stale_gate` | `MCNatTable_StaleGate.cfg` | violation | An entry keeps the `gateIP` it was created with (`nat.c:299`), and every later outbound rewrite reuses it as the source address (`nat.c:197`). After two hops, that address is neither `hop(now)` nor `hop(now-1)`, so the director drops the reply before NAT inbound sees it (`RepliesReachNatInbound`). Spec §8 promises that a reply on an open mapping is delivered. |

`PROJECT.json` records the findings these violations stand for.

### Bounds

`nat_core` uses:
- one packet thread and two heap cells;
- two internal addresses, one internal port, one protocol;
- two gateway addresses, one external address, two external ports;
- `NAT_CLEAN_TIME = 1`, `MaxTime = 2`;
- `MallocMayFail = TRUE`.

Why these are enough:
- Two cells are enough for the second allocation to fail for lack of memory, for two entries in one bucket, and for a freed cell to be reused.
- Two time units let an entry expire, be swept, and be recreated: an entry last used at 0 has expired at 2.
- The refinement property is checked on the same state space.
- One packet thread is enough for the table properties, because every table change is atomic under the lock. The cleanup thread still interleaves at each of its steps, including between its unlocked reads and its lock.
- The use-after-free needs only one packet thread that stalls past a sweep after its unlock, but the freed cell is handed out again only if a rewrite reuses it. Its config uses two threads, so the reuse is reached too, and stops at the first counterexample.
- `nat_shutdown_race` needs one packet thread holding the lock with the table empty when `empty_nat_table` starts.
- `nat_stale_gate` uses three hop addresses (`MCHopIPs3`), the fewest for which two hops move both `curIP` and `prevIP` off the first address, and `MaxTime = 1`, so the entry is reused without expiring first.
- The external sets of `MCNatTable` have injective keys. The key-collision run swaps in `MCCollidingExtIPs`, where `1^2 = 2^1`.

`SYMMETRY` permutes threads and heap cells. No property names a particular thread or cell.

`config_core` uses:
- files of up to 5 lines over the texts `g` and `eth2`, with blank lines;
- directory listings of up to 3 of these 5 entries: `.`, `g.pub`, `gw2.pub`, `.gw3.pub`, `g.priv`;
- two heap cells, with calloc allowed to fail.

Why these are enough:
- Five lines hold the four fields with a blank line before the first.
- `g.pub` has exactly 5 characters, the shortest name the length test `len < 5` lets through.
- The hidden and `.priv` entries exercise the other two skips.
- Three entries with two cells reach two linked gates, a calloc failure between them, and running out of cells.
- `config_calloc_fail` takes the three `.pub` entries of `MCThreePeers`, the fewest for which a gate follows a failed calloc that itself follows a success. Two cells hold the two successful nodes.
- Files use LF endings. With CRLF endings `OurGateListed` fails, because the gate name keeps its `\r` (hazard `settings.c:259`).

`seq_core` uses:
- 3-bit numbers, `WRAP = 2`, and 9 frames, so the sender wraps once (frame 8 has seq 0);
- a network that loses frames and replays any frame it has seen.

Scaling `2^32` and 10 down to 8 and 2 keeps the check's shape. The window still sits at the top end, and the accepted low values still sit below `WRAP`.

### Fairness

`ArgLifecycle` assumes weak fairness of the main thread and of the cleanup thread. Both are ordinary pthreads, and neither waits on anything except the mutex, `pthread_join` and `sleep`.

The signal and the director's failure are environment choices and get no fairness. `ShutdownCompletes` is therefore stated from the moment the director has stopped.

`NatTable` checks safety properties, and its refinement of `NatMapping` needs no fairness (`Abs!Spec` is a safety specification). `ConfigList` and `ProtocolSeq` are sequential or attacker-driven and check safety only.

## Plan

Done:
1. `NatTable` and `ArgLifecycle`.
2. `ConfigList` (`read_config`, `get_next_line`, `release_config`).
3. `NatMapping`, and `NatTable`'s refinement of it.
4. `ProtocolSeq`, modelled from the spec.

5. Gate address staleness: `NatTable` composed with the director's acceptance window (`nat_stale_gate`).
6. The NAT shutdown path (`uninit_nat`, `empty_nat_table`, `remove_nat_bucket`), with an abstract `Close` in `NatMapping`, and its race with a rewrite in progress (`nat_shutdown_race`).
7. Entry lists as the code's pointers (`bucket`, `next`, `prev`), so the fixups of `create_nat_entry` and `remove_nat_entry` are checked.

Next, in order:
1. **Larger instances.** Two packet threads in `nat_core`. With two threads, no malloc failure and `MaxTime = 1`, TLC reaches 718,040 states. But no entry can expire then. With `MaxTime = 2`, the state space passes 4.3 million states after four minutes, beyond a five-minute run. A two-thread run needs a coarser clock or a symmetry on the address sets first.

## Not modelled

- **Packet bytes, checksums, logging, crypto.** Packet bytes and checksums are pure data. Logging matters only as a cancellation point, which is a constant of `ArgLifecycle`. Crypto is not in the repository.
- **The hopper, director and protocol implementations.** They are absent. Only their calls from `init.c` and `current_ip()` appear, plus the replay check that `ProtocolSeq` takes from the spec.
- **`settings.c` does not compile as it stands.** It writes `conf->intDev` and `conf->extDev`, which are not fields of `config_data`. `settings.h` also declares `read_config`, `read_public_key`, `read_private_key` and `get_next_line` as returning `char`, where `settings.c` defines them as `int`. `ConfigList` models the code as written: the two device lines are read and dropped.
- **`read_public_key` and `read_private_key`.** They pass file contents to mbedTLS's mpi and RSA readers. This is parsing with no gateway state to check.
- **The callers of `read_public_key` and `read_private_key`.** They are not in `src/`. `read_public_key` leaks its `FILE` when `mpi_read_file` fails (`settings.c:197`). This is listed as a hazard, without a run.
- **Long lines.** `fgets` splits a line longer than `MAX_CONF_LINE` (300) into several. The model's lines are whole records.
- **The handshake over `ARG_DO_*`.** The code that sets and tests these bits is absent. (`protocol.h` aliases `ARG_DO_PING` to `ARG_DO_AUTH` and `ARG_DO_CONN` to `ARG_DO_TIME`, apparently on purpose.)
- **Nonce reuse after a wrap.** `seq = (outSeqNum + 1) % 2^32` repeats after `2^32` sends. That is arithmetic, not a property of any interleaving. The nonce derivation and any rekeying are absent.
- **A wrap whose gap exceeds the window.** Spec line 218 requires such a frame to be rejected, and `ProtocolSeq` does so. The rejection lasts until `seq` passes `inSeqNum` again, nearly `2^32` frames. This is recorded as a hazard, not as a finding. The same holds for a captured frame replayed once the sender's numbers have wrapped: `seq > inSeqNum` accepts it again. `NoReplayBeforeWrap` is stated only up to the wrap, and the run list keeps the NAT findings instead of a run for this.
- **`NAT_OLD_CONN_TIME`.** `settings.h` defines it, but the code never uses it. The sweep uses `NAT_CLEAN_TIME`, and the model follows the code.
