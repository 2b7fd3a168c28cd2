---------------------------- MODULE ArgLifecycle ----------------------------
(***************************************************************************)
(* Start-up and shutdown of the gateway process (src/init.c) and of the    *)
(* NAT subsystem it drives (init_nat_locks, init_nat, uninit_nat,          *)
(* empty_nat_table and the cleanup thread of src/nat.c).                   *)
(*                                                                         *)
(* The NAT table's contents are abstracted away: what matters here is      *)
(* natTableLock (its owner and whether it is initialised or destroyed),    *)
(* the cleanup thread's place in its loop, and pthread cancellation, which *)
(* takes effect only at a cancellation point: sleep(), and, when the       *)
(* build's arglog writes its output, the logging inside print_nat_table,   *)
(* which runs with natTableLock held.                                      *)
(*                                                                         *)
(* The hopper and the director have no source in the repository; they     *)
(* appear only as the results of their init calls and as the director      *)
(* running until SIGINT stops it (spec §5).                                *)
(***************************************************************************)
EXTENDS Naturals

CONSTANTS
    NoOwner,           \* natTableLock is free
    CancelPointInPrint \* arglog inside print_nat_table reaches write()

ASSUME CancelPointInPrint \in BOOLEAN

VARIABLES
    mainPc,      \* main thread: where it is in main / arg_init / arg_exit
    natRet,      \* where uninit_nat returns to
    lockState,   \* natTableLock: "uninit", "ready" or "destroyed"
    natLock,     \* owner of natTableLock: NoOwner, "main" or "cleaner"
    cleaner,     \* cleanup thread: "none", "start", "clean", "print_lock",
                 \* "print", "sleep" or "dead"
    cancelReq,   \* pthread_cancel has been called on the cleanup thread
    natCleanupThread, \* the pthread_t handle: 0, or CleanupTid once created
    director,    \* "off", "running" or "stopped"
    hopper,      \* "off" or "on"
    sigReceived  \* SIGINT has been delivered

vars == <<mainPc, natRet, lockState, natLock, cleaner, cancelReq, natCleanupThread,
          director, hopper, sigReceived>>

\* A created thread's handle (any non-zero pthread_t) and pthread_create's
\* error code when it cannot create one.
CleanupTid == 1
EAGAIN == 11

MainPcs == {"args", "init_locks", "read_config", "init_hopper", "init_nat",
            "init_director", "finish", "exit_hopper_init", "join", "exit",
            "exit_hopper",
            "un_cancel", "un_join", "un_empty", "un_destroy", "done"}

\* Call uninit_nat, to return to `ret`.
CallUninitNat(ret) ==
    /\ mainPc' = "un_cancel"
    /\ natRet' = ret

-----------------------------------------------------------------------------
(* main / arg_init *)

\* main: argc must be 2 or 3, otherwise print usage and return 1.
CheckArgs ==
    /\ mainPc = "args"
    /\ \E ok \in BOOLEAN : mainPc' = IF ok THEN "init_locks" ELSE "done"
    /\ UNCHANGED <<natRet, lockState, natLock, cleaner, cancelReq, natCleanupThread,
                   director, hopper, sigReceived>>

\* init_nat_locks, init_hopper_locks, ... : the mutexes are initialised.
InitLocks ==
    /\ mainPc = "init_locks"
    /\ lockState' = "ready"
    /\ mainPc' = "read_config"
    /\ UNCHANGED <<natRet, natLock, cleaner, cancelReq, natCleanupThread, director,
                   hopper, sigReceived>>

\* read_config fails: arg_init returns -ARG_CONFIG_BAD, which main ignores.
ReadConfig ==
    /\ mainPc = "read_config"
    /\ \E ok \in BOOLEAN : mainPc' = IF ok THEN "init_hopper" ELSE "join"
    /\ UNCHANGED <<natRet, lockState, natLock, cleaner, cancelReq, natCleanupThread,
                   director, hopper, sigReceived>>

\* init_hopper; on failure uninit_hopper and return to main.
InitHopper ==
    /\ mainPc = "init_hopper"
    /\ \/ /\ hopper' = "on"
          /\ mainPc' = "init_nat"
       \/ /\ hopper' = "off"
          /\ mainPc' = "join"
    /\ UNCHANGED <<natRet, lockState, natLock, cleaner, cancelReq, natCleanupThread,
                   director, sigReceived>>

\* Fault variant of init_nat: natCleanupThread is assigned pthread_create's
\* return code (0 on success, EAGAIN on failure) instead of the thread id.
InitNatStoreRc ==
    /\ mainPc = "init_nat"
    /\ \/ /\ cleaner' = "start"
          /\ natCleanupThread' = 0
       \/ natCleanupThread' = EAGAIN /\ UNCHANGED cleaner
    /\ mainPc' = "init_director"
    /\ UNCHANGED <<natRet, lockState, natLock, cancelReq, director, hopper,
                   sigReceived>>

\* init_nat: pthread_create, return value unchecked; init_nat returns 0.
\* glibc writes natCleanupThread only when the thread was created.
InitNat ==
    /\ mainPc = "init_nat"
    /\ \/ /\ cleaner' = "start"
          /\ natCleanupThread' = CleanupTid
       \/ UNCHANGED <<cleaner, natCleanupThread>>
    /\ mainPc' = "init_director"
    /\ UNCHANGED <<natRet, lockState, natLock, cancelReq, director, hopper,
                   sigReceived>>

\* init_director; on failure uninit_director, uninit_nat, uninit_hopper.
InitDirector ==
    /\ mainPc = "init_director"
    /\ \/ /\ director' = "running"
          /\ mainPc' = "finish"
          /\ UNCHANGED natRet
       \/ /\ director' = "off"
          /\ CallUninitNat("exit_hopper_init")
    /\ UNCHANGED <<lockState, natLock, cleaner, cancelReq, natCleanupThread, hopper,
                   sigReceived>>

\* init_hopper_finish, release_config; arg_init returns 0.
Finish ==
    /\ mainPc = "finish"
    /\ mainPc' = "join"
    /\ UNCHANGED <<natRet, lockState, natLock, cleaner, cancelReq, natCleanupThread,
                   director, hopper, sigReceived>>

\* The end of the failed-director path of arg_init: uninit_hopper, return.
InitFailHopper ==
    /\ mainPc = "exit_hopper_init"
    /\ hopper' = "off"
    /\ mainPc' = "join"
    /\ UNCHANGED <<natRet, lockState, natLock, cleaner, cancelReq, natCleanupThread,
                   director, sigReceived>>

\* join_director returns once the director is not running.
JoinDirector ==
    /\ mainPc = "join"
    /\ director # "running"
    /\ mainPc' = "exit"
    /\ UNCHANGED <<natRet, lockState, natLock, cleaner, cancelReq, natCleanupThread,
                   director, hopper, sigReceived>>

\* arg_exit: uninit_director, then uninit_nat.
ArgExit ==
    /\ mainPc = "exit"
    /\ director' = IF director = "running" THEN "stopped" ELSE director
    /\ CallUninitNat("exit_hopper")
    /\ UNCHANGED <<lockState, natLock, cleaner, cancelReq, natCleanupThread, hopper,
                   sigReceived>>

\* arg_exit: uninit_hopper; main resets the handlers and returns 0.
ExitHopper ==
    /\ mainPc = "exit_hopper"
    /\ hopper' = "off"
    /\ mainPc' = "done"
    /\ UNCHANGED <<natRet, lockState, natLock, cleaner, cancelReq, natCleanupThread,
                   director, sigReceived>>

\* sig_handler, installed at the start of main: every SIGINT calls
\* uninit_director, which stops a running director.
SigInt ==
    /\ mainPc # "done"
    /\ sigReceived' = TRUE
    /\ director' = IF director = "running" THEN "stopped" ELSE director
    /\ UNCHANGED <<mainPc, natRet, lockState, natLock, cleaner, cancelReq,
                   natCleanupThread, hopper>>

-----------------------------------------------------------------------------
(* uninit_nat *)

\* Fault variant of uninit_nat: pthread_join is left out.
UninitCancelNoJoin ==
    /\ mainPc = "un_cancel"
    /\ cancelReq' = (natCleanupThread # 0 \/ cancelReq)
    /\ mainPc' = "un_empty"
    /\ UNCHANGED <<natRet, lockState, natLock, cleaner, natCleanupThread, director,
                   hopper, sigReceived>>

\* Fault variant of uninit_nat: pthread_join is called before pthread_cancel.
UninitCancelJoinFirst ==
    /\ mainPc = "un_cancel"
    /\ mainPc' = IF natCleanupThread # 0 THEN "un_join" ELSE "un_empty"
    /\ UNCHANGED <<natRet, lockState, natLock, cleaner, cancelReq, natCleanupThread,
                   director, hopper, sigReceived>>

\* if(natCleanupThread != 0) pthread_cancel(natCleanupThread)
UninitCancel ==
    /\ mainPc = "un_cancel"
    /\ IF natCleanupThread # 0
       THEN /\ cancelReq' = TRUE
            /\ mainPc' = "un_join"
       ELSE /\ mainPc' = "un_empty"
            /\ UNCHANGED cancelReq
    /\ UNCHANGED <<natRet, lockState, natLock, cleaner, natCleanupThread, director,
                   hopper, sigReceived>>

\* pthread_join returns when the thread has ended; natCleanupThread = 0.
UninitJoin ==
    /\ mainPc = "un_join"
    /\ cleaner = "dead"
    /\ natCleanupThread' = 0
    /\ mainPc' = "un_empty"
    /\ UNCHANGED <<natRet, lockState, natLock, cleaner, cancelReq, director,
                   hopper, sigReceived>>

\* empty_nat_table: lock, free every bucket, unlock.  Only the lock is
\* modelled here; the head read before the lock and the walk over the
\* buckets are EmptyStart and EmptyNatTable of NatTable.
EmptyNatTable ==
    /\ mainPc = "un_empty"
    /\ natLock = NoOwner
    /\ mainPc' = "un_destroy"
    /\ UNCHANGED <<natRet, lockState, natLock, cleaner, cancelReq, natCleanupThread,
                   director, hopper, sigReceived>>

\* pthread_mutex_destroy(&natTableLock); return.
UninitDestroy ==
    /\ mainPc = "un_destroy"
    /\ lockState' = "destroyed"
    /\ mainPc' = natRet
    /\ UNCHANGED <<natRet, natLock, cleaner, cancelReq, natCleanupThread, director,
                   hopper, sigReceived>>

-----------------------------------------------------------------------------
(* nat_cleanup_thread *)

\* The first arglog, then into the loop.
CleanerStart ==
    /\ cleaner = "start"
    /\ cleaner' = "clean"
    /\ UNCHANGED <<mainPc, natRet, lockState, natLock, cancelReq, natCleanupThread,
                   director, hopper, sigReceived>>

\* clean_nat_table: lock, sweep, unlock (no cancellation point inside).
CleanerClean ==
    /\ cleaner = "clean"
    /\ natLock = NoOwner
    /\ cleaner' = "print_lock"
    /\ UNCHANGED <<mainPc, natRet, lockState, natLock, cancelReq, natCleanupThread,
                   director, hopper, sigReceived>>

CleanerPrintLock ==
    /\ cleaner = "print_lock"
    /\ natLock = NoOwner
    /\ natLock' = "cleaner"
    /\ cleaner' = "print"
    /\ UNCHANGED <<mainPc, natRet, lockState, cancelReq, natCleanupThread, director,
                   hopper, sigReceived>>

CleanerPrintUnlock ==
    /\ cleaner = "print"
    /\ natLock' = NoOwner
    /\ cleaner' = "sleep"
    /\ UNCHANGED <<mainPc, natRet, lockState, cancelReq, natCleanupThread, director,
                   hopper, sigReceived>>

\* sleep(NAT_CLEAN_TIME) returns; a pending cancel acts first.
CleanerWake ==
    /\ cleaner = "sleep"
    /\ ~cancelReq
    /\ cleaner' = "clean"
    /\ UNCHANGED <<mainPc, natRet, lockState, natLock, cancelReq, natCleanupThread,
                   director, hopper, sigReceived>>

\* A pending cancel acts at a cancellation point: the startup arglog,
\* sleep(), or arglog inside print_nat_table.  The thread ends there and
\* whatever it holds stays held.
CleanerCancelled ==
    /\ cancelReq
    /\ \/ cleaner \in {"start", "sleep"}
       \/ cleaner = "print" /\ CancelPointInPrint
    /\ cleaner' = "dead"
    /\ UNCHANGED <<mainPc, natRet, lockState, natLock, cancelReq, natCleanupThread,
                   director, hopper, sigReceived>>

-----------------------------------------------------------------------------

Init ==
    /\ mainPc = "args"
    /\ natRet = "done"
    /\ lockState = "uninit"
    /\ natLock = NoOwner
    /\ cleaner = "none"
    /\ cancelReq = FALSE
    /\ natCleanupThread = 0
    /\ director = "off"
    /\ hopper = "off"
    /\ sigReceived = FALSE

MainStep ==
    \/ CheckArgs \/ InitLocks \/ ReadConfig \/ InitHopper \/ InitNat \/ InitDirector
    \/ Finish \/ InitFailHopper \/ JoinDirector \/ ArgExit \/ ExitHopper
    \/ UninitCancel \/ UninitJoin \/ EmptyNatTable \/ UninitDestroy

CleanerStep ==
    \/ CleanerStart \/ CleanerClean \/ CleanerPrintLock \/ CleanerPrintUnlock
    \/ CleanerWake \/ CleanerCancelled

\* main has returned: the process exits.
Exited ==
    /\ mainPc = "done"
    /\ UNCHANGED vars

Next == MainStep \/ CleanerStep \/ SigInt \/ Exited

\* Both threads are scheduled by the OS: neither stops while it can run.
Spec == Init /\ [][Next]_vars /\ WF_vars(MainStep) /\ WF_vars(CleanerStep)

-----------------------------------------------------------------------------
(* Properties *)

TypeOK ==
    /\ mainPc \in MainPcs
    /\ natRet \in {"done", "exit_hopper", "exit_hopper_init"}
    /\ lockState \in {"uninit", "ready", "destroyed"}
    /\ natLock \in {NoOwner, "main", "cleaner"}
    /\ cleaner \in {"none", "start", "clean", "print_lock", "print", "sleep", "dead"}
    /\ cancelReq \in BOOLEAN
    /\ natCleanupThread \in {0, CleanupTid}
    /\ director \in {"off", "running", "stopped"}
    /\ hopper \in {"off", "on"}
    /\ sigReceived \in BOOLEAN

\* No thread is still running the cleanup loop once natTableLock has been
\* destroyed: uninit_nat cancels and joins the thread before it destroys
\* the mutex, on every path that reaches the destroy.
CleanerGoneBeforeDestroy ==
    lockState = "destroyed" => cleaner \in {"none", "dead"}

\* natTableLock is only locked or destroyed while it is initialised and not
\* yet destroyed (pthread_mutex_lock / _destroy on a destroyed mutex is
\* undefined).
NatLockValidWhenUsed ==
    /\ mainPc \in {"un_empty", "un_destroy"} => lockState = "ready"
    /\ cleaner \in {"clean", "print_lock"} => lockState = "ready"

\* Once the director has stopped (SIGINT), main finishes uninit_nat and
\* returns: the cleanup thread's cancellation never leaves natTableLock
\* held for empty_nat_table to wait on forever.
ShutdownCompletes == (director = "stopped") ~> (mainPc = "done")

=============================================================================
