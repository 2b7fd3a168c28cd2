----------------------------- MODULE ConfigList -----------------------------
(***************************************************************************)
(* read_config, get_next_line and release_config of src/settings.c.       *)
(*                                                                         *)
(* The configuration file is a sequence of lines.  A line is a record     *)
(* [text, cr] standing for the bytes  text, then "\r" when cr, then "\n".  *)
(* A line whose first byte is '\n' or '\r' (text = "") is blank.  The      *)
(* value get_next_line hands back is the line with its "\n" removed: the   *)
(* same record, "\r" included.                                             *)
(*                                                                         *)
(* readdir hands out the directory's entries one at a time, each at most   *)
(* once, in an order the file system chooses, and then NULL.  An entry is  *)
(* a record of the facts about d_name that the scan tests: its first byte  *)
(* is '.', its length, whether its last four bytes are ".pub", and its     *)
(* first len-4 bytes (the gate name memcpy'd out of it).                   *)
(*                                                                         *)
(* gate_list nodes live in a heap of Cells, so calloc failure, the links   *)
(* written through prevGate and the frees of release_config are explicit.  *)
(***************************************************************************)
EXTENDS Naturals, Sequences, SequencesExt, FiniteSets

CONSTANTS
    Texts,          \* non-blank line contents
    CRs,            \* {FALSE}: lines end in "\n"; BOOLEAN: "\r\n" as well
    DirEntries,     \* the entries a directory may hold
    MaxFileLen,     \* bound on the lines of the configuration file
    MaxDirLen,      \* bound on the entries readdir returns
    Cells,          \* memory calloc can hand out
    NULL, Free,
    MallocMayFail

VARIABLES
    pc,          \* where read_config / release_config is
    file,        \* the configuration file's lines
    filePos,     \* the FILE position: index of the next line fgets reads
    field,       \* which of the four configuration lines is read next
    ourGateName, \* conf->ourGateName
    seen,        \* the entries readdir has returned, in order
    heap,        \* Cells -> gate_list node or Free
    confGate,    \* conf->gate
    currGate,
    prevGate,
    ret,         \* read_config's return value
    relCurr,     \* release_config's curr
    listed,      \* history: the gate list as read_config returned it
    callocFailed \* history: a calloc of the scan returned NULL

vars == <<pc, file, filePos, field, ourGateName, seen, heap, confGate,
          currGate, prevGate, ret, relCurr, listed, callocFailed>>

Line == [text: Texts \cup {""}, cr: CRs]
Str == [text: Texts \cup {d.base : d \in DirEntries}, cr: BOOLEAN]
Node == [name: Str, next: Cells \cup {NULL}]

Blank(l) == l.text = ""

FreeCells == {c \in Cells : heap[c] = Free}

\* The list reachable from c through ->next (at most n nodes, so that a
\* cycle cannot make it infinite).  A freed node ends the walk.
RECURSIVE ListFrom(_, _)
ListFrom(c, n) ==
    IF c = NULL \/ n = 0 THEN <<>>
    ELSE IF heap[c] = Free THEN <<c>>
    ELSE <<c>> \o ListFrom(heap[c].next, n - 1)

GateList == ListFrom(confGate, Cardinality(Cells) + 1)

Names(list) == [i \in DOMAIN list |-> heap[list[i]].name]

-----------------------------------------------------------------------------
(* Helpers translated from the code *)

\* get_next_line: fgets until a line whose first byte is not '\n' or '\r';
\* the index of that line, 0 when fgets hits end of file first.
get_next_line(pos) == SelectInSubSeq(file, pos, Len(file), LAMBDA l : ~Blank(l))

\* Fault variant of the filter: hidden files are not skipped.
IsPubKeyFileWithHidden(d) == d.len >= 5 /\ d.pub

\* Fault variant of the filter: off by one in the length test.
IsPubKeyFileLen6(d) == ~d.dot /\ d.len > 5 /\ d.pub

\* The scan's filter: not hidden, at least five bytes, ends in ".pub".
IsPubKeyFile(d) == ~d.dot /\ d.len >= 5 /\ d.pub

\* Fault variant of the name copy: the whole d_name, ".pub" included.
GateNameWithExt(d) == [text |-> d.name, cr |-> FALSE]

\* memcpy(currGate->name, dent->d_name, len - 4); name[len - 4] = '\0'
GateName(d) == [text |-> d.base, cr |-> FALSE]

-----------------------------------------------------------------------------
(* read_config *)

\* Lines 28-55: the directory of conf->file (a path of at most 299 bytes
\* always fits conf->dir, so the length check never fails), then fopen.
ReadConfigStart ==
    /\ pc = "start"
    /\ \/ /\ ret' = "errno"
          /\ pc' = "failed"
       \/ /\ pc' = "read"
          /\ UNCHANGED ret
    /\ UNCHANGED <<callocFailed, file, filePos, field, ourGateName, seen, heap, confGate,
                   currGate, prevGate, relCurr, listed>>

\* Lines 57-90: four get_next_line calls (gate name, internal device,
\* external device, hop rate); any one hitting end of file returns
\* -ARG_CONFIG_BAD.  Only the gate name is kept in the model.
GetField ==
    LET i == get_next_line(filePos) IN
    /\ pc = "read"
    /\ \/ /\ i = 0
          /\ ret' = "CONFIG_BAD"
          /\ pc' = "failed"
          /\ UNCHANGED <<filePos, field, ourGateName>>
       \/ /\ i # 0
          /\ filePos' = i + 1
          /\ field' = field + 1
          /\ ourGateName' = IF field = 1 THEN file[i] ELSE ourGateName
          /\ pc' = IF field = 4 THEN "opendir" ELSE "read"
          /\ UNCHANGED ret
    /\ UNCHANGED <<callocFailed, file, seen, heap, confGate, currGate, prevGate, relCurr,
                   listed>>

\* Lines 93-100: opendir(conf->dir); conf->gate = NULL.
OpenDir ==
    /\ pc = "opendir"
    /\ \/ /\ ret' = "-1"
          /\ pc' = "failed"
          /\ UNCHANGED confGate
       \/ /\ confGate' = NULL
          /\ pc' = "scan"
          /\ UNCHANGED ret
    /\ UNCHANGED <<callocFailed, file, filePos, field, ourGateName, seen, heap, currGate,
                   prevGate, relCurr, listed>>

\* Lines 116-132 for a key file d: prevGate = currGate, calloc a node;
\* on failure `continue` with currGate = NULL; otherwise make it the head
\* if the list is empty, link it after prevGate, and copy the name.
FoundGate(d) ==
    /\ prevGate' = currGate
    /\ \/ /\ FALSE \in (IF MallocMayFail THEN BOOLEAN ELSE {TRUE}) \/ FreeCells = {}
          /\ currGate' = NULL
          /\ callocFailed' = TRUE
          /\ UNCHANGED <<heap, confGate>>
       \/ \E c \in FreeCells :
            LET node == [heap EXCEPT ![c] = [name |-> GateName(d), next |-> NULL]]
            IN /\ heap' = IF currGate # NULL
                          THEN [node EXCEPT ![currGate].next = c]
                          ELSE node
               /\ confGate' = IF confGate = NULL THEN c ELSE confGate
               /\ currGate' = c
               /\ UNCHANGED callocFailed

\* Lines 101-135: one readdir; NULL ends the loop, other entries than key
\* files are skipped.
ReadDirEntry ==
    /\ pc = "scan"
    /\ \/ /\ pc' = "terminate"
          /\ UNCHANGED <<seen, heap, confGate, currGate, prevGate,
                          callocFailed>>
       \/ /\ Len(seen) < MaxDirLen
          /\ \E d \in DirEntries \ Range(seen) :
                /\ seen' = Append(seen, d)
                /\ IF IsPubKeyFile(d)
                   THEN FoundGate(d)
                   ELSE UNCHANGED <<heap, confGate, currGate, prevGate,
                                    callocFailed>>
          /\ UNCHANGED pc
    /\ UNCHANGED <<file, filePos, field, ourGateName, ret, relCurr, listed>>

\* Lines 137-142: currGate->next = NULL, closedir, return 0.  With
\* currGate NULL (no key file, or the last calloc failed) the store
\* faults.
Terminate ==
    /\ pc = "terminate"
    /\ \/ /\ currGate = NULL
          /\ pc' = "segv"
          /\ UNCHANGED <<heap, ret, listed>>
       \/ /\ currGate # NULL
          /\ heap' = [heap EXCEPT ![currGate].next = NULL]
          /\ ret' = "0"
          /\ listed' = ListFrom(confGate, Cardinality(Cells) + 1)
          /\ pc' = "returned"
    /\ UNCHANGED <<callocFailed, file, filePos, field, ourGateName, seen, confGate,
                   currGate, prevGate, relCurr>>

-----------------------------------------------------------------------------
(* release_config, called by arg_init once the list has been used *)

ReleaseStart ==
    /\ pc = "returned"
    /\ relCurr' = confGate
    /\ pc' = "release"
    /\ UNCHANGED <<callocFailed, file, filePos, field, ourGateName, seen, heap, confGate,
                   currGate, prevGate, ret, listed>>

\* Fault variant of the loop: while(curr->next), leaving the last node.
ReleaseStepLastKept ==
    /\ pc = "release"
    /\ relCurr # NULL
    /\ heap[relCurr].next # NULL
    /\ heap' = [heap EXCEPT ![relCurr] = Free]
    /\ relCurr' = heap[relCurr].next

\* while(curr) { prev = curr; curr = curr->next; free(prev); }
ReleaseStep ==
    /\ pc = "release"
    /\ relCurr # NULL
    /\ heap' = [heap EXCEPT ![relCurr] = Free]
    /\ relCurr' = heap[relCurr].next

ReleaseLoop ==
    /\ ReleaseStep
    /\ UNCHANGED <<callocFailed, pc, file, filePos, field, ourGateName, seen, confGate,
                   currGate, prevGate, ret, listed>>

ReleaseEnd ==
    /\ pc = "release"
    /\ ~ENABLED ReleaseStep
    /\ pc' = "released"
    /\ UNCHANGED <<callocFailed, file, filePos, field, ourGateName, seen, heap, confGate,
                   currGate, prevGate, ret, relCurr, listed>>

\* read_config failed, faulted, or the list has been released.
Stopped ==
    /\ pc \in {"failed", "segv", "released"}
    /\ UNCHANGED vars

-----------------------------------------------------------------------------

Init ==
    /\ pc = "start"
    /\ file \in BoundedSeq(Line, MaxFileLen)
    /\ filePos = 1
    /\ field = 1
    /\ ourGateName = [text |-> "", cr |-> FALSE]
    /\ seen = <<>>
    /\ heap = [c \in Cells |-> Free]
    /\ confGate = NULL
    /\ currGate = NULL
    /\ prevGate = NULL
    /\ ret = "none"
    /\ relCurr = NULL
    /\ listed = <<>>
    /\ callocFailed = FALSE

Next ==
    \/ ReadConfigStart \/ GetField \/ OpenDir \/ ReadDirEntry \/ Terminate
    \/ ReleaseStart \/ ReleaseLoop \/ ReleaseEnd \/ Stopped

Spec == Init /\ [][Next]_vars

-----------------------------------------------------------------------------
(* Properties *)

TypeOK ==
    /\ pc \in {"start", "read", "opendir", "scan", "terminate", "returned",
               "release", "released", "failed", "segv"}
    /\ file \in Seq(Line)
    /\ filePos \in 1..MaxFileLen + 1
    /\ field \in 1..5
    /\ ourGateName \in Str
    /\ seen \in Seq(DirEntries)
    /\ heap \in [Cells -> Node \cup {Free}]
    /\ {confGate, currGate, prevGate, relCurr} \subseteq Cells \cup {NULL}
    /\ ret \in {"none", "errno", "CONFIG_BAD", "-1", "0"}
    /\ listed \in Seq(Cells)
    /\ callocFailed \in BOOLEAN

\* The gate names of the key files among the entries readdir returned, in
\* the order it returned them: spec §6, one <name>.pub per known peer,
\* hidden files and other files not counted.
KeyFileNames(entries) ==
    LET keys == SelectSeq(entries, LAMBDA d : d.pub /\ ~d.dot /\ d.len > 4)
    IN [i \in DOMAIN keys |-> [text |-> keys[i].base, cr |-> FALSE]]

\* When read_config returns 0, conf->gate lists only peers whose key file
\* readdir returned, each once and in readdir order, with the name taken
\* from the file name (calloc failures may drop gates, never add one).
GatesInDirOrder ==
    pc = "returned" =>
       LET s == Names(GateList)
           t == KeyFileNames(seen)
       IN \E idx \in [DOMAIN s -> DOMAIN t] :
             /\ \A i, j \in DOMAIN s : i < j => idx[i] < idx[j]
             /\ \A i \in DOMAIN s : s[i] = t[idx[i]]

\* release_config frees every node of the list read_config returned.
ReleaseFreesList ==
    pc = "released" => \A i \in DOMAIN listed : heap[listed[i]] = Free

\* If the scan saw the key file of the gate the configuration file names,
\* and no calloc failed, read_config's list contains that name: the
\* gateway finds itself among the peers by comparing conf->ourGateName
\* with the list's names.
OurGateListed ==
    /\ pc = "returned"
    /\ ~callocFailed
    /\ \E i \in DOMAIN KeyFileNames(seen) : KeyFileNames(seen)[i].text = ourGateName.text
    => \E j \in DOMAIN GateList : heap[GateList[j]].name = ourGateName

\* read_config returns or fails with an error code (spec §7: a
\* configuration error is fatal at start-up and reported); it never
\* dereferences NULL at currGate->next = NULL.
NoCrash == pc # "segv"

\* When read_config returns 0, every gate_list node the scan calloc'ed is
\* on the list conf->gate heads: a node whose calloc succeeded is never
\* left unlinked, so the list names every peer whose node was allocated
\* (spec §6: one <name>.pub per known peer).
AllocatedGatesListed ==
    pc = "returned" => {c \in Cells : heap[c] # Free} = Range(GateList)

=============================================================================
