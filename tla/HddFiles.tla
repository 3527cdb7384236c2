-------------------------------- MODULE HddFiles --------------------------------
(***************************************************************************)
(* The chunk files of a chunkserver and the records it keeps of them       *)
(* (hddspacemgr.c).  A file is named by its folder, chunk id and version   *)
(* and holds the version in its header too; a version change is a write    *)
(* of the header and a rename, in an order that differs between the        *)
(* operations.  The records are rebuilt from the names when the process    *)
(* starts.  Steps are single system calls, so that one can fail and the    *)
(* process can be killed between any two.                                  *)
(*                                                                         *)
(* A chunk is locked (CH_LOCKED) while an operation works on it, so one    *)
(* worker is enough here; the threads that scan the folders and the one    *)
(* that removes duplicates run beside it.                                  *)
(***************************************************************************)
EXTENDS Integers, FiniteSets

CONSTANTS
    Folder,          \* the disks
    Id,              \* chunk ids
    MaxVersion,      \* bound: versions
    MaxEnds,         \* bound: times the process is killed or stopped
    MaxFaults,       \* bound: system calls that fail
    Stale,           \* TRUE: a disk may come back with an older file of a chunk
    SlowUnlink       \* TRUE: a chunk may be moved to a folder between the choice
                     \* of the names to remove there and their removal

Version == 1..MaxVersion
Name == Folder \X Id \X Version
Absent == -1
NoHeader == 0
NoRec == [f |-> "none", v |-> 0]
NoId == "none"
Idle == [kind |-> "none", pc |-> "none", id |-> NoId, old |-> 0, v |-> 0, copy |-> NoId, f |-> "none"]

ASSUME BoundsAssumption ==
    /\ MaxVersion \in Nat /\ MaxEnds \in Nat /\ MaxFaults \in Nat
    /\ Stale \in BOOLEAN /\ SlowUnlink \in BOOLEAN

VARIABLES
    disk,            \* the header of each file, Absent when there is no such file
    tmp,             \* the files reptmp_chunk_* left by moves
    rec,             \* the chunk records: folder and version
    opened,          \* the chunks a client has open
    leaked,          \* the chunks whose crcrefcount an error left too high
    damaged,         \* the chunks reported as damaged
    op,              \* the operation in progress
    unscanned,       \* the names each scanning thread has still to look at
    scanning,        \* the folders being scanned
    wfr,             \* the names waiting for removal
    wfrcurrent,      \* the names taken by hdd_wfr_check and not yet unlinked
    committed,       \* the version of each chunk the master knows of, 0 for none
    used,            \* the ids the master has given
    ends, faults

memory == <<rec, opened, leaked, damaged, wfr, wfrcurrent>>
scans == <<unscanned, scanning>>
bounds == <<used, ends, faults>>
vars == <<disk, tmp, memory, op, scans, committed, bounds>>

Names(f) == {n \in Name : n[1] = f /\ disk[n] # Absent}
Locked(id) == op.pc # "find" /\ id \in {op.id, op.copy}
InUse(id) == id \in opened \cup leaked
FileOf(id) == <<rec[id].f, id, rec[id].v>>
Working(f) == f \notin scanning

InitVersion == IF Stale THEN 2 ELSE 1

\* The process starts with every folder to be scanned.  Which chunk and folder
\* it has makes no difference.
Init ==
    /\ LET id == CHOOSE i \in Id : TRUE cur == CHOOSE f \in Folder : TRUE IN
        /\ \E old \in Folder \ {cur} :
            disk = [n \in Name |-> IF n = <<cur, id, InitVersion>> THEN InitVersion
                                  ELSE IF Stale /\ n = <<old, id, 1>> THEN 1 ELSE Absent]
        /\ used = {id}
        /\ committed = [i \in Id |-> IF i = id THEN InitVersion ELSE 0]
    /\ tmp = {} /\ rec = [id \in Id |-> NoRec] /\ opened = {} /\ leaked = {} /\ damaged = {}
    /\ op = Idle
    /\ scanning = Folder /\ unscanned = [f \in Folder |-> Names(f)]
    /\ wfr = {} /\ wfrcurrent = {}
    /\ ends = 0 /\ faults = 0

-------------------------------------------------------------------------------
\* Scanning and duplicates


\* hdd_add_chunk for a name the scan of its folder has come to.  It waits while
\* the chunk is locked.  When the file found is the better one, the entry made
\* for removal is in the folder of the other one but has the version of this one.
hdd_add_chunk(n) ==
    LET f == n[1] id == n[2] v == n[3] IN
    /\ n \in unscanned[f] /\ ~Locked(id)
    /\ unscanned' = [unscanned EXCEPT ![f] = @ \ {n}]
    /\ IF rec[id] = NoRec
       THEN rec' = [rec EXCEPT ![id] = [f |-> f, v |-> v]] /\ UNCHANGED wfr
       ELSE IF v <= rec[id].v \/ InUse(id)
       THEN wfr' = wfr \cup {n} /\ UNCHANGED rec
       ELSE /\ wfr' = wfr \cup {<<rec[id].f, id, v>>}
            /\ rec' = [rec EXCEPT ![id] = [f |-> f, v |-> v]]
    /\ UNCHANGED <<disk, tmp, opened, leaked, damaged, op, scanning, wfrcurrent, committed, bounds>>

\* readdir need not return a file that was renamed or removed meanwhile.
SkipName(n) ==
    /\ n \in unscanned[n[1]] /\ disk[n] = Absent
    /\ unscanned' = [unscanned EXCEPT ![n[1]] = @ \ {n}]
    /\ UNCHANGED <<disk, tmp, memory, op, scanning, committed, bounds>>

hdd_folder_scan(f) ==
    /\ f \in scanning /\ unscanned[f] = {}
    /\ scanning' = scanning \ {f}
    /\ UNCHANGED <<disk, tmp, memory, op, unscanned, committed, bounds>>

Unlinked(S) == [n \in Name |-> IF n \in S THEN Absent ELSE disk[n]]

\* hdd_wfr_check: HDDKeepDuplicatesHours after the scan the names of a folder
\* are taken under folderlock ...
hdd_wfr_check(f) ==
    /\ Working(f) /\ wfrcurrent = {}
    /\ \E n \in wfr : n[1] = f
    /\ wfrcurrent' = {n \in wfr : n[1] = f}
    /\ wfr' = {n \in wfr : n[1] # f}
    /\ UNCHANGED <<disk, tmp, rec, opened, leaked, damaged, op, scans, committed, bounds>>

\* ... and unlinked without it.
WfrUnlink ==
    /\ wfrcurrent # {}
    /\ disk' = Unlinked(wfrcurrent)
    /\ wfrcurrent' = {}
    /\ UNCHANGED <<tmp, rec, opened, leaked, damaged, op, wfr, scans, committed, bounds>>

Duplicates(id) == {n \in wfr : n[2] = id}

-------------------------------------------------------------------------------
\* Sessions of clients

\* hdd_io_begin opens the file and reads its header, unless it is in use or its
\* checksums are still in memory.
CanRead(id) == InUse(id) \/ disk[FileOf(id)] # Absent
HeaderFits(id) == disk[FileOf(id)] = rec[id].v

\* The chunk is there in the version the client or the master asks for.
Found(id) == rec[id] # NoRec /\ ~Locked(id) /\ rec[id].v = committed[id]

hdd_open(id) ==
    /\ Found(id) /\ id \notin opened
    /\ \/ CanRead(id) /\ opened' = opened \cup {id} /\ UNCHANGED damaged
       \/ ~InUse(id) /\ ~HeaderFits(id) /\ damaged' = damaged \cup {id} /\ UNCHANGED opened
    /\ UNCHANGED <<disk, tmp, rec, leaked, op, wfr, wfrcurrent, scans, committed, bounds>>

\* hdd_close: the duplicates of a chunk that was written are removed at once.
hdd_close(id, crcchanged) ==
    /\ id \in opened /\ ~Locked(id)
    /\ opened' = opened \ {id}
    /\ disk' = IF crcchanged THEN Unlinked(Duplicates(id)) ELSE disk
    /\ wfr' = IF crcchanged THEN wfr \ Duplicates(id) ELSE wfr
    /\ UNCHANGED <<tmp, rec, leaked, damaged, op, wfrcurrent, scans, committed, bounds>>

-------------------------------------------------------------------------------
\* Changes of the version: hdd_int_version writes the header and renames ...

Fault == faults < MaxFaults /\ faults' = faults + 1
NoFault == UNCHANGED faults
rest == <<leaked, opened, wfr, wfrcurrent, scans, ends>>
others == <<used, rest>>

Header(n, h) == [disk EXCEPT ![n] = h]
Renamed(n, m) == [disk EXCEPT ![n] = Absent, ![m] = disk[n]]
SetVersion(id, v) == [rec EXCEPT ![id] = [f |-> rec[id].f, v |-> v]]
Goto(pc) == op' = [op EXCEPT !.pc = pc]
Finish == op' = Idle
Damage(id) == damaged' = damaged \cup {id}
\* hdd_io_end keeps its reference when it cannot write checksums that have changed.
IoEndFails(id, crcchanged) == leaked' \in {leaked} \cup {leaked \cup {x} : x \in {id} \cap crcchanged}

hdd_int_version(id, v) ==
    /\ op = Idle /\ Found(id) /\ v > rec[id].v
    /\ \/ /\ CanRead(id)
          /\ op' = [Idle EXCEPT !.kind = "version", !.pc = "header", !.id = id, !.old = rec[id].v, !.v = v]
          /\ UNCHANGED damaged
       \/ ~InUse(id) /\ ~HeaderFits(id) /\ Damage(id) /\ UNCHANGED op
    /\ NoFault /\ UNCHANGED <<disk, tmp, rec, committed, others>>

VersionHeader ==
    /\ op.kind = "version" /\ op.pc = "header"
    /\ \/ disk' = Header(FileOf(op.id), op.v) /\ Goto("rename") /\ NoFault /\ UNCHANGED damaged
       \/ Fault /\ Damage(op.id) /\ Finish /\ UNCHANGED disk
    /\ UNCHANGED <<tmp, rec, committed, others>>

\* Mutation: the version is not set back after an error.
VersionRename_VersionStays ==
    /\ op.kind = "version" /\ op.pc = "rename"
    /\ Finish
    /\ rec' = SetVersion(op.id, op.v)
    /\ \/ /\ disk' = Renamed(FileOf(op.id), <<rec[op.id].f, op.id, op.v>>)
          /\ committed' = [committed EXCEPT ![op.id] = op.v]
          /\ NoFault /\ UNCHANGED <<damaged, leaked>>
       \/ /\ Fault
          /\ Damage(op.id) /\ leaked' = leaked \cup {op.id}
          /\ disk' = Header(FileOf(op.id), op.old)
          /\ UNCHANGED committed
    /\ UNCHANGED <<tmp, used, opened, wfr, wfrcurrent, scans, ends>>

\* After an error of rename the old version is put back in the header and
\* hdd_io_end is not called.
VersionRename ==
    /\ op.kind = "version" /\ op.pc = "rename"
    /\ Finish
    /\ \/ /\ disk' = Renamed(FileOf(op.id), <<rec[op.id].f, op.id, op.v>>)
          /\ rec' = SetVersion(op.id, op.v)
          /\ committed' = [committed EXCEPT ![op.id] = op.v]
          /\ NoFault /\ UNCHANGED <<damaged, leaked>>
       \/ /\ Fault
          /\ Damage(op.id) /\ leaked' = leaked \cup {op.id}
          /\ disk' \in {disk, Header(FileOf(op.id), op.old)}
          /\ UNCHANGED <<rec, committed>>
       \/ /\ op.id \in opened /\ Fault
          /\ Damage(op.id) /\ leaked' = leaked \cup {op.id}
          /\ disk' = Renamed(FileOf(op.id), <<rec[op.id].f, op.id, op.v>>)
          /\ rec' = SetVersion(op.id, op.v)
          /\ UNCHANGED committed
    /\ UNCHANGED <<tmp, used, opened, wfr, wfrcurrent, scans, ends>>

\* ... hdd_int_truncate and hdd_int_duplicate rename and write the header.  The
\* latter first makes the record of the copy, and leaves the version alone when
\* it is asked to.
RenameFirst(kind, id, v, copy, f) ==
    LET made == IF copy = NoId THEN rec ELSE [rec EXCEPT ![copy] = [f |-> f, v |-> 1]] IN
    /\ op = Idle /\ Found(id)
    /\ \/ /\ v > rec[id].v
          /\ disk' = Renamed(FileOf(id), <<rec[id].f, id, v>>)
          /\ rec' = [made EXCEPT ![id] = [f |-> rec[id].f, v |-> v]]
          /\ op' = [Idle EXCEPT !.kind = kind, !.pc = "begin", !.id = id, !.old = rec[id].v, !.v = v, !.copy = copy]
          /\ disk[FileOf(id)] # Absent
          /\ NoFault /\ UNCHANGED damaged
       \/ v > rec[id].v /\ Fault /\ Damage(id) /\ UNCHANGED <<disk, rec, op>>
       \/ /\ v = rec[id].v /\ kind = "duplicate" /\ NoFault /\ UNCHANGED disk
          /\ \/ /\ CanRead(id) /\ rec' = made
                /\ op' = [Idle EXCEPT !.kind = kind, !.pc = "create", !.id = id, !.old = v, !.v = v, !.copy = copy]
                /\ UNCHANGED damaged
             \/ ~InUse(id) /\ ~HeaderFits(id) /\ Damage(id) /\ UNCHANGED <<rec, op>>
    /\ UNCHANGED <<tmp, committed, rest>>

hdd_int_truncate(id, v) == RenameFirst("truncate", id, v, NoId, "none") /\ UNCHANGED used

\* The master gives an id once.
Fresh(id) == id \notin used /\ used' = used \cup {id}

hdd_int_duplicate(id, v, copy, f) ==
    Fresh(copy) /\ Working(f) /\ RenameFirst("duplicate", id, v, copy, f)

WithoutCopy(r) == IF op.copy = NoId THEN r ELSE [r EXCEPT ![op.copy] = NoRec]

\* An error while the header is read or written: the name is changed back.
RenameBack ==
    /\ Damage(op.id) /\ Finish
    /\ \/ /\ disk' = Renamed(FileOf(op.id), <<rec[op.id].f, op.id, op.old>>)
          /\ rec' = WithoutCopy(SetVersion(op.id, op.old))
       \/ faults + 1 < MaxFaults /\ UNCHANGED disk /\ rec' = WithoutCopy(rec)

\* hdd_io_begin in mode MODE_IGNVERS, and the header.
RenamedHeader ==
    /\ op.pc = "begin"
    /\ \/ /\ disk' = Header(FileOf(op.id), op.v)
          /\ disk[FileOf(op.id)] # NoHeader \/ InUse(op.id)
          /\ Goto(IF op.kind = "truncate" THEN "data" ELSE "create")
          /\ NoFault /\ UNCHANGED <<rec, damaged>>
       \/ /\ Fault \/ (disk[FileOf(op.id)] = NoHeader /\ NoFault)
          /\ RenameBack
    /\ UNCHANGED <<tmp, committed, others>>

TruncateData ==
    /\ op.kind = "truncate" /\ op.pc = "data"
    /\ Finish
    /\ \/ committed' = [committed EXCEPT ![op.id] = op.v] /\ NoFault /\ UNCHANGED <<damaged, leaked>>
       \/ Fault /\ Damage(op.id) /\ IoEndFails(op.id, Id) /\ UNCHANGED committed
    /\ UNCHANGED <<disk, tmp, rec, used, opened, wfr, wfrcurrent, scans, ends>>

-------------------------------------------------------------------------------
\* New files: hdd_int_create and the copy of hdd_int_duplicate

hdd_int_create(id, f) ==
    /\ op = Idle /\ Fresh(id) /\ Working(f)
    /\ rec' = [rec EXCEPT ![id] = [f |-> f, v |-> 1]]
    /\ op' = [Idle EXCEPT !.kind = "create", !.pc = "create", !.copy = id]
    /\ NoFault /\ UNCHANGED <<disk, tmp, damaged, committed, rest>>

CreateFile ==
    /\ op.pc = "create"
    /\ \/ disk' = Header(FileOf(op.copy), NoHeader) /\ Goto("fill") /\ NoFault /\ UNCHANGED rec
       \/ Fault /\ Finish /\ rec' = WithoutCopy(rec) /\ UNCHANGED disk
    /\ UNCHANGED <<tmp, damaged, committed, others>>

\* The header, and the data of a copy; after an error the file is removed.
FillHeader ==
    /\ op.pc = "fill"
    /\ \/ /\ disk' = Header(FileOf(op.copy), 1) /\ NoFault /\ UNCHANGED rec
          /\ IF op.kind = "create"
             THEN committed' = [committed EXCEPT ![op.copy] = 1] /\ Finish
             ELSE Goto("copy") /\ UNCHANGED committed
          /\ UNCHANGED damaged
       \/ /\ Fault /\ Finish
          /\ disk' = Unlinked({FileOf(op.copy)}) /\ rec' = WithoutCopy(rec)
          /\ UNCHANGED <<damaged, committed>>
    /\ UNCHANGED <<tmp, others>>

CopyData ==
    /\ op.kind = "duplicate" /\ op.pc = "copy"
    /\ Finish
    /\ \/ /\ committed' = [committed EXCEPT ![op.id] = op.v, ![op.copy] = 1]
          /\ NoFault /\ UNCHANGED <<disk, rec, damaged, leaked>>
       \/ /\ Fault
          /\ disk' = Unlinked({FileOf(op.copy)}) /\ rec' = WithoutCopy(rec)
          /\ damaged' \in {damaged, damaged \cup {op.id}}
          /\ IoEndFails(op.id, opened)
          /\ UNCHANGED committed
    /\ UNCHANGED <<tmp, used, opened, wfr, wfrcurrent, scans, ends>>

-------------------------------------------------------------------------------
\* hdd_int_delete: duplicates are removed before the chunk is looked for.  The
\* master deletes a chunk, a version it never finished or one left behind.

hdd_int_delete(id, v) ==
    /\ op = Idle /\ rec[id] # NoRec
    /\ disk' = Unlinked(Duplicates(id)) /\ wfr' = wfr \ Duplicates(id)
    /\ op' = [Idle EXCEPT !.kind = "delete", !.pc = "find", !.id = id, !.v = v]
    /\ committed' = IF v >= committed[id] THEN [committed EXCEPT ![id] = 0] ELSE committed
    /\ UNCHANGED <<tmp, rec, opened, leaked, damaged, wfrcurrent, scans, bounds>>

DeleteUnlink ==
    /\ op.kind = "delete" /\ op.pc = "find"
    /\ Finish
    /\ \/ rec[op.id].v # op.v /\ NoFault /\ UNCHANGED <<disk, rec, opened, leaked, damaged>>
       \/ rec[op.id].v = op.v /\ Fault /\ UNCHANGED <<disk, rec, opened, leaked, damaged>>
       \/ /\ rec[op.id].v = op.v /\ NoFault
          /\ disk' = Unlinked({FileOf(op.id)})
          /\ rec' = [rec EXCEPT ![op.id] = NoRec]
          /\ opened' = opened \ {op.id} /\ leaked' = leaked \ {op.id} /\ damaged' = damaged \ {op.id}
    /\ UNCHANGED <<tmp, used, wfr, wfrcurrent, scans, committed, ends>>

-------------------------------------------------------------------------------
\* hdd_int_move: a copy under a temporary name is renamed, then the old file is
\* unlinked.  A temporary file left by an earlier move makes the open fail.

hdd_int_move(id, f) ==
    /\ op = Idle /\ rec[id] # NoRec /\ id \notin damaged /\ rec[id].f # f
    /\ Working(rec[id].f) /\ Working(f) /\ \A n \in wfr : n[1] # f
    /\ \/ /\ CanRead(id) /\ <<f, id>> \notin tmp
          /\ tmp' = tmp \cup {<<f, id>>}
          /\ op' = [Idle EXCEPT !.kind = "move", !.pc = "copy", !.id = id, !.f = f]
          /\ UNCHANGED damaged
       \/ ~InUse(id) /\ ~HeaderFits(id) /\ Damage(id) /\ UNCHANGED <<tmp, op>>
    /\ NoFault /\ UNCHANGED <<disk, rec, committed, others>>


MoveCopy ==
    /\ op.kind = "move" /\ op.pc = "copy"
    /\ \/ Goto("rename") /\ NoFault /\ UNCHANGED <<tmp, damaged, leaked>>
       \/ /\ Fault /\ Finish /\ tmp' = tmp \ {<<op.f, op.id>>}
          /\ damaged' \in {damaged, damaged \cup {op.id}}
          /\ IoEndFails(op.id, opened)
    /\ UNCHANGED <<disk, rec, committed, used, opened, wfr, wfrcurrent, scans, ends>>

MoveRename ==
    /\ op.kind = "move" /\ op.pc = "rename"
    /\ SlowUnlink \/ \A n \in wfrcurrent : n[1] # op.f
    /\ tmp' = tmp \ {<<op.f, op.id>>}
    /\ \/ disk' = Header(<<op.f, op.id, rec[op.id].v>>, rec[op.id].v) /\ Goto("unlink") /\ NoFault
       \/ Fault /\ Finish /\ UNCHANGED disk
    /\ UNCHANGED <<rec, damaged, committed, others>>

MoveUnlink ==
    /\ op.kind = "move" /\ op.pc = "unlink"
    /\ Finish
    /\ disk' = Unlinked({FileOf(op.id)})
    /\ rec' = [rec EXCEPT ![op.id] = [f |-> op.f, v |-> rec[op.id].v]]
    /\ NoFault /\ UNCHANGED <<tmp, damaged, committed, others>>

-------------------------------------------------------------------------------
\* Ends of the process.  The next one starts at once.

Forget ==
    /\ ends < MaxEnds /\ ends' = ends + 1
    /\ rec' = [id \in Id |-> NoRec] /\ opened' = {} /\ leaked' = {} /\ damaged' = {}
    /\ wfr' = {} /\ wfrcurrent' = {} /\ op' = Idle /\ scanning' = Folder

Crash ==
    /\ Forget
    /\ unscanned' = [f \in Folder |-> Names(f)]
    /\ UNCHANGED <<disk, tmp, used, committed, faults>>

\* The records of a folder are written to .chunkdb unless it was not yet scanned
\* or has duplicates ...
hdd_folder_dump_chunkdb(f) ==
    [written |-> Working(f) /\ \A n \in wfr : n[1] # f,
     chunks |-> {FileOf(id) : id \in {i \in Id : rec[i].f = f}}]

\* ... and the next process takes the names from there.
hdd_folder_fastscan(f, chunkdb) == IF chunkdb.written THEN chunkdb.chunks ELSE Names(f)

hdd_term ==
    /\ op = Idle /\ wfrcurrent = {}
    /\ Forget
    /\ unscanned' = [f \in Folder |-> hdd_folder_fastscan(f, hdd_folder_dump_chunkdb(f))]
    /\ UNCHANGED <<disk, tmp, used, committed, faults>>

-------------------------------------------------------------------------------
WorkerStep ==
    \/ VersionHeader \/ VersionRename \/ RenamedHeader \/ TruncateData
    \/ CreateFile \/ FillHeader \/ CopyData \/ DeleteUnlink
    \/ MoveCopy \/ MoveRename \/ MoveUnlink

ScanStep ==
    \/ \E f \in Folder : \E n \in unscanned[f] : hdd_add_chunk(n) \/ SkipName(n)
    \/ \E f \in Folder : hdd_folder_scan(f)

WfrStep == WfrUnlink \/ \E f \in Folder : hdd_wfr_check(f)

Request ==
    \/ \E id \in Id : hdd_open(id) \/ \E w \in BOOLEAN : hdd_close(id, w)
    \/ \E id \in Id, v \in Version :
        \/ hdd_int_version(id, v) \/ hdd_int_truncate(id, v) \/ hdd_int_delete(id, v)
        \/ \E copy \in Id \ {id}, f \in Folder : hdd_int_duplicate(id, v, copy, f)
    \/ \E id \in Id, f \in Folder : hdd_int_create(id, f) \/ hdd_int_move(id, f)

Next == WorkerStep \/ ScanStep \/ WfrStep \/ Request \/ Crash \/ hdd_term

\* The threads that scan, remove duplicates and work keep running.
Spec == Init /\ [][Next]_vars /\ WF_vars(WorkerStep) /\ WF_vars(ScanStep) /\ WF_vars(WfrStep)

-------------------------------------------------------------------------------
\* The file of a chunk nobody works on is there, under the name the record
\* gives: neither an error path of an operation nor the removal of duplicates
\* takes away the file in use (hdd_add_chunk, hdd_wfr_check, hdd_close).
LiveFileKept ==
    \A id \in Id : rec[id] # NoRec /\ id \notin {op.id, op.copy} => disk[FileOf(id)] # Absent


\* Again and again there is no file but the ones in use: what a move cut off by
\* the end of the process leaves is found by the scan, put in the queue of
\* duplicates and removed by hdd_wfr_check.
Spare(n) == disk[n] # Absent /\ n # FileOf(n[2])
================================================================================
