------------------------------- MODULE Chunk -------------------------------
(***************************************************************************)
(* The copy list of one chunk in the master (src/mfsmaster/chunks.c): the  *)
(* fields of `chunk' and `slist' that decide which copies are current, and *)
(* every handler that changes them, as functions from the chunk before the *)
(* call to the chunk after it.  A handler whose result depends on data     *)
(* that is not modelled (server load, the endangered queues, random        *)
(* choice) yields the set of its possible results.                         *)
(*                                                                         *)
(* The chunk is stored in whole copies (ecid 0) and belongs to one file.   *)
(* A handler appends what it sends to chunkservers to `out' and what it    *)
(* tells the waiting client (matoclserv_chunk_status) to `told'; the       *)
(* module that calls the handler delivers both.  `rolled' is history: the  *)
(* version has been set to one that copies held to be outdated have.       *)
(***************************************************************************)
EXTENDS Integers, FiniteSets

CONSTANTS
    Csids,      \* indices of cstab: one per chunkserver connection
    Goal,       \* number of copies the storage class asks for
    HasLabels,  \* the storage class has labels (chooses the overgoal branch)
    VersionMod, \* versions of copies wrap around here (slist.version: 2^32)
    ChunkVersionMod, \* the chunk's version wraps around here (chunk.version: 2^30)
    NoServer    \* a csid that is none

ASSUME GoalAssumption == Goal \in Nat \ {0}
ASSUME CsidsAssumption == IsFiniteSet(Csids) /\ NoServer \notin Csids
ASSUME VersionAssumption ==
    VersionMod \in Nat /\ ChunkVersionMod \in Nat /\ 1 < ChunkVersionMod /\ ChunkVersionMod < VersionMod
ASSUME LabelsAssumption == HasLabels \in BOOLEAN

\* slist.valid, with NOCOPY for "no element of the list has this csid".
Valid == {"NOCOPY", "INVALID", "DEL", "BUSY", "VALID", "WVER",
          "TDBUSY", "TDVALID", "TDWVER"}
Current == {"VALID", "TDVALID"}
Busy == {"BUSY", "TDBUSY"}
WrongVersion == {"WVER", "TDWVER"}
Usable == Current \cup Busy

Operations == {"NONE", "CREATE", "SET_VERSION", "DUPLICATE", "TRUNCATE",
               "DUPTRUNC", "REPLICATE"}

Request(csid, cmd, version, old, src) ==
    [csid |-> csid, cmd |-> cmd, version |-> version, old |-> old, src |-> src]

MkChunk(version, operation, interrupted, needverincrease, valid, sver, opchunks, locked, replock, out, told, rolled) ==
    [version |-> version, operation |-> operation, interrupted |-> interrupted,
     needverincrease |-> needverincrease, valid |-> valid, sver |-> sver,
     opchunks |-> opchunks, locked |-> locked, replock |-> replock,
     out |-> out, told |-> told, rolled |-> rolled]

(***************************************************************************)
(* Single field updates.                                                   *)
(***************************************************************************)
\* The version is set back to that of copies held to be outdated so far.
RollVersion(c, v) ==
    MkChunk(v, c.operation, c.interrupted, c.needverincrease, c.valid, c.sver,
            c.opchunks, c.locked, c.replock, c.out, c.told, TRUE)

SetOp(c, op) ==
    MkChunk(c.version, op, c.interrupted, c.needverincrease, c.valid, c.sver,
            c.opchunks, c.locked, c.replock, c.out, c.told, c.rolled)

Interrupt(c) ==
    MkChunk(c.version, c.operation, TRUE, c.needverincrease, c.valid, c.sver,
            c.opchunks, c.locked, c.replock, c.out, c.told, c.rolled)

NeedVerIncrease(c, b) ==
    MkChunk(c.version, c.operation, c.interrupted, b, c.valid, c.sver,
            c.opchunks, c.locked, c.replock, c.out, c.told, c.rolled)

SetCopies(c, valid, sver) ==
    MkChunk(c.version, c.operation, c.interrupted, c.needverincrease, valid,
            sver, c.opchunks, c.locked, c.replock, c.out, c.told, c.rolled)

SetCopy(c, i, valid, sver) ==
    SetCopies(c, [c.valid EXCEPT ![i] = valid], [c.sver EXCEPT ![i] = sver])

SetOpChunks(c, S) ==
    MkChunk(c.version, c.operation, c.interrupted, c.needverincrease, c.valid,
            c.sver, S, c.locked, c.replock, c.out, c.told, c.rolled)

Lock(c, b) ==
    MkChunk(c.version, c.operation, c.interrupted, c.needverincrease, c.valid,
            c.sver, c.opchunks, b, c.replock, c.out, c.told, c.rolled)

RepLock(c, b) ==
    MkChunk(c.version, c.operation, c.interrupted, c.needverincrease, c.valid,
            c.sver, c.opchunks, c.locked, b, c.out, c.told, c.rolled)

Send(c, reqs) ==
    MkChunk(c.version, c.operation, c.interrupted, c.needverincrease, c.valid,
            c.sver, c.opchunks, c.locked, c.replock, c.out \cup reqs, c.told, c.rolled)

Tell(c, status) ==
    MkChunk(c.version, c.operation, c.interrupted, c.needverincrease, c.valid,
            c.sver, c.opchunks, c.locked, c.replock, c.out, status, c.rolled)

\* matoclserv_chunk_status: only the first status of a handler finds the client waiting.
TellStatus(c, status) == IF c.told = "NOTHING" THEN Tell(c, status) ELSE c

\* The chunk once everything a handler sent has been handed over.
Delivered(c) ==
    MkChunk(c.version, c.operation, c.interrupted, c.needverincrease, c.valid,
            c.sver, c.opchunks, c.locked, c.replock, {}, "NOTHING", c.rolled)

CopiesIn(c, S) == {i \in Csids : c.valid[i] \in S}
Listed(c) == {i \in Csids : c.valid[i] # "NOCOPY"}

TD(v) == v \in {"TDVALID", "TDBUSY", "TDWVER"}

\* Entries of D leave the list.
Unlist(c, D) ==
    SetCopies(c, [i \in Csids |-> IF i \in D THEN "NOCOPY" ELSE c.valid[i]],
                 [i \in Csids |-> IF i \in D THEN 0 ELSE c.sver[i]])

\* chunk_delopchunk for every listed copy
ClearOpChunks(c) == SetOpChunks(c, c.opchunks \ Listed(c))

(***************************************************************************)
(* Every usable copy is told to go from c.version to c.version + 1.  Used  *)
(* by the write, the truncate and the emergency path.                      *)
(***************************************************************************)
StartVersionOp(c, op) ==
    LET u == CopiesIn(c, Usable)
        v == c.version + 1
    IN MkChunk(v % ChunkVersionMod, op, FALSE, c.needverincrease,
               [i \in Csids |-> IF i \notin u THEN c.valid[i]
                                ELSE IF TD(c.valid[i]) THEN "TDBUSY" ELSE "BUSY"],
               [i \in Csids |-> IF i \in u THEN v ELSE c.sver[i]],
               c.opchunks \cup u, c.locked, c.replock,
               c.out \cup {Request(i, op, v, c.version, NoServer) : i \in u}, c.told, c.rolled)

chunk_emergency_increase_version(c) ==
    IF CopiesIn(c, Usable) = {} THEN TellStatus(c, "ERROR")
    ELSE StartVersionOp(c, "SET_VERSION")

\* No copy reached the new version: fall back to the copies one version behind.
FixNotCompletedIncrease(c) ==
    LET w == {i \in CopiesIn(c, WrongVersion) : (c.sver[i] + 1) % VersionMod = c.version} IN
    IF c.operation \in {"SET_VERSION", "TRUNCATE"} /\ CopiesIn(c, Current) = {} /\ w # {}
    THEN RollVersion(SetCopies(c,
             [i \in Csids |-> IF i \notin w THEN c.valid[i]
                              ELSE IF TD(c.valid[i]) THEN "TDVALID" ELSE "VALID"],
             c.sver), (c.version - 1) % ChunkVersionMod)
    ELSE c

(***************************************************************************)
(* chunk_do_jobs, copy mode, after chunk_remove_disconnected_chunks.  up   *)
(* is the set of connected csids, pend the requests that had been sent and *)
(* not answered before the handler (with c.out, what                       *)
(* matocsserv_operation_find and matocsserv_replication_find look up),     *)
(* extra distinguishes a job run on behalf of another handler from the     *)
(* periodic loop.                                                          *)
(***************************************************************************)
DeletePending(c, i, pend) == \E p \in pend \cup c.out : p.csid = i /\ p.cmd = "DELETE"
ReplicationPending(c, i, pend) ==
    \E p \in pend \cup c.out : p.csid = i /\ p.cmd = "REPLICATE" /\ p.version = c.version

\* send_deletechunk to every copy of D
DeleteCopies(c, D, v) ==
    Send(SetCopies(c, [i \in Csids |-> IF i \in D THEN "DEL" ELSE c.valid[i]], c.sver),
         {Request(i, "DELETE", v, 0, NoServer) : i \in D})

InvalidateBusy(c) ==
    SetCopies(c, [i \in Csids |-> IF c.valid[i] \in Busy THEN "INVALID" ELSE c.valid[i]],
                 [i \in Csids |-> IF c.valid[i] \in Busy THEN 0 ELSE c.sver[i]])

\* chunk in the middle of an operation, but no chunkserver is busy
FinishIdleOp(c) == IF CopiesIn(c, Busy) = {} THEN SetOp(c, "NONE") ELSE c

\* Mutant: the client's lock is not looked at.
Unlocked_IgnoresClient(c) == ~c.replock

Unlocked(c) == ~c.locked /\ ~c.replock

UnexpectedBusy(c) ==
    /\ Unlocked(c) /\ c.operation = "NONE"
    /\ CopiesIn(c, Busy) # {} /\ CopiesIn(c, Current) # {}

\* the highest version of the outdated copies: a singleton if there are any
BestWrongVersion(c) ==
    LET w == CopiesIn(c, WrongVersion) IN
    {v \in {c.sver[i] : i \in w} : \A i \in w : c.sver[i] =< v}

WrongVersionFixable(c) ==
    /\ Unlocked(c) /\ CopiesIn(c, Usable) = {}
    /\ Cardinality(CopiesIn(c, WrongVersion)) >= Goal
    /\ \E best \in BestWrongVersion(c) :
         best > 0 /\ ((best + 1) % VersionMod = c.version \/ c.version + 1 = best)

FixWrongVersion(c, up, best) ==
    NeedVerIncrease(RollVersion(SetCopies(c,
        [i \in Csids |-> IF c.sver[i] = best /\ i \in up /\ c.valid[i] = "WVER" THEN "VALID"
                         ELSE IF c.sver[i] = best /\ i \in up /\ c.valid[i] = "TDWVER" THEN "TDVALID"
                         ELSE c.valid[i]], c.sver), best % ChunkVersionMod), TRUE)

\* has only copies that cannot be read, or none
NothingToRecoverFrom(c) == Unlocked(c) /\ CopiesIn(c, Usable) = {}

DeleteInvalid(c, pend, extra) ==
    LET good == CopiesIn(c, {"VALID", "BUSY"})
        bad == {i \in CopiesIn(c, WrongVersion \cup {"INVALID"} \cup (IF extra THEN {} ELSE {"DEL"})) :
                    ~DeletePending(c, i, pend)}
    IN {DeleteCopies(c, D, 0) : D \in
          {D \in SUBSET bad : /\ D # {} /\ good # {}
                              /\ Cardinality(good) >= Goal \/ Cardinality(D) = 1}}

CancelReplication(c) ==
    RepLock(SetOp(SetOpChunks(InvalidateBusy(c), c.opchunks \ CopiesIn(c, Busy)), "NONE"), FALSE)

\* Mutant: one copy more than the excess is deleted.
DeleteOvergoal_OneTooMany(c, pend) ==
    LET v == CopiesIn(c, {"VALID"}) IN
    {NeedVerIncrease(DeleteCopies(c, D, c.version), TRUE) : D \in
       {D \in SUBSET v : /\ D # {} /\ Cardinality(D) + Goal =< Cardinality(v) + 1
                         /\ Cardinality(v) > Goal}}

DeleteOvergoal(c, pend) ==
    LET v == CopiesIn(c, {"VALID"}) IN
    {NeedVerIncrease(DeleteCopies(c, D, c.version), c.needverincrease \/ ~HasLabels) : D \in
       {D \in SUBSET v : /\ D # {} /\ Cardinality(D) + Goal =< Cardinality(v)
                         /\ \A i \in D : ~DeletePending(c, i, pend)}}

\* every server holds a copy and some disks are marked for removal
DeleteMarkedCopy(c, up, pend) ==
    LET v == CopiesIn(c, {"VALID"})
        t == CopiesIn(c, {"TDVALID"})
    IN IF /\ Cardinality(v) < Goal /\ Cardinality(v \cup t) > 1
          /\ Cardinality(v \cup t) >= Cardinality(up)
       THEN {NeedVerIncrease(DeleteCopies(c, {i}, c.version), TRUE) :
                i \in {j \in t : ~DeletePending(c, j, pend)}}
       ELSE {}

\* Mutant: the replication lock is not taken.
chunk_replicate_NoLock(c, src, dst) ==
    Send(SetOp(SetOpChunks(SetCopy(c, dst, "BUSY", c.version), c.opchunks \cup {dst}), "REPLICATE"),
         {Request(dst, "REPLICATE", c.version, 0, src)})

chunk_replicate(c, src, dst) ==
    Send(RepLock(SetOp(SetOpChunks(SetCopy(c, dst, "BUSY", c.version),
                                   c.opchunks \cup {dst}), "REPLICATE"), TRUE),
         {Request(dst, "REPLICATE", c.version, 0, src)})

\* chunk_get_undergoal_replicate_srccsid: any copy that can be read
UndergoalSources(c) == CopiesIn(c, Current)

Destinations(c, up, pend) == {i \in up \ Listed(c) : ~ReplicationPending(c, i, pend)}

\* not enough copies, or the right number on servers with the wrong labels
ReplicateUndergoal(c, up, pend) ==
    LET n == Cardinality(CopiesIn(c, {"VALID"})) IN
    {chunk_replicate(c, s, d) :
       s \in IF n < Goal \/ (n = Goal /\ HasLabels) THEN UndergoalSources(c) ELSE {},
       d \in Destinations(c, up, pend)}

\* a copy moves to a server with more space; never in an extra job
ReplicateRebalance(c, up, pend, extra) ==
    LET v == CopiesIn(c, {"VALID"}) IN
    {chunk_replicate(c, s, d) : s \in IF Cardinality(v) = Goal /\ ~extra THEN v ELSE {},
                                d \in Destinations(c, up, pend)}

DoJobs(c, up, pend, extra) ==
    LET k == FinishIdleOp(c) IN
    IF UnexpectedBusy(k) THEN {InvalidateBusy(k)}
    ELSE IF WrongVersionFixable(k) THEN {FixWrongVersion(k, up, best) : best \in BestWrongVersion(k)}
    ELSE IF NothingToRecoverFrom(k) THEN {k}
    ELSE DeleteInvalid(k, pend, extra) \cup
         (IF ~extra /\ k.operation = "REPLICATE" /\ ~k.replock THEN {CancelReplication(k)}
          ELSE IF k.operation # "NONE" \/ ~Unlocked(k) \/ CopiesIn(k, Busy) # {} THEN {k}
          ELSE {k} \cup DeleteOvergoal(k, pend) \cup DeleteMarkedCopy(k, up, pend)
                   \cup ReplicateUndergoal(k, up, pend) \cup ReplicateRebalance(k, up, pend, extra))

\* Mutant: the next write keeps the version although a copy was lost sight of.
DropDisconnected_KeepsVersion(c, up) == Unlist(c, Listed(c) \ up)

\* Copies on closed connections leave the list.
DropDisconnected(c, up) ==
    IF Listed(c) \subseteq up THEN c ELSE NeedVerIncrease(Unlist(c, Listed(c) \ up), TRUE)

\* The end of a replication: chunk_io_ready_check may run a job at once.
ReplicationEnds(c, up, pend) ==
    LET r == RepLock(SetOp(c, "NONE"), FALSE)
    IN {r} \cup DoJobs(DropDisconnected(r, up), up, pend, TRUE)

TellIfIdle(c) == IF c.operation = "NONE" THEN TellStatus(c, "OK") ELSE c

\* Mutant: an operation whose last busy copy is gone is left for an answer to end.
chunk_remove_disconnected_chunks_Waits(c, up, pend) ==
    {IF Listed(c) \subseteq up THEN c ELSE Interrupt(DropDisconnected(c, up))}

chunk_remove_disconnected_chunks(c, up, pend) ==
    LET d == DropDisconnected(c, up)
        g == ClearOpChunks(FixNotCompletedIncrease(d))
    IN IF Listed(c) \subseteq up \/ d.operation = "NONE" THEN {d}
       ELSE IF CopiesIn(d, Busy) # {}
            THEN {IF d.operation = "REPLICATE" THEN d ELSE Interrupt(d)}
       ELSE IF d.operation = "REPLICATE"
            THEN {TellIfIdle(k) : k \in ReplicationEnds(g, up, pend)}
       ELSE IF CopiesIn(d, Current) # {} THEN {chunk_emergency_increase_version(g)}
       ELSE {TellStatus(SetOp(g, "NONE"), "ERROR")}

chunk_do_jobs(c, up, pend, extra) ==
    UNION {DoJobs(d, up, pend, extra) : d \in chunk_remove_disconnected_chunks(c, up, pend)}

(***************************************************************************)
(* Answers of chunkservers.                                                *)
(***************************************************************************)
\* Mutant: the version of the copy is decremented as a signed number.
CopyAnswered_Signed(c, i, status) ==
    IF c.valid[i] = "NOCOPY" THEN c
    ELSE IF status = "OK" THEN SetCopy(c, i, "VALID", c.sver[i])
    ELSE IF status # "NOTDONE" THEN Interrupt(SetCopy(c, i, "INVALID", 0))
    ELSE SetCopy(c, i, "WVER", c.sver[i] - 1)

\* The copy of server i after the answer to a create, version or truncate.
CopyAnswered(c, i, status) ==
    IF c.valid[i] = "NOCOPY" THEN c
    ELSE IF status = "OK"
    THEN SetCopy(c, i, IF c.valid[i] \in {"TDBUSY", "TDVALID"} THEN "TDVALID" ELSE "VALID", c.sver[i])
    ELSE IF status # "NOTDONE" THEN Interrupt(SetCopy(c, i, "INVALID", 0))
    ELSE IF c.operation \in {"SET_VERSION", "TRUNCATE"}
    THEN SetCopy(c, i, IF c.valid[i] \in {"TDBUSY", "TDVALID"} THEN "TDWVER" ELSE "WVER",
                 (c.sver[i] - 1) % VersionMod)
    ELSE IF c.operation \in {"CREATE", "DUPLICATE", "DUPTRUNC"} THEN Unlist(c, {i})
    ELSE c

\* Mutant: the client is not told that no copy was changed.
OperationEnds_ForgetsError(c) ==
    LET g == ClearOpChunks(FixNotCompletedIncrease(c)) IN
    IF CopiesIn(c, Current) = {} THEN SetOp(g, "NONE")
    ELSE IF c.interrupted THEN chunk_emergency_increase_version(g)
    ELSE TellStatus(NeedVerIncrease(SetOp(g, "NONE"), FALSE), "OK")

OperationEnds(c) ==
    LET g == ClearOpChunks(FixNotCompletedIncrease(c)) IN
    IF CopiesIn(c, Current) = {} THEN TellStatus(SetOp(g, "NONE"), "ERROR")
    ELSE IF c.interrupted THEN chunk_emergency_increase_version(g)
    ELSE TellStatus(NeedVerIncrease(SetOp(g, "NONE"), FALSE), "OK")

\* Mutant: the first copy that is done ends the operation.
chunk_operation_status_FirstValid(c, up, pend, i, status) ==
    {LET d == CopyAnswered(k, i, status) IN
     IF CopiesIn(d, Busy) = {} \/ CopiesIn(d, Current) # {} THEN OperationEnds(d) ELSE d :
        k \in chunk_remove_disconnected_chunks(c, up, pend)}

chunk_operation_status(c, up, pend, i, status) ==
    {LET d == CopyAnswered(k, i, status) IN
     IF CopiesIn(d, Busy) = {} THEN OperationEnds(d) ELSE d :
        k \in chunk_remove_disconnected_chunks(c, up, pend)}

\* The replica of server i while the operation is still REPLICATE.
ReplicaAnswered(c, i, version, status) ==
    LET answered(d) == SetOpChunks(d, c.opchunks \ {i}) IN
    IF status # "OK" /\ c.valid[i] = "BUSY" THEN answered(Unlist(c, {i}))
    ELSE IF c.valid[i] = "NOCOPY" THEN c
    ELSE IF status # "OK" \/ version # c.version THEN answered(SetCopy(c, i, "INVALID", 0))
    ELSE IF c.valid[i] \in {"BUSY", "VALID"} THEN answered(SetCopy(c, i, "VALID", c.sver[i]))
    ELSE answered(c)

\* An answer that comes after the replication was cancelled.
LateReplica(c, i, version) ==
    IF c.valid[i] = "NOCOPY"
    THEN SetCopy(c, i, IF c.locked \/ version # c.version THEN "INVALID" ELSE "VALID", version)
    ELSE IF c.valid[i] = "VALID" /\ version # c.version THEN SetCopy(c, i, "INVALID", version)
    ELSE c

chunk_got_replicate_status(c, up, pend, i, version, status) ==
    IF c.operation = "REPLICATE"
    THEN LET d == ReplicaAnswered(c, i, version, status) IN
         IF CopiesIn(d, {"BUSY"}) # {} THEN {d}
         ELSE LET ends == ReplicationEnds(d, up, pend) IN ends \cup {TellIfIdle(k) : k \in ends}
    ELSE {IF status = "OK" THEN LateReplica(c, i, version) ELSE c}

chunk_got_delete_status(c, i, status) ==
    IF status = "OK" THEN Unlist(c, {i})
    ELSE IF c.valid[i] = "DEL" THEN SetCopy(c, i, "INVALID", c.sver[i]) ELSE c

(***************************************************************************)
(* Reports of chunkservers: a chunk found on a disk (td: on a disk marked  *)
(* for removal), a damaged copy, a copy that is gone.                      *)
(***************************************************************************)
\* Mutant: a new report of a busy copy makes it current.
Reported_BusyIsCurrent(c, i, version, td) ==
    IF c.valid[i] = "NOCOPY"
    THEN NeedVerIncrease(SetCopy(c, i, IF version # c.version THEN "WVER" ELSE "VALID", version), TRUE)
    ELSE IF c.valid[i] \in Usable THEN SetCopy(c, i, IF td THEN "TDVALID" ELSE "VALID", c.sver[i])
    ELSE c

Reported(c, i, version, td) ==
    IF c.valid[i] = "NOCOPY"
    THEN NeedVerIncrease(SetCopy(c, i, IF version # c.version
                                       THEN IF td THEN "TDWVER" ELSE "WVER"
                                       ELSE IF td THEN "TDVALID" ELSE "VALID", version), TRUE)
    ELSE IF c.valid[i] \in Busy THEN SetCopy(c, i, IF td THEN "TDBUSY" ELSE "BUSY", c.sver[i])
    ELSE IF c.valid[i] \in Current THEN SetCopy(c, i, IF td THEN "TDVALID" ELSE "VALID", c.sver[i])
    ELSE c

chunk_server_has_chunk(c, up, pend, i, version, td) ==
    {Reported(k, i, version, td) : k \in chunk_remove_disconnected_chunks(c, up, pend)}

chunk_damaged(c, i) == NeedVerIncrease(SetCopy(c, i, "INVALID", 0), TRUE)

chunk_lost(c, i) == IF c.valid[i] = "NOCOPY" THEN c ELSE NeedVerIncrease(Unlist(c, {i}), TRUE)

(***************************************************************************)
(* Client operations.  registering: some chunkserver has not finished its  *)
(* registration (cschanges).  A refused request tells "RETRY", one that    *)
(* waits for the end of the operation it started "WAIT".                   *)
(***************************************************************************)
chunk_prepare_to_modify(c, up, pend, registering) ==
    LET vc(k) == Cardinality(CopiesIn(k, Current))
        fast == IF ~registering /\ vc(c) > 0 /\ vc(c) < Goal
                THEN DoJobs(c, up, pend, TRUE) ELSE {c}
    IN IF c.operation # "NONE" \/ CopiesIn(c, Busy) # {} \/ (registering /\ vc(c) < Goal)
       THEN {Tell(c, "RETRY")}
       ELSE {IF k.operation # "NONE" \/ CopiesIn(k, Current) = {} THEN Tell(k, "RETRY") ELSE k : k \in fast}
            \cup (IF vc(c) < Goal THEN {Tell(k, "RETRY") : k \in fast} ELSE {})

\* What follows a successful preparation of a write.
Modify(c) ==
    IF c.told = "RETRY" THEN c
    ELSE IF c.needverincrease THEN Lock(Tell(StartVersionOp(c, "SET_VERSION"), "WAIT"), TRUE)
    ELSE Lock(Tell(c, "OK"), TRUE)

chunk_multi_modify(c, up, pend, registering, continueop) ==
    UNION {IF ~Unlocked(d) /\ ~continueop THEN {Tell(d, "RETRY")}
           ELSE {Modify(k) : k \in chunk_prepare_to_modify(d, up, pend, registering)} :
              d \in chunk_remove_disconnected_chunks(c, up, pend)}

Truncate(c) ==
    IF c.told = "RETRY" THEN c ELSE Lock(Tell(StartVersionOp(c, "TRUNCATE"), "WAIT"), TRUE)

chunk_multi_truncate(c, up, pend, registering) ==
    UNION {IF ~Unlocked(d) THEN {Tell(d, "RETRY")}
           ELSE {Truncate(k) : k \in chunk_prepare_to_modify(d, up, pend, registering)} :
              d \in chunk_remove_disconnected_chunks(c, up, pend)}

\* The client releases the chunk; an endangered chunk gets a job at once.
chunk_unlock(c, up, pend) ==
    LET u == Lock(c, FALSE) IN {u} \cup chunk_do_jobs(u, up, pend, TRUE)

=============================================================================
