---------------------------- MODULE ChunkSystem ----------------------------
(***************************************************************************)
(* One chunk and everything that acts on it: the master (module Chunk and  *)
(* the connection handling around it), the chunkservers that store its     *)
(* copies and execute the master's requests in background jobs, and a      *)
(* client that writes and truncates it.                                    *)
(*                                                                         *)
(* A chunkserver connection is a csid.  Requests become jobs of the server *)
(* behind the csid and are executed in any order; the answer is delivered  *)
(* only while the same connection is open.  A closed connection keeps its  *)
(* csid until chunk_server_disconnection_loop has removed its copies.      *)
(***************************************************************************)
EXTENDS Chunk

CONSTANTS
    Servers,         \* chunkservers
    Faulty,          \* servers whose disk may damage or lose a copy
    Removable,       \* servers whose disk may be marked for removal
    LateJobs,        \* jobs of a closed connection may run after it was closed
    LongReplication, \* a replication may last longer than REPLOCKTIMEOUT
    BirthOps,        \* operations that may create the chunk
    MaxVersion,      \* bound on the chunk version
    MaxWrites,       \* bound on writes and truncates
    MaxDrops         \* bound on closed connections

ASSUME ServersAssumption == NoServer \notin Servers /\ IsFiniteSet(Servers)
ASSUME SwitchesAssumption ==
    /\ Faulty \subseteq Servers /\ Removable \subseteq Servers
    /\ LateJobs \in BOOLEAN /\ LongReplication \in BOOLEAN
    /\ BirthOps \subseteq {"CREATE", "DUPLICATE", "DUPTRUNC"}
ASSUME BoundsAssumption ==
    /\ MaxVersion \in Nat /\ MaxWrites \in Nat \ {0} /\ MaxDrops \in Nat
    /\ MaxVersion < ChunkVersionMod

VARIABLES
    c,          \* the chunk in the master
    up,         \* csids with cstab.valid
    host,       \* csid -> chunkserver, NoServer when the csid is free
    registered, \* csids that have sent their chunk list
    jobs,       \* requests being executed by chunkservers
    replies,    \* answers on their way to the master
    dver,       \* version of the copy on a server's disk, NoFile when there is none
    ddata,      \* writes contained in the copy on a server's disk
    marked,     \* servers whose disk is marked for removal
    client,     \* what the client is doing
    chain,      \* chunkservers that have yet to confirm the client's data
    gver,       \* chunk version the client was told
    writes,     \* number of modifications started; the last one is current
    acked,      \* modifications confirmed to the client
    drops       \* number of connections closed so far

master == <<c, up, host, registered>>
chunkservers == <<jobs, replies, dver, ddata, marked>>
clients == <<client, chain, gver, writes, acked>>
vars == <<master, chunkservers, clients, drops>>

NoFile == -1

Job(r) == [csid |-> r.csid, srv |-> host[r.csid], cmd |-> r.cmd, version |-> r.version,
           old |-> r.old,
           src |-> IF r.src = NoServer THEN NoServer ELSE host[r.src],
           data |-> IF r.cmd = "TRUNCATE" THEN {writes'} ELSE {}, started |-> FALSE]

\* The job when its connection is closed or its replication has been started.
Orphan(j) == [csid |-> NoServer, srv |-> j.srv, cmd |-> j.cmd, version |-> j.version,
              old |-> j.old, src |-> j.src, data |-> j.data, started |-> j.started]
Started(j, D) == [csid |-> j.csid, srv |-> j.srv, cmd |-> j.cmd, version |-> j.version,
                  old |-> j.old, src |-> j.src, data |-> D, started |-> TRUE]

Pending == jobs \cup replies
Registering == up \ registered # {}

(***************************************************************************)
(* The client's part of a handler.  A status that ends the client's        *)
(* request with an error, or ends its truncation, unlocks the chunk within *)
(* the same handler.                                                       *)
(***************************************************************************)
Waiting == client \in {"CREATING", "WRITING", "TRUNCATING"}

Settled(e, U) ==
    IF Waiting /\ (e.told = "ERROR" \/ (e.told = "OK" /\ client = "TRUNCATING"))
    THEN chunk_unlock(e, U, Pending) ELSE {e}

Grant(e) ==
    /\ gver' = e.version
    /\ chain' = {host[i] : i \in CopiesIn(e, Usable) \cap up}
    /\ client' = IF chain' = {} THEN "RETRYING" ELSE "GRANTED"

matoclserv_chunk_status(e) ==
    \/ /\ ~Waiting \/ e.told \notin {"OK", "ERROR"}
       /\ UNCHANGED <<client, chain, gver, acked>>
    \/ /\ Waiting /\ e.told = "ERROR"
       /\ client' = IF client = "CREATING" THEN "ABANDONED" ELSE "IDLE"
       /\ UNCHANGED <<chain, gver, acked>>
    \/ /\ client \in {"CREATING", "WRITING"} /\ e.told = "OK"
       /\ Grant(e)
       /\ UNCHANGED acked
    \/ /\ client = "TRUNCATING" /\ e.told = "OK"
       /\ client' = "IDLE"
       /\ acked' = acked \cup {writes}
       /\ UNCHANGED <<chain, gver>>

\* The chunk becomes f, what was sent becomes jobs.
Apply(f, J) ==
    /\ f.version =< MaxVersion
    /\ c' = Delivered(f)
    /\ jobs' = J \cup {Job(r) : r \in f.out}

\* A handler of the master with possible results H.
Handle(H, U, J) ==
    \E e \in H : /\ UNCHANGED writes
                 /\ \E f \in Settled(e, U) : Apply(f, J)
                 /\ matoclserv_chunk_status(e)

(***************************************************************************)
(* Master: answers and reports of chunkservers, connections, periodic jobs *)
(***************************************************************************)
OpCommands == {"CREATE", "DUPLICATE", "DUPTRUNC", "SET_VERSION", "TRUNCATE"}

\* matocsserv_got_{createchunk,setchunkversion,truncatechunk,...}_status
GotOperationStatus(r) ==
    /\ r.cmd \in OpCommands
    /\ replies' = replies \ {r}
    /\ Handle(chunk_operation_status(c, up, Pending \ {r}, r.csid, r.status), up, jobs)
    /\ UNCHANGED <<up, host, registered, dver, ddata, marked, drops>>

GotReplicateStatus(r) ==
    /\ r.cmd = "REPLICATE"
    /\ replies' = replies \ {r}
    /\ Handle(chunk_got_replicate_status(c, up, Pending \ {r}, r.csid, r.version, r.status), up, jobs)
    /\ UNCHANGED <<up, host, registered, dver, ddata, marked, drops>>

GotDeleteStatus(r) ==
    /\ r.cmd = "DELETE"
    /\ replies' = replies \ {r}
    /\ Handle({chunk_got_delete_status(c, r.csid, r.status)}, up, jobs)
    /\ UNCHANGED <<up, host, registered, dver, ddata, marked, drops>>

\* The periodic loop; an endangered chunk gets an extra job.
chunk_jobs_main ==
    /\ \E extra \in BOOLEAN : Handle(chunk_do_jobs(c, up, Pending, extra), up, jobs)
    /\ UNCHANGED <<up, host, registered, replies, dver, ddata, marked, drops>>

\* The connection i is closed.  Its queued answers are discarded; its jobs
\* are gone with the process or run on, without an answer.
chunk_server_disconnected(i) ==
    /\ i \in up /\ drops < MaxDrops
    /\ drops' = drops + 1
    /\ up' = up \ {i}
    /\ registered' = registered \ {i}
    /\ replies' = {r \in replies : r.csid # i}
    /\ \E L \in SUBSET {j \in jobs : j.csid = i} :
         LET J == {j \in jobs : j.csid # i} \cup {Orphan(j) : j \in L}
             H == IF i \in c.opchunks THEN chunk_remove_disconnected_chunks(c, up', Pending) ELSE {c}
         IN /\ LateJobs \/ L = {}
            /\ Handle({SetOpChunks(e, e.opchunks \ {i}) : e \in H}, up', J)
    /\ UNCHANGED <<host, dver, ddata, marked>>

\* All chunks have been scanned: the csids of closed connections are free.
chunk_server_disconnection_loop ==
    /\ \E i \in Csids : host[i] # NoServer /\ i \notin up
    /\ Handle(chunk_remove_disconnected_chunks(c, up, Pending), up, jobs)
    /\ host' = [i \in Csids |-> IF i \in up THEN host[i] ELSE NoServer]
    /\ UNCHANGED <<up, registered, replies, dver, ddata, marked, drops>>

chunk_server_connected(s, i) ==
    /\ \A k \in up : host[k] # s
    /\ host[i] = NoServer
    /\ host' = [host EXCEPT ![i] = s]
    /\ up' = up \cup {i}
    /\ UNCHANGED <<c, registered, chunkservers, clients, drops>>

\* The chunk list of a registering server, and the end of the registration.
RegisterChunks(i) ==
    /\ i \in up \ registered
    /\ registered' = registered \cup {i}
    /\ LET s == host[i] IN
       Handle(IF dver[s] = NoFile THEN {c}
              ELSE chunk_server_has_chunk(c, up, Pending, i, dver[s], s \in marked), up, jobs)
    /\ UNCHANGED <<up, host, replies, dver, ddata, marked, drops>>

\* `mark for removal' of a disk changes: its chunks are reported again.
MarkChanged(i) ==
    /\ i \in registered /\ host[i] \in Removable
    /\ marked' = IF host[i] \in marked THEN marked \ {host[i]} ELSE marked \cup {host[i]}
    /\ LET s == host[i] IN
       Handle(IF dver[s] = NoFile THEN {c}
              ELSE chunk_server_has_chunk(c, up, Pending, i, dver[s], s \in marked'), up, jobs)
    /\ UNCHANGED <<up, host, registered, replies, dver, ddata, drops>>

Damaged(i) ==
    /\ i \in registered /\ host[i] \in Faulty /\ dver[host[i]] # NoFile
    /\ Handle({chunk_damaged(c, i)}, up, jobs)
    /\ UNCHANGED <<up, host, registered, replies, dver, ddata, marked, drops>>

Lost(i) ==
    /\ i \in registered /\ host[i] \in Faulty /\ dver[host[i]] # NoFile
    /\ dver' = [dver EXCEPT ![host[i]] = NoFile]
    /\ ddata' = [ddata EXCEPT ![host[i]] = {}]
    /\ Handle({chunk_lost(c, i)}, up, jobs)
    /\ UNCHANGED <<up, host, registered, replies, marked, drops>>

\* LOCKTIMEOUT after a client that has gone, REPLOCKTIMEOUT after a
\* replication that is not being executed any more or lasts too long.
LockTimeout ==
    /\ c.locked /\ client \in {"IDLE", "ABANDONED"}
    /\ c' = Lock(c, FALSE)
    /\ UNCHANGED <<up, host, registered, chunkservers, clients, drops>>

ReplockTimeout ==
    /\ c.replock
    /\ LongReplication \/ \A p \in Pending : p.cmd = "REPLICATE" => p.csid \notin up
    /\ c' = RepLock(c, FALSE)
    /\ UNCHANGED <<up, host, registered, chunkservers, clients, drops>>

(***************************************************************************)
(* Chunkserver: jobs.  An answer is sent on the connection the request     *)
(* came from, and only while that connection is open.                      *)
(***************************************************************************)
Answer(j, status) ==
    replies' = IF j.csid \in up
               THEN replies \cup {[csid |-> j.csid, cmd |-> j.cmd, version |-> j.version, status |-> status]}
               ELSE replies

\* The job ends with the given status, copy version and contents.
Done(j, status, version, data) ==
    /\ jobs' = jobs \ {j}
    /\ Answer(j, status)
    /\ dver' = [dver EXCEPT ![j.srv] = version]
    /\ ddata' = [ddata EXCEPT ![j.srv] = data]
    /\ UNCHANGED <<master, marked, clients, drops>>

Refused(j, status) == Done(j, status, dver[j.srv], ddata[j.srv])

hdd_int_create(j) ==
    /\ j.cmd \in {"CREATE", "DUPLICATE", "DUPTRUNC"}
    /\ IF dver[j.srv] = NoFile THEN Done(j, "OK", j.version, {}) ELSE Refused(j, "ERROR")

\* hdd_int_version, hdd_int_truncate
VersionFits(j) == dver[j.srv] # NoFile /\ (j.old = 0 \/ dver[j.srv] = j.old)

hdd_int_version(j) ==
    /\ j.cmd \in {"SET_VERSION", "TRUNCATE"}
    /\ IF VersionFits(j) THEN Done(j, "OK", j.version, ddata[j.srv] \cup j.data)
       ELSE Refused(j, "ERROR")

\* A connection that is still registering refuses DELETE and REPLICATE.
hdd_int_delete(j) ==
    /\ j.cmd = "DELETE"
    /\ IF j.csid \in up \ registered THEN Refused(j, "NOTDONE")
       ELSE IF dver[j.srv] = NoFile THEN Refused(j, "OK")
       ELSE IF j.version > 0 /\ dver[j.srv] # j.version THEN Refused(j, "ERROR")
       ELSE Done(j, "OK", NoFile, {})

\* replicate: a copy of version 0 is created and filled from the source ...
ReplicateStart(j) ==
    /\ j.cmd = "REPLICATE" /\ ~j.started
    /\ IF j.csid \in up \ registered THEN Refused(j, "NOTDONE")
       ELSE IF dver[j.srv] # NoFile \/ dver[j.src] # j.version THEN Refused(j, "ERROR")
       ELSE /\ jobs' = (jobs \ {j}) \cup {Started(j, ddata[j.src])}
            /\ dver' = [dver EXCEPT ![j.srv] = 0]
            /\ UNCHANGED <<master, replies, ddata, marked, clients, drops>>

\* ... and gets its version when it is complete, or is deleted.
ReplicateEnd(j) ==
    /\ j.cmd = "REPLICATE" /\ j.started
    /\ \/ dver[j.srv] = 0 /\ Done(j, "OK", j.version, j.data)
       \/ dver[j.srv] # 0 /\ Refused(j, "ERROR")
       \/ Done(j, "ERROR", IF dver[j.srv] = 0 THEN NoFile ELSE dver[j.srv],
               IF dver[j.srv] = 0 THEN {} ELSE ddata[j.srv])

Exec(j) == hdd_int_create(j) \/ hdd_int_version(j) \/ hdd_int_delete(j)
           \/ ReplicateStart(j) \/ ReplicateEnd(j)

\* job_new: the job queue is full.
Overload(j) == ~j.started /\ j.csid \in up /\ Refused(j, "NOTDONE")

\* An I/O error, before or after the new version has been stored.
DiskError(j) ==
    /\ j.srv \in Faulty /\ j.cmd \in {"SET_VERSION", "TRUNCATE"} /\ VersionFits(j)
    /\ \/ Refused(j, "ERROR")
       \/ Done(j, "ERROR", j.version, ddata[j.srv])

(***************************************************************************)
(* Client: write, truncate.                                                *)
(***************************************************************************)
\* Request number w is refused, granted at once or waits for an operation.
Ask(H, w, state) ==
    \E e \in H :
      /\ writes' = IF e.told = "RETRY" THEN writes ELSE w
      /\ Apply(e, jobs)
      /\ \/ /\ e.told = "RETRY"
            /\ client' = IF client = "IDLE" THEN "IDLE" ELSE "RETRYING"
            /\ UNCHANGED <<chain, gver>>
         \/ e.told = "OK" /\ Grant(e)
         \/ e.told = "WAIT" /\ client' = state /\ UNCHANGED <<chain, gver>>
      /\ UNCHANGED <<up, host, registered, replies, dver, ddata, marked, acked, drops>>

WriteBegin ==
    /\ client = "IDLE" /\ writes < MaxWrites
    /\ Ask(chunk_multi_modify(c, up, Pending, Registering, FALSE), writes + 1, "WRITING")

TruncateBegin ==
    /\ client = "IDLE" /\ writes < MaxWrites
    /\ Ask(chunk_multi_truncate(c, up, Pending, Registering), writes + 1, "TRUNCATING")

\* The chain failed: the client asks again, with CHUNKOPFLAG_CONTINUEOP.
WriteAgain ==
    /\ client \in {"GRANTED", "RETRYING"}
    /\ Ask(chunk_multi_modify(c, up, Pending, Registering, TRUE), writes, "WRITING")

\* A chunkserver stores the data if its copy has the version of the grant.
WriteBlock(s) ==
    /\ client = "GRANTED" /\ s \in chain /\ dver[s] = gver
    /\ ddata' = [ddata EXCEPT ![s] = @ \cup {writes}]
    /\ chain' = chain \ {s}
    /\ UNCHANGED <<master, jobs, replies, dver, marked, client, gver, writes, acked, drops>>

\* All chunkservers of the chain have confirmed: fs_writeend.
WriteEnd ==
    /\ client = "GRANTED" /\ chain = {}
    /\ UNCHANGED writes
    /\ \E f \in chunk_unlock(c, up, Pending) : Apply(f, jobs)
    /\ acked' = acked \cup {writes}
    /\ client' = "IDLE"
    /\ UNCHANGED <<up, host, registered, replies, dver, ddata, marked, chain, gver, drops>>

\* The client is gone, without a word.
ClientDies ==
    /\ client \in {"WRITING", "TRUNCATING", "GRANTED", "RETRYING"}
    /\ client' = "IDLE"
    /\ UNCHANGED <<master, chunkservers, chain, gver, writes, acked, drops>>

(***************************************************************************)
(* The first write of a new chunk has just been accepted: copies are being *)
(* created on the chunkservers S.                                          *)
(***************************************************************************)
Born(op, S) ==
    MkChunk(1, op, FALSE, TRUE, [i \in Csids |-> IF i \in S THEN "BUSY" ELSE "NOCOPY"],
            [i \in Csids |-> IF i \in S THEN 1 ELSE 0], S, TRUE, FALSE, {}, "NOTHING", FALSE)

Birth(i, op) == [csid |-> i, srv |-> host[i], cmd |-> op, version |-> 1, old |-> 0,
                 src |-> NoServer, data |-> {}, started |-> FALSE]

Init ==
    /\ host \in [Csids -> Servers \cup {NoServer}]
    /\ \A s \in Servers : \E i \in Csids : \A k \in Csids : host[k] = s <=> k = i
    /\ up = {i \in Csids : host[i] # NoServer}
    /\ registered = up
    /\ \E op \in BirthOps, S \in SUBSET up :
         /\ S # {} /\ Cardinality(S) =< Goal
         /\ c = Born(op, S)
         /\ jobs = {Birth(i, op) : i \in S}
    /\ replies = {} /\ marked = {}
    /\ dver = [s \in Servers |-> NoFile] /\ ddata = [s \in Servers |-> {}]
    /\ client = "CREATING" /\ chain = {} /\ gver = 0 /\ writes = 1 /\ acked = {} /\ drops = 0

Master ==
    \/ \E r \in replies : GotOperationStatus(r) \/ GotReplicateStatus(r) \/ GotDeleteStatus(r)
    \/ chunk_jobs_main \/ chunk_server_disconnection_loop \/ LockTimeout \/ ReplockTimeout
    \/ \E i \in Csids : \/ chunk_server_disconnected(i) \/ RegisterChunks(i)
                        \/ MarkChanged(i) \/ Damaged(i) \/ Lost(i)
                        \/ \E s \in Servers : chunk_server_connected(s, i)

Chunkserver == \E j \in jobs : Exec(j) \/ Overload(j) \/ DiskError(j)

Client == \/ WriteBegin \/ TruncateBegin \/ WriteAgain \/ WriteEnd \/ ClientDies
          \/ \E s \in Servers : WriteBlock(s)

Next == Master \/ Chunkserver \/ Client

Spec == Init /\ [][Next]_vars

(***************************************************************************)
(* Fairness, stated on what the steps consume: the workers of a server     *)
(* take its jobs, the master reads the answers of every open connection    *)
(* and its periodic loop frees the csids of closed ones.                   *)
(***************************************************************************)
JobTaken(i) ==
    \E j \in jobs :
      /\ j.csid = i
      /\ \/ jobs' = jobs \ {j}
         \/ j.cmd = "REPLICATE" /\ jobs' = (jobs \ {j}) \cup {Started(j, ddata[j.src])}
AnswerRead(i) == \E r \in replies : r.csid = i /\ replies' = replies \ {r}
CsidsFreed == host' = [i \in Csids |-> IF i \in up THEN host[i] ELSE NoServer]

FairSpec ==
    /\ Spec
    /\ \A i \in Csids : WF_jobs(JobTaken(i)) /\ WF_replies(AnswerRead(i))
    /\ WF_host(CsidsFreed)

(***************************************************************************)
(* Properties                                                              *)
(***************************************************************************)
Commands == OpCommands \cup {"DELETE", "REPLICATE"}
Versions == 0 .. VersionMod - 1
ChunkVersions == 0 .. ChunkVersionMod - 1
Writes == 1 .. MaxWrites

ChunkType ==
    [version : ChunkVersions, operation : Operations, interrupted : BOOLEAN, needverincrease : BOOLEAN,
     valid : [Csids -> Valid], sver : [Csids -> Versions], opchunks : SUBSET Csids,
     locked : BOOLEAN, replock : BOOLEAN, out : {{}}, told : {"NOTHING"}, rolled : BOOLEAN]

\* Only a replication has a source.
JobType ==
    [csid : Csids \cup {NoServer}, srv : Servers, cmd : Commands \ {"REPLICATE"}, version : Versions,
     old : Versions, src : {NoServer}, data : SUBSET Writes, started : {FALSE}]
    \cup
    [csid : Csids \cup {NoServer}, srv : Servers, cmd : {"REPLICATE"}, version : Versions,
     old : Versions, src : Servers, data : SUBSET Writes, started : BOOLEAN]

ReplyType ==
    [csid : Csids, cmd : Commands, version : Versions, status : {"OK", "NOTDONE", "ERROR"}]

\* Types; in particular versions stay within their width, jobs and answers
\* belong to open connections or none, open connections to a chunkserver.
TypeOK ==
    /\ c \in ChunkType
    /\ up \subseteq Csids /\ registered \subseteq up
    /\ host \in [Csids -> Servers \cup {NoServer}] /\ \A i \in up : host[i] \in Servers
    /\ jobs \subseteq JobType /\ \A j \in jobs : j.csid \in up \cup {NoServer}
    /\ replies \subseteq ReplyType /\ \A r \in replies : r.csid \in up
    /\ dver \in [Servers -> Versions \cup {NoFile}] /\ ddata \in [Servers -> SUBSET Writes]
    /\ marked \subseteq Removable /\ chain \subseteq Servers
    /\ client \in {"IDLE", "CREATING", "WRITING", "TRUNCATING", "GRANTED", "RETRYING", "ABANDONED"}
    /\ gver \in Versions /\ writes \in Writes /\ acked \subseteq Writes
    /\ drops \in 0 .. MaxDrops

\* Copies on open connections that the master takes for readable.
Readable == CopiesIn(c, Current) \cap up

\* A chunk without an operation has no busy copy: chunk_operation_status and
\* chunk_got_replicate_status end an operation only when its last busy copy has
\* been answered for, and everything that makes a copy busy starts an operation.
IdleNotBusy == c.operation = "NONE" => CopiesIn(c, Busy) = {}

\* The master is right about versions: while no operation is in progress, a copy
\* it lists as VALID or TDVALID on an open connection is on that chunkserver's
\* disk, with exactly the chunk's version.  This is what chunk_get_version_and_csdata
\* hands to clients and what the chunkserver compares on every read and write.
ReadableOnDisk ==
    c.operation = "NONE" => \A i \in Readable : dver[host[i]] = c.version

\* No stale copy is readable: while no operation is in progress, a copy listed as
\* current holds every modification that was confirmed to a client, whatever
\* chunkservers disconnected and came back in between (needverincrease).  Once
\* the master has rolled the version back it has chosen older copies knowingly.
ReadableIsFresh ==
    c.operation = "NONE" /\ ~c.rolled => \A i \in Readable : acked \subseteq ddata[host[i]]

\* The deletions of chunk_do_jobs (invalid, overgoal and marked copies), late and
\* repeated as they may be executed, never remove the last copy that holds
\* everything that was confirmed.
NothingLost == ~c.rolled => \E s \in Servers : acked \subseteq ddata[s]

\* From the moment chunk_status tells a client where to write until the client
\* is done, its chunk stays locked, without an operation and at the version it
\* was told: no job, replication or version change happens under a writer.
GrantHolds ==
    client = "GRANTED" => c.locked /\ c.version = gver /\ c.operation = "NONE"

\* A replication a connected chunkserver is still to execute runs under the
\* operation REPLICATE and the replication lock that chunk_replicate took: no
\* write is granted while a copy of the chunk is being made.
ReplicationHeld ==
    \A j \in jobs : j.cmd = "REPLICATE" /\ j.csid \in up => c.operation = "REPLICATE" /\ c.replock

\* No operation is orphaned: an operation has a busy copy, and for every busy
\* copy on an open connection a request is being executed or an answer is on its
\* way, so that chunk_operation_status or chunk_got_replicate_status will end it.
OperationAlive ==
    /\ c.operation # "NONE" => CopiesIn(c, Busy) # {}
    /\ \A i \in CopiesIn(c, Busy) \cap up : \E p \in Pending : p.csid = i /\ p.cmd # "DELETE"

\* The version is set back only when the version increase was not completed: no
\* chunkserver has stored a copy with the version that is given up, as the
\* comment in chunk_remove_disconnected_chunks and chunk_operation_status says.
RollbackNotCompleted ==
    [][c'.version < c.version => \A s \in Servers : dver[s] # c.version]_vars

\* Every create, version, truncate and duplicate operation comes to an end, and
\* with it the state in which writers are refused, although chunkservers
\* disconnect, refuse requests or fail in the middle of it.  (A replication ends
\* too, but the jobs loop may start the next one in the same handler.)
OperationFinishes == []<>(c.operation \in {"NONE", "REPLICATE"})

\* A client that waits for the operation its write, truncate or create started
\* is told how it ended (matoclserv_chunk_status), whatever happens to the
\* chunkservers that execute it.
ClientAnswered == Waiting ~> ~Waiting

=============================================================================
