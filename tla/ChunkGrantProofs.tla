-------------------------- MODULE ChunkGrantProofs --------------------------
(***************************************************************************)
(* GrantHolds, OperationAlive and ReplicationHeld for every system without *)
(* faulty disks, without disks marked for removal and without replications *)
(* that outlive REPLOCKTIMEOUT, whatever connections are closed and        *)
(* whatever jobs run on after their connection was closed.                 *)
(*                                                                         *)
(* None of the three is inductive.  What makes them so is that master and  *)
(* chunkservers agree on what is in flight: a connection has at most one   *)
(* request, that request is of the kind the copy's state says, and every   *)
(* busy copy has one.  So no late answer meets a chunk it was not meant    *)
(* for.                                                                    *)
(***************************************************************************)
EXTENDS ChunkSystemProofs

\* No faults, no disks marked for removal, no replication past its lock.
Calm == Removable = {} /\ Faulty = {} /\ ~LongReplication

\* The connections that have a message of P with a command of C.
Asked(P, C) == {i \in Csids : \E p \in P : p.csid = i /\ p.cmd \in C}

\* Requests in flight: for an operation, a replication, a deletion.
Operating(P) == Asked(P, OpCommands)
Replicating(P) == Asked(P, {"REPLICATE"})
Deleting(P) == Asked(P, {"DELETE"})

\* The state of a copy and of the chunk that a request in flight stands for.
Fitting(k, P) ==
    /\ \A i \in Operating(P) : k.valid[i] = "BUSY" /\ k.operation \notin {"NONE", "REPLICATE"}
    /\ \A i \in Replicating(P) : k.valid[i] = "BUSY" /\ k.operation = "REPLICATE" /\ k.replock
    /\ \A i \in Deleting(P) : k.valid[i] = "DEL"

\* What a handler sends goes to connections that have nothing in flight.
SentOnce(k, P) ==
    /\ \A r \in k.out, s \in k.out : r.csid = s.csid => r = s
    /\ \A r \in k.out, p \in P : r.csid # p.csid

\* Busy copies on open connections have a request in flight.
Served(k, U, P) ==
    \A i \in U : k.valid[i] = "BUSY" => i \in Operating(P) \cup Replicating(P)

\* An operation has a busy copy.
Working(k) == k.operation # "NONE" => \E i \in Csids : k.valid[i] = "BUSY"

\* A chunk inside a handler and the requests P that were in flight before it.
Linked(k, U, P) ==
    /\ Fitting(k, P \cup k.out) /\ SentOnce(k, P) /\ Served(k, U, P \cup k.out)

\* A connection has at most one request or answer in flight.
InFlightOnce(J, R) ==
    /\ \A j \in J, k \in J : j.csid = k.csid /\ j.csid \in Csids => j = k
    /\ \A r \in R, q \in R : r.csid = q.csid => r = q
    /\ \A j \in J, r \in R : j.csid # r.csid

\* What the client's state says about the chunk.
ClientHeld ==
    /\ client \notin {"IDLE", "ABANDONED"} => c.locked
    /\ Waiting => c.operation \notin {"NONE", "REPLICATE"}
    /\ client \in {"GRANTED", "RETRYING"} => c.operation = "NONE"
    /\ client = "GRANTED" => gver = c.version

\* The master's view k of the chunk, the open connections U, jobs and answers.
Held(k, U, J, R) ==
    /\ Fitting(k, J \cup R) /\ Served(k, U, J \cup R) /\ Working(k) /\ InFlightOnce(J, R)

\* A free csid has no copy: chunk_server_disconnection_loop has removed them.
FreeUnlisted == \A i \in Csids : host[i] = NoServer => c.valid[i] = "NOCOPY"

\* The inductive invariant.
HeldInv == Held(c, up, jobs, replies) /\ FreeUnlisted /\ ClientHeld

\* Messages between the master and the connections U, or of jobs without one.
Open(P, U) == \A p \in P : p.cmd \in Commands /\ p.csid \in U \cup {NoServer}

\* What a handler does to a locked chunk: it stays locked; without an operation
\* it keeps its version and no job is started; an operation of the client either
\* goes on or ends, and its end is told.
Kept(e, k) ==
    /\ e.locked = k.locked
    /\ k.locked /\ k.operation = "NONE" =>
         e.operation = "NONE" /\ e.version = k.version /\ e.told = k.told
    /\ k.locked /\ k.operation \notin {"NONE", "REPLICATE"} /\ k.told = "NOTHING" =>
         \/ e.operation \notin {"NONE", "REPLICATE"} /\ e.told = "NOTHING"
         \/ e.operation = "NONE" /\ e.told \in {"OK", "ERROR"}

\* Handlers run one after the other.
LEMMA KeptComposes ==
  ASSUME NEW k, NEW d, NEW e, Kept(d, k), Kept(e, d)
  PROVE  Kept(e, k)
  BY DEF Kept

\* Requests in flight, old and new, are addressed to open connections.
LEMMA AskedOpen ==
  ASSUME NEW U \in SUBSET Csids, NEW P, Open(P, U), NEW k, Good(k, U)
  PROVE  /\ Operating(P \cup k.out) \subseteq U
         /\ Replicating(P \cup k.out) \subseteq U
         /\ Deleting(P \cup k.out) \subseteq U
         /\ Open(P \cup k.out, U)
  <1>1. ASSUME NEW r \in k.out PROVE r.cmd \in Commands /\ r.csid \in U
    <2>1. r \in Requests(U)
      BY DEF Good, HandlerType
    <2>2. CASE r \in [csid : U, cmd : Commands \ {"REPLICATE"}, version : Versions, old : Versions,
                      src : {NoServer}]
      BY <2>2
    <2>3. CASE r \in [csid : U, cmd : {"REPLICATE"}, version : Versions, old : Versions, src : U]
      BY <2>3 DEF Commands
    <2> QED BY <2>1, <2>2, <2>3 DEF Requests
  <1>2. Open(P \cup k.out, U)
    BY <1>1 DEF Open
  <1> QED BY <1>2, CsidsAssumption DEF Open, Operating, Replicating, Deleting, Asked

\* A connection whose copy is neither busy nor being deleted has nothing in flight.
LEMMA NothingInFlight ==
  ASSUME NEW U, NEW Q, Open(Q, U), NEW k, Fitting(k, Q), NEW i \in Csids,
         k.valid[i] # "BUSY", k.valid[i] # "DEL"
  PROVE  \A q \in Q : q.csid # i
  <1> SUFFICES ASSUME NEW q \in Q, q.csid = i PROVE FALSE
    OBVIOUS
  <1>1. i \in Operating(Q) \cup Replicating(Q) \cup Deleting(Q)
    BY DEF Open, Commands, Operating, Replicating, Deleting, Asked
  <1> QED BY <1>1 DEF Fitting

\* Without busy copies only deletions are in flight.
LEMMA NobodyBusy ==
  ASSUME NEW U \in SUBSET Csids, NEW P, Open(P, U), NEW k, Good(k, U), Linked(k, U, P),
         \A i \in U : k.valid[i] # "BUSY"
  PROVE  Operating(P \cup k.out) = {} /\ Replicating(P \cup k.out) = {}
  BY AskedOpen, Zenon DEF Linked, Fitting

\* A change that sends nothing and neither makes a copy busy nor idle.
LEMMA LinkedBy ==
  ASSUME NEW U \in SUBSET Csids, NEW P, Open(P, U), NEW k, NEW e, Good(k, U), Linked(k, U, P),
         e.out = k.out,
         \A i \in U : /\ e.valid[i] = "BUSY" <=> k.valid[i] = "BUSY"
                      /\ k.valid[i] = "DEL" => e.valid[i] = "DEL",
         \/ e.operation = k.operation /\ (k.replock => e.replock)
         \/ \A i \in U : k.valid[i] # "BUSY"
  PROVE  Linked(e, U, P)
  <1>1. SentOnce(e, P)
    BY DEF Linked, SentOnce
  <1>2. Served(e, U, P \cup e.out)
    BY Zenon DEF Linked, Served
  <1>3. /\ Operating(P \cup k.out) \subseteq U
        /\ Replicating(P \cup k.out) \subseteq U
        /\ Deleting(P \cup k.out) \subseteq U
    BY AskedOpen, Zenon
  <1>4. Fitting(e, P \cup e.out)
    BY <1>3 DEF Linked, Fitting
  <1> QED BY <1>1, <1>2, <1>4 DEF Linked

\* N is one request cmd to each connection of S.
Addressed(N, S, cmd) ==
    /\ \A r \in N : r.csid \in S /\ r.cmd = cmd
    /\ \A i \in S : \E r \in N : r.csid = i
    /\ \A r \in N, q \in N : r.csid = q.csid => r = q

LEMMA RequestsAddressed ==
  ASSUME NEW S, NEW cmd, NEW v, NEW o, NEW s
  PROVE  Addressed({Request(i, cmd, v, o, s) : i \in S}, S, cmd)
  <1> DEFINE N == {Request(i, cmd, v, o, s) : i \in S}
  <1>1. \A r \in N : r.csid \in S /\ r.cmd = cmd /\ r = Request(r.csid, cmd, v, o, s)
    BY DEF Request
  <1>2. ASSUME NEW i \in S PROVE \E r \in N : r.csid = i
    <2>1. Request(i, cmd, v, o, s) \in N
      OBVIOUS
    <2> QED BY <2>1 DEF Request
  <1> HIDE DEF N
  <1>3. Addressed(N, S, cmd)
    BY <1>1, <1>2 DEF Addressed
  <1> QED BY <1>3 DEF N

\* From k to e, cmd is sent to the connections S, which have nothing in flight.
Sends(e, k, P, S, cmd) ==
    /\ \E N : Addressed(N, S, cmd) /\ e.out = k.out \cup N
    /\ \A i \in S : \A q \in P \cup k.out : q.csid # i

\* O, R and D are the connections with a request in flight, by its kind.
InFlight(k, P, O, R, D) ==
    Operating(P \cup k.out) = O /\ Replicating(P \cup k.out) = R /\ Deleting(P \cup k.out) = D

\* What is in flight after requests have been sent.
LEMMA SendEffect ==
  ASSUME NEW P, NEW k, NEW e, NEW S \in SUBSET Csids, NEW cmd, SentOnce(k, P), Sends(e, k, P, S, cmd)
  PROVE  /\ SentOnce(e, P)
         /\ cmd \in OpCommands => InFlight(e, P, Operating(P \cup k.out) \cup S,
                                           Replicating(P \cup k.out), Deleting(P \cup k.out))
         /\ cmd = "REPLICATE" => InFlight(e, P, Operating(P \cup k.out),
                                          Replicating(P \cup k.out) \cup S, Deleting(P \cup k.out))
         /\ cmd = "DELETE" => InFlight(e, P, Operating(P \cup k.out),
                                       Replicating(P \cup k.out), Deleting(P \cup k.out) \cup S)
  <1>1. PICK N : Addressed(N, S, cmd) /\ e.out = k.out \cup N
    BY DEF Sends
  <1>2. SentOnce(e, P)
    BY <1>1 DEF SentOnce, Addressed, Sends
  <1>3. ASSUME NEW C PROVE Asked(P \cup e.out, C) = IF cmd \in C THEN Asked(P \cup k.out, C) \cup S
                                                   ELSE Asked(P \cup k.out, C)
    BY <1>1 DEF Asked, Addressed
  <1>4. /\ Operating(P \cup e.out) = IF cmd \in OpCommands THEN Operating(P \cup k.out) \cup S
                                     ELSE Operating(P \cup k.out)
        /\ Replicating(P \cup e.out) = IF cmd \in {"REPLICATE"} THEN Replicating(P \cup k.out) \cup S
                                       ELSE Replicating(P \cup k.out)
        /\ Deleting(P \cup e.out) = IF cmd \in {"DELETE"} THEN Deleting(P \cup k.out) \cup S
                                    ELSE Deleting(P \cup k.out)
    BY <1>3 DEF Operating, Replicating, Deleting
  <1>5. CASE cmd \in OpCommands
    BY <1>2, <1>4, <1>5, Zenon DEF InFlight, OpCommands
  <1>6. CASE cmd = "REPLICATE"
    BY <1>2, <1>4, <1>6, Zenon DEF InFlight, OpCommands
  <1>7. CASE cmd = "DELETE"
    BY <1>2, <1>4, <1>7 DEF InFlight, OpCommands
  <1> QED BY <1>2, <1>5, <1>6, <1>7

(***************************************************************************)
(* The handlers of module Chunk.                                           *)
(***************************************************************************)
\* No copy is on a marked disk.
LEMMA NoMarks ==
  ASSUME Calm, NEW U, NEW k, Good(k, U), NEW i \in Csids
  PROVE  /\ k.valid[i] \in {"NOCOPY", "INVALID", "DEL", "BUSY", "VALID", "WVER"}
         /\ k.operation = "NONE" => k.valid[i] # "BUSY"
  BY DEF Calm, Good, HandlerType, Quiet, TD, Valid

\* A version increase: the current copies become busy, each with one request.
LEMMA StartVersionOpLinked ==
  ASSUME Calm, NEW U \in SUBSET Csids, NEW P, Open(P, U), NEW k, Clean(k, U), Linked(k, U, P),
         \A i \in Csids : k.valid[i] # "BUSY", CopiesIn(k, Current) # {},
         NEW op \in {"SET_VERSION", "TRUNCATE"}
  PROVE  /\ Linked(StartVersionOp(k, op), U, P) /\ Working(StartVersionOp(k, op))
         /\ StartVersionOp(k, op).locked = k.locked
         /\ StartVersionOp(k, op).told = k.told
         /\ StartVersionOp(k, op).operation = op
  <1> DEFINE u == CopiesIn(k, Usable)
             N == {Request(i, op, k.version + 1, k.version, NoServer) : i \in u}
             va == [i \in Csids |-> IF i \notin u THEN k.valid[i]
                                    ELSE IF TD(k.valid[i]) THEN "TDBUSY" ELSE "BUSY"]
             e == StartVersionOp(k, op)
  <1>1. /\ e.valid = va /\ e.operation = op /\ e.locked = k.locked /\ e.told = k.told
        /\ e.out = k.out \cup N
    BY DEF StartVersionOp, MkChunk
  <1>2. Good(k, U) /\ Open(P \cup k.out, U) /\ Fitting(k, P \cup k.out)
    BY AskedOpen DEF Clean, Linked
  <1>3. \A i \in Csids : i \in u <=> k.valid[i] = "VALID"
    BY <1>2, NoMarks DEF CopiesIn, Usable, Current, Busy
  <1>4. u \in SUBSET Csids /\ u # {}
    BY DEF CopiesIn, Usable
  <1>5. \A i \in Csids : va[i] = IF i \in u THEN "BUSY" ELSE k.valid[i]
    BY <1>3 DEF TD
  <1>0. Addressed(N, u, op)
    BY RequestsAddressed
  <1> HIDE DEF u, N, va, e
  <1>6. \A i \in u : \A q \in P \cup k.out : q.csid # i
    BY <1>2, <1>3, <1>4, NothingInFlight
  <1>7. SentOnce(k, P) /\ Sends(e, k, P, u, op)
    BY <1>0, <1>1, <1>6 DEF Linked, Sends
  <1>8. op \in OpCommands
    BY DEF OpCommands
  <1>9. /\ SentOnce(e, P)
        /\ InFlight(e, P, Operating(P \cup k.out) \cup u, Replicating(P \cup k.out), Deleting(P \cup k.out))
    BY <1>4, <1>7, <1>8, SendEffect, Zenon
  <1>10. /\ Operating(P \cup e.out) = u /\ Replicating(P \cup e.out) = {}
         /\ Deleting(P \cup e.out) = Deleting(P \cup k.out)
    <2>1. Operating(P \cup k.out) = {} /\ Replicating(P \cup k.out) = {}
      BY <1>2, NobodyBusy
    <2> QED BY <1>9, <2>1, Zenon DEF InFlight
  <1>11. Deleting(P \cup k.out) \subseteq U
    BY <1>2, AskedOpen
  <1>12. Fitting(e, P \cup e.out)
    BY <1>1, <1>2, <1>3, <1>4, <1>5, <1>10, <1>11, Zenon DEF Fitting
  <1>13. Served(e, U, P \cup e.out)
    BY <1>1, <1>5, <1>10 DEF Served
  <1>14. Working(e)
    BY <1>1, <1>4, <1>5 DEF Working
  <1> QED BY <1>1, <1>9, <1>12, <1>13, <1>14 DEF Linked, e

\* chunk_emergency_increase_version of a chunk with current copies.
LEMMA EmergencyLinked ==
  ASSUME Calm, NEW U \in SUBSET Csids, NEW P, Open(P, U), NEW k, Clean(k, U), Linked(k, U, P),
         \A i \in Csids : k.valid[i] # "BUSY", CopiesIn(k, Current) # {}
  PROVE  LET e == chunk_emergency_increase_version(k)
         IN /\ Linked(e, U, P) /\ Working(e) /\ e.locked = k.locked /\ e.told = k.told
            /\ e.operation = "SET_VERSION"
  <1>1. chunk_emergency_increase_version(k) = StartVersionOp(k, "SET_VERSION")
    BY DEF chunk_emergency_increase_version, CopiesIn, Usable
  <1> QED BY <1>1, StartVersionOpLinked

\* The roll back of a version increase nobody completed touches outdated copies.
LEMMA FixNotCompletedLinked ==
  ASSUME NEW U \in SUBSET Csids, NEW P, Open(P, U), NEW k, Clean(k, U), Linked(k, U, P)
  PROVE  LET e == FixNotCompletedIncrease(k)
         IN /\ Linked(e, U, P) /\ e.locked = k.locked /\ e.told = k.told /\ e.operation = k.operation
  <1> DEFINE w == {i \in CopiesIn(k, WrongVersion) : (k.sver[i] + 1) % VersionMod = k.version}
             va == [i \in Csids |-> IF i \notin w THEN k.valid[i]
                                    ELSE IF TD(k.valid[i]) THEN "TDVALID" ELSE "VALID"]
             e == RollVersion(SetCopies(k, va, k.sver), (k.version - 1) % ChunkVersionMod)
  <1>1. FixNotCompletedIncrease(k) \in {k, e}
    BY DEF FixNotCompletedIncrease
  <1>2. /\ e.valid = va /\ e.operation = k.operation /\ e.replock = k.replock
        /\ e.out = k.out /\ e.locked = k.locked /\ e.told = k.told
    BY Zenon DEF RollVersion, SetCopies, MkChunk
  <1>3. \A i \in Csids : /\ va[i] = "BUSY" <=> k.valid[i] = "BUSY"
                         /\ k.valid[i] = "DEL" => va[i] = "DEL"
    BY Zenon DEF CopiesIn, WrongVersion, TD
  <1> HIDE DEF e, va
  <1>4. Linked(e, U, P)
    BY <1>2, <1>3, LinkedBy DEF Clean
  <1> QED BY <1>1, <1>2, <1>4

\* Copies on closed connections leave the list.
LEMMA DropDisconnectedLinked ==
  ASSUME NEW U \in SUBSET Csids, NEW P, Open(P, U), NEW k, Good(k, U), Linked(k, U, P)
  PROVE  LET e == DropDisconnected(k, U)
         IN /\ Linked(e, U, P) /\ e.locked = k.locked /\ e.told = k.told /\ e.operation = k.operation
            /\ e.version = k.version /\ \A i \in U : e.valid[i] = k.valid[i]
  <1> DEFINE D == Listed(k) \ U
             va == [i \in Csids |-> IF i \in D THEN "NOCOPY" ELSE k.valid[i]]
             sv == [i \in Csids |-> IF i \in D THEN 0 ELSE k.sver[i]]
             e == NeedVerIncrease(SetCopies(k, va, sv), TRUE)
  <1>1. DropDisconnected(k, U) \in {k, e}
    BY DEF DropDisconnected, Unlist
  <1>2. /\ e.valid = va /\ e.operation = k.operation /\ e.replock = k.replock
        /\ e.out = k.out /\ e.locked = k.locked /\ e.told = k.told /\ e.version = k.version
    BY Zenon DEF NeedVerIncrease, SetCopies, MkChunk
  <1>3. \A i \in U : va[i] = k.valid[i]
    OBVIOUS
  <1> HIDE DEF e, va
  <1>4. Linked(e, U, P)
    BY <1>2, <1>3, LinkedBy
  <1> QED BY <1>1, <1>2, <1>3, <1>4

\* Updates that leave copies, operation, replication lock and messages alone.
LEMMA LinkedSame ==
  ASSUME NEW U, NEW P, NEW k, NEW e,
         e.valid = k.valid, e.operation = k.operation, e.replock = k.replock, e.out = k.out
  PROVE  /\ Linked(k, U, P) => Linked(e, U, P)
         /\ Working(k) => Working(e)
  BY DEF Linked, Fitting, SentOnce, Served, Working

LEMMA SettersLinked ==
  ASSUME NEW U, NEW P, NEW k
  PROVE  /\ Linked(k, U, P) => /\ Linked(Interrupt(k), U, P)
                               /\ \A b : /\ Linked(NeedVerIncrease(k, b), U, P)
                                         /\ Linked(Lock(k, b), U, P)
                                         /\ Linked(Tell(k, b), U, P)
                                         /\ Linked(TellStatus(k, b), U, P)
                                         /\ Linked(SetOpChunks(k, b), U, P)
         /\ Working(k) => /\ Working(Interrupt(k))
                          /\ \A b : /\ Working(NeedVerIncrease(k, b))
                                    /\ Working(Lock(k, b))
                                    /\ Working(Tell(k, b))
                                    /\ Working(TellStatus(k, b))
                                    /\ Working(SetOpChunks(k, b))
  <1> DEFINE Same(e) == /\ e.valid = k.valid /\ e.operation = k.operation
                        /\ e.replock = k.replock /\ e.out = k.out
  <1>1. /\ Same(Interrupt(k))
        /\ \A b : /\ Same(NeedVerIncrease(k, b)) /\ Same(Lock(k, b)) /\ Same(Tell(k, b))
                  /\ Same(TellStatus(k, b)) /\ Same(SetOpChunks(k, b))
    BY DEF Interrupt, NeedVerIncrease, Lock, Tell, TellStatus, SetOpChunks, MkChunk
  <1>2. \A e : Same(e) => /\ Linked(k, U, P) => Linked(e, U, P)
                          /\ Working(k) => Working(e)
    BY LinkedSame
  <1> HIDE DEF Same
  <1> QED BY <1>1, <1>2

\* Sending DELETE to copies that are not busy and have nothing in flight.
LEMMA DeleteCopiesLinked ==
  ASSUME NEW U \in SUBSET Csids, NEW P, Open(P, U), NEW k, Clean(k, U), Linked(k, U, P),
         NEW D \in SUBSET Csids, NEW v,
         \A i \in D : k.valid[i] # "BUSY" /\ \A q \in P \cup k.out : q.csid # i
  PROVE  LET e == DeleteCopies(k, D, v)
         IN /\ Linked(e, U, P) /\ (Working(k) => Working(e))
            /\ e.locked = k.locked /\ e.told = k.told
            /\ e.operation = k.operation /\ e.version = k.version
  <1> DEFINE N == {Request(i, "DELETE", v, 0, NoServer) : i \in D}
             va == [i \in Csids |-> IF i \in D THEN "DEL" ELSE k.valid[i]]
             e == DeleteCopies(k, D, v)
  <1>1. /\ e.valid = va /\ e.operation = k.operation /\ e.replock = k.replock /\ e.locked = k.locked
        /\ e.told = k.told /\ e.version = k.version /\ e.out = k.out \cup N
    BY Zenon DEF DeleteCopies, Send, SetCopies, MkChunk
  <1>2. Addressed(N, D, "DELETE")
    BY RequestsAddressed
  <1>3. \A i \in Csids : va[i] = IF i \in D THEN "DEL" ELSE k.valid[i]
    OBVIOUS
  <1> HIDE DEF N, va, e
  <1>4. SentOnce(k, P) /\ Sends(e, k, P, D, "DELETE")
    BY <1>1, <1>2 DEF Linked, Sends
  <1>5. /\ SentOnce(e, P)
        /\ InFlight(e, P, Operating(P \cup k.out), Replicating(P \cup k.out), Deleting(P \cup k.out) \cup D)
    BY <1>4, SendEffect, Zenon
  <1>6. /\ Operating(P \cup k.out) \subseteq U /\ Replicating(P \cup k.out) \subseteq U
        /\ Deleting(P \cup k.out) \subseteq U
    BY AskedOpen, Zenon DEF Clean
  <1>7. Fitting(k, P \cup k.out) /\ Served(k, U, P \cup k.out)
    BY Zenon DEF Linked
  <1>8. Fitting(e, P \cup e.out)
    BY <1>1, <1>3, <1>5, <1>6, <1>7, Zenon DEF Fitting, InFlight
  <1>9. Served(e, U, P \cup e.out)
    BY <1>1, <1>3, <1>5, <1>7, Zenon DEF Served, InFlight
  <1>10. Working(k) => Working(e)
    BY <1>1, <1>3 DEF Working
  <1> QED BY <1>1, <1>5, <1>8, <1>9, <1>10, Zenon DEF Linked, e

\* chunk_replicate of a chunk without an operation.
LEMMA ReplicateLinked ==
  ASSUME Calm, NEW U \in SUBSET Csids, NEW P, Open(P, U), NEW k, Clean(k, U), Linked(k, U, P),
         k.operation = "NONE", NEW src, NEW dst \in U, k.valid[dst] = "NOCOPY"
  PROVE  LET e == chunk_replicate(k, src, dst)
         IN Linked(e, U, P) /\ Working(e) /\ e.locked = k.locked
  <1> DEFINE N == {Request(i, "REPLICATE", k.version, 0, src) : i \in {dst}}
             va == [k.valid EXCEPT ![dst] = "BUSY"]
             e == chunk_replicate(k, src, dst)
  <1>0. N = {Request(dst, "REPLICATE", k.version, 0, src)}
    OBVIOUS
  <1>2. Addressed(N, {dst}, "REPLICATE")
    BY RequestsAddressed
  <1> HIDE DEF N
  <1>1. /\ e.valid = va /\ e.operation = "REPLICATE" /\ e.replock = TRUE /\ e.locked = k.locked
        /\ e.out = k.out \cup N
    <2> DEFINE a == SetCopy(k, dst, "BUSY", k.version)
               b == SetOpChunks(a, k.opchunks \cup {dst})
               g == RepLock(SetOp(b, "REPLICATE"), TRUE)
    <2>1. a.valid = va /\ a.locked = k.locked /\ a.out = k.out
      BY DEF SetCopy, SetCopies, MkChunk
    <2> HIDE DEF a
    <2>2. b.valid = va /\ b.locked = k.locked /\ b.out = k.out
      BY <2>1 DEF SetOpChunks, MkChunk
    <2> HIDE DEF b
    <2>3. /\ g.valid = va /\ g.operation = "REPLICATE" /\ g.replock = TRUE /\ g.locked = k.locked
          /\ g.out = k.out
      BY <2>2, Zenon DEF SetOp, RepLock, MkChunk
    <2>4. e = Send(g, N)
      BY <1>0 DEF chunk_replicate, a, b
    <2> HIDE DEF g, e
    <2> QED BY <2>3, <2>4 DEF Send, MkChunk
  <1>3. \A i \in Csids : va[i] = IF i = dst THEN "BUSY" ELSE k.valid[i]
    BY DEF Clean, Good, HandlerType
  <1>4. /\ Good(k, U) /\ dst \in Csids /\ Open(P \cup k.out, U)
        /\ Fitting(k, P \cup k.out) /\ Served(k, U, P \cup k.out) /\ SentOnce(k, P)
    BY AskedOpen, Zenon DEF Linked, Clean
  <1> HIDE DEF va, e
  <1>5. \A i \in Csids : k.valid[i] # "BUSY"
    BY <1>4, NoMarks
  <1>6. \A q \in P \cup k.out : q.csid # dst
    BY <1>4, NothingInFlight
  <1>7. Sends(e, k, P, {dst}, "REPLICATE")
    BY <1>1, <1>2, <1>6 DEF Sends
  <1>8. /\ SentOnce(e, P)
        /\ InFlight(e, P, Operating(P \cup k.out), Replicating(P \cup k.out) \cup {dst},
                    Deleting(P \cup k.out))
    BY <1>4, <1>7, SendEffect, Zenon
  <1>9. Operating(P \cup k.out) = {} /\ Replicating(P \cup k.out) = {}
    BY <1>4, <1>5, NobodyBusy
  <1>10. Deleting(P \cup k.out) \subseteq U
    BY <1>4, AskedOpen
  <1>11. Fitting(e, P \cup e.out)
    BY <1>1, <1>3, <1>4, <1>8, <1>9, <1>10, Zenon DEF Fitting, InFlight
  <1>12. Served(e, U, P \cup e.out)
    BY <1>1, <1>3, <1>5, <1>8 DEF Served, InFlight
  <1>13. Working(e)
    BY <1>1, <1>3, <1>4 DEF Working
  <1> QED BY <1>1, <1>8, <1>11, <1>12, <1>13 DEF Linked, e

\* The deletions a job makes: the copies have nothing in flight.
LEMMA DeletionsLinked ==
  ASSUME Calm, NEW U \in SUBSET Csids, NEW P, Open(P, U), NEW k, Clean(k, U), Linked(k, U, P), Working(k),
         NEW pend, Deleting(P) \subseteq Deleting(pend), NEW extra \in BOOLEAN
  PROVE  /\ \A e \in DeleteInvalid(k, pend, extra) :
               Linked(e, U, P) /\ Working(e) /\ Kept(e, k)
         /\ \A e \in DeleteOvergoal(k, pend) : Linked(e, U, P) /\ Working(e) /\ Kept(e, k)
         /\ DeleteMarkedCopy(k, U, pend) = {}
  <1>1. Good(k, U) /\ Open(P \cup k.out, U) /\ Fitting(k, P \cup k.out)
    BY AskedOpen, Zenon DEF Clean, Linked
  <1>2. ASSUME NEW D \in SUBSET Csids, NEW v,
               \A i \in D : k.valid[i] # "BUSY" /\ \A q \in P \cup k.out : q.csid # i
        PROVE  /\ Linked(DeleteCopies(k, D, v), U, P) /\ Working(DeleteCopies(k, D, v))
               /\ Kept(DeleteCopies(k, D, v), k)
    <2> DEFINE e == DeleteCopies(k, D, v)
    <2>1. /\ Linked(e, U, P) /\ (Working(k) => Working(e))
          /\ e.locked = k.locked /\ e.told = k.told
          /\ e.operation = k.operation /\ e.version = k.version
      BY <1>2, DeleteCopiesLinked
    <2> HIDE DEF e
    <2>2. Kept(e, k)
      BY <2>1 DEF Kept
    <2> QED BY <2>1, <2>2 DEF e
  <1>3. ASSUME NEW e \in DeleteInvalid(k, pend, extra) PROVE Linked(e, U, P) /\ Working(e) /\ Kept(e, k)
    <2>1. PICK D \in SUBSET Csids :
             /\ e = DeleteCopies(k, D, 0)
             /\ \A i \in D : /\ k.valid[i] \in {"WVER", "TDWVER", "INVALID", "DEL"}
                             /\ ~DeletePending(k, i, pend)
      BY <1>3, Zenon DEF DeleteInvalid, CopiesIn, WrongVersion
    <2>2. ASSUME NEW i \in D PROVE k.valid[i] # "BUSY" /\ \A q \in P \cup k.out : q.csid # i
      <3>1. CASE k.valid[i] # "DEL"
        BY <1>1, <2>1, <3>1, NothingInFlight
      <3>2. CASE k.valid[i] = "DEL"
        <4>1. i \notin Deleting(P) /\ i \notin Deleting(k.out)
          BY <2>1 DEF DeletePending, Deleting, Asked
        <4>2. i \notin Deleting(P \cup k.out)
          BY <4>1 DEF Deleting, Asked
        <4>3. i \notin Operating(P \cup k.out) /\ i \notin Replicating(P \cup k.out)
          BY <1>1, <3>2 DEF Fitting
        <4> QED BY <1>1, <3>2, <4>2, <4>3 DEF Open, Commands, Operating, Replicating, Deleting, Asked
      <3> QED BY <3>1, <3>2
    <2> QED BY <1>2, <2>1, <2>2
  <1>4. ASSUME NEW e \in DeleteOvergoal(k, pend) PROVE Linked(e, U, P) /\ Working(e) /\ Kept(e, k)
    <2>1. PICK D \in SUBSET Csids :
             /\ e = NeedVerIncrease(DeleteCopies(k, D, k.version), k.needverincrease \/ ~HasLabels)
             /\ \A i \in D : k.valid[i] = "VALID"
      BY <1>4, Zenon DEF DeleteOvergoal, CopiesIn
    <2>2. \A i \in D : k.valid[i] # "BUSY" /\ \A q \in P \cup k.out : q.csid # i
      BY <1>1, <2>1, NothingInFlight
    <2> DEFINE d == DeleteCopies(k, D, k.version)
    <2>3. Linked(d, U, P) /\ Working(d) /\ Kept(d, k)
      BY <1>2, <2>2
    <2> HIDE DEF d
    <2>4. \A b : Kept(NeedVerIncrease(d, b), d)
      BY DEF Kept, NeedVerIncrease, MkChunk
    <2> QED BY <2>1, <2>3, <2>4, SettersLinked, KeptComposes, Zenon DEF d
  <1>5. DeleteMarkedCopy(k, U, pend) = {}
    BY <1>1, NoMarks, Zenon DEF DeleteMarkedCopy, CopiesIn
  <1> QED BY <1>3, <1>4, <1>5

\* chunk_do_jobs takes the best of the outdated versions of a chunk nobody uses.
LEMMA FixWrongVersionLinked ==
  ASSUME Calm, NEW U \in SUBSET Csids, NEW P, Open(P, U), NEW k, Clean(k, U), Linked(k, U, P), Working(k),
         CopiesIn(k, Usable) = {}, ~k.locked, NEW best
  PROVE  LET e == FixWrongVersion(k, U, best) IN Linked(e, U, P) /\ Working(e) /\ Kept(e, k)
  <1> DEFINE va == [i \in Csids |-> IF k.sver[i] = best /\ i \in U /\ k.valid[i] = "WVER" THEN "VALID"
                         ELSE IF k.sver[i] = best /\ i \in U /\ k.valid[i] = "TDWVER" THEN "TDVALID"
                         ELSE k.valid[i]]
             e == FixWrongVersion(k, U, best)
  <1>1. /\ e.valid = va /\ e.operation = k.operation /\ e.replock = k.replock
        /\ e.out = k.out /\ e.locked = k.locked
    BY Zenon DEF FixWrongVersion, NeedVerIncrease, RollVersion, SetCopies, MkChunk
  <1>2. \A i \in Csids : /\ va[i] = "BUSY" <=> k.valid[i] = "BUSY"
                         /\ k.valid[i] = "DEL" => va[i] = "DEL"
    OBVIOUS
  <1> HIDE DEF va, e
  <1>3. Linked(e, U, P)
    BY <1>1, <1>2, LinkedBy DEF Clean
  <1>4. Working(e)
    BY <1>1, <1>2 DEF Working
  <1> QED BY <1>1, <1>3, <1>4 DEF Kept, e

\* What the handlers of a chunk keep, seen from the requests P in flight.
Sound(e, k, U, P) == Linked(e, U, P) /\ Working(e) /\ Kept(e, k)

\* An operation without a busy copy would be ended without a word: there is none.
LEMMA FinishIdleOpLinked ==
  ASSUME Calm, NEW U \in SUBSET Csids, NEW P, Open(P, U), NEW k, Clean(k, U), Linked(k, U, P), Working(k)
  PROVE  Clean(FinishIdleOp(k), U) /\ Sound(FinishIdleOp(k), k, U, P)
  <1> DEFINE f == FinishIdleOp(k)
  <1>1. Clean(f, U)
    BY FinishIdleOpClean
  <1>2. CASE CopiesIn(k, Busy) = {}
    <2>1. k.operation = "NONE"
      BY <1>2 DEF Working, CopiesIn, Busy
    <2>2. /\ f.valid = k.valid /\ f.operation = k.operation /\ f.replock = k.replock /\ f.out = k.out
          /\ f.locked = k.locked /\ f.version = k.version /\ f.told = k.told
      BY <1>2, <2>1 DEF FinishIdleOp, SetOp, MkChunk
    <2> HIDE DEF f
    <2>3. Linked(f, U, P) /\ Working(f)
      BY <2>2, LinkedSame
    <2>4. Kept(f, k)
      BY <2>2 DEF Kept
    <2> QED BY <1>1, <2>3, <2>4 DEF Sound, f
  <1>3. CASE CopiesIn(k, Busy) # {}
    <2>1. f = k
      BY <1>3 DEF FinishIdleOp
    <2>2. Kept(k, k)
      BY DEF Kept
    <2> QED BY <1>1, <2>1, <2>2 DEF Sound
  <1> QED BY <1>2, <1>3

\* A replication job: only of an unlocked chunk without an operation.
LEMMA ReplicationsLinked ==
  ASSUME Calm, NEW U \in SUBSET Csids, NEW P, Open(P, U), NEW k, Clean(k, U), Linked(k, U, P),
         k.operation = "NONE", ~k.locked, NEW pend, NEW extra \in BOOLEAN,
         NEW e \in ReplicateUndergoal(k, U, pend) \cup ReplicateRebalance(k, U, pend, extra)
  PROVE  Sound(e, k, U, P)
  <1>1. PICK src \in Csids, dst \in Destinations(k, U, pend) : e = chunk_replicate(k, src, dst)
    <2>1. CopiesIn(k, {"VALID"}) \subseteq Csids /\ CopiesIn(k, Current) \subseteq Csids
      BY DEF CopiesIn
    <2> QED BY <2>1 DEF ReplicateUndergoal, ReplicateRebalance, UndergoalSources
  <1>2. dst \in U /\ k.valid[dst] = "NOCOPY"
    BY <1>1 DEF Destinations, Listed
  <1> DEFINE x == chunk_replicate(k, src, dst)
  <1>3. Linked(x, U, P) /\ Working(x) /\ x.locked = k.locked
    BY <1>2, ReplicateLinked
  <1> HIDE DEF x
  <1>4. Kept(x, k)
    BY <1>3 DEF Kept
  <1> QED BY <1>1, <1>3, <1>4 DEF Sound, x

\* The two branches of chunk_do_jobs that a calm system never takes.
LEMMA JobsNotTaken ==
  ASSUME Calm, NEW U \in SUBSET Csids, NEW P, Open(P, U), NEW k, Clean(k, U), Linked(k, U, P), Working(k)
  PROVE  /\ ~UnexpectedBusy(k)
         /\ k.operation = "REPLICATE" => k.replock
  <1>1. Good(k, U) /\ Listed(k) \subseteq U /\ Fitting(k, P \cup k.out) /\ Served(k, U, P \cup k.out)
    BY DEF Clean, Linked
  <1>2. ~UnexpectedBusy(k)
    BY <1>1, NoMarks DEF UnexpectedBusy, CopiesIn, Busy
  <1>3. ASSUME k.operation = "REPLICATE" PROVE k.replock
    <2>1. PICK i \in Csids : k.valid[i] = "BUSY"
      BY <1>3 DEF Working
    <2>2. i \in Operating(P \cup k.out) \cup Replicating(P \cup k.out)
      BY <1>1, <2>1, Zenon DEF Listed, Served
    <2> QED BY <1>1, <1>3, <2>2, Zenon DEF Fitting
  <1> QED BY <1>2, <1>3

\* Every branch of chunk_do_jobs.
LEMMA DoJobsLinked ==
  ASSUME Calm, NEW U \in SUBSET Csids, NEW P, Open(P, U), NEW k, Clean(k, U), Linked(k, U, P), Working(k),
         NEW pend, Deleting(P) \subseteq Deleting(pend), NEW extra \in BOOLEAN
  PROVE  \A e \in DoJobs(k, U, pend, extra) : Sound(e, k, U, P)
  <1> DEFINE f == FinishIdleOp(k)
  <1>1. Clean(f, U) /\ Linked(f, U, P) /\ Working(f) /\ Kept(f, k)
    BY FinishIdleOpLinked DEF Sound
  <1>2. DoJobs(k, U, pend, extra) =
          IF UnexpectedBusy(f) THEN {InvalidateBusy(f)}
          ELSE IF WrongVersionFixable(f) THEN {FixWrongVersion(f, U, best) : best \in BestWrongVersion(f)}
          ELSE IF NothingToRecoverFrom(f) THEN {f}
          ELSE DeleteInvalid(f, pend, extra) \cup
               (IF ~extra /\ f.operation = "REPLICATE" /\ ~f.replock THEN {CancelReplication(f)}
                ELSE IF f.operation # "NONE" \/ ~Unlocked(f) \/ CopiesIn(f, Busy) # {} THEN {f}
                ELSE {f} \cup DeleteOvergoal(f, pend) \cup DeleteMarkedCopy(f, U, pend)
                         \cup ReplicateUndergoal(f, U, pend) \cup ReplicateRebalance(f, U, pend, extra))
    BY DEF DoJobs
  <1> HIDE DEF f
  <1>3. ~UnexpectedBusy(f) /\ (f.operation = "REPLICATE" => f.replock)
    BY <1>1, JobsNotTaken
  <1>4. SUFFICES ASSUME NEW e \in DoJobs(k, U, pend, extra) PROVE Sound(e, f, U, P)
    BY <1>1, <1>4, KeptComposes DEF Sound
  <1>5. CASE WrongVersionFixable(f)
    <2>1. PICK best : e = FixWrongVersion(f, U, best)
      BY <1>2, <1>3, <1>4, <1>5
    <2>2. CopiesIn(f, Usable) = {} /\ ~f.locked
      BY <1>5 DEF WrongVersionFixable, Unlocked
    <2> QED BY <1>1, <2>1, <2>2, FixWrongVersionLinked DEF Sound
  <1>6. CASE e = f
    BY <1>1, <1>6 DEF Sound, Kept
  <1>7. CASE e \in DeleteInvalid(f, pend, extra) \cup DeleteOvergoal(f, pend)
                    \cup DeleteMarkedCopy(f, U, pend)
    BY <1>1, <1>7, DeletionsLinked DEF Sound
  <1>8. CASE /\ e \in ReplicateUndergoal(f, U, pend) \cup ReplicateRebalance(f, U, pend, extra)
             /\ f.operation = "NONE" /\ Unlocked(f)
    BY <1>1, <1>8, ReplicationsLinked DEF Unlocked
  <1> QED BY <1>2, <1>3, <1>4, <1>5, <1>6, <1>7, <1>8

\* The operation ends when no copy is busy.
LEMMA NoOpLinked ==
  ASSUME NEW U \in SUBSET Csids, NEW P, Open(P, U), NEW k, Good(k, U), Linked(k, U, P),
         \A i \in Csids : k.valid[i] # "BUSY", NEW e,
         e.valid = k.valid, e.out = k.out, e.operation = "NONE"
  PROVE  Linked(e, U, P) /\ Working(e)
  BY LinkedBy DEF Working

\* The end of a replication, with the job chunk_io_ready_check may run.
LEMMA ReplicationEndsLinked ==
  ASSUME Calm, NEW U \in SUBSET Csids, NEW P, Open(P, U), NEW k, Good(k, U), Linked(k, U, P),
         \A i \in Csids : k.valid[i] # "BUSY", k.operation = "REPLICATE",
         NEW pend, Deleting(P) \subseteq Deleting(pend)
  PROVE  \A e \in ReplicationEnds(k, U, pend) : Sound(e, k, U, P) /\ Sound(TellIfIdle(e), k, U, P)
  <1> DEFINE r == RepLock(SetOp(k, "NONE"), FALSE)
             d == DropDisconnected(r, U)
  <1>1. /\ r.valid = k.valid /\ r.out = k.out /\ r.operation = "NONE" /\ r.locked = k.locked
    BY Zenon DEF RepLock, SetOp, MkChunk
  <1>2. Good(r, U)
    BY NoOpGood, SettersGood, Zenon
  <1>3. ReplicationEnds(k, U, pend) = {r} \cup DoJobs(d, U, pend, TRUE)
    BY DEF ReplicationEnds
  <1> HIDE DEF r
  <1>4. Linked(r, U, P) /\ Working(r)
    BY <1>1, NoOpLinked
  <1>5. Clean(d, U)
    BY <1>2, DropDisconnectedClean
  <1>6. Linked(d, U, P) /\ d.locked = r.locked /\ d.operation = r.operation
    BY <1>2, <1>4, DropDisconnectedLinked
  <1> HIDE DEF d
  <1>7. Working(d)
    BY <1>1, <1>6 DEF Working
  <1>8. \A e \in DoJobs(d, U, pend, TRUE) : Sound(e, d, U, P)
    BY <1>5, <1>6, <1>7, DoJobsLinked, Zenon
  <1>9. ASSUME NEW e \in ReplicationEnds(k, U, pend)
        PROVE  Linked(e, U, P) /\ Working(e) /\ e.locked = k.locked
    BY <1>1, <1>3, <1>4, <1>6, <1>8, Zenon DEF Sound, Kept
  <1>10. ASSUME NEW e \in ReplicationEnds(k, U, pend)
         PROVE  Linked(TellIfIdle(e), U, P) /\ Working(TellIfIdle(e)) /\ TellIfIdle(e).locked = e.locked
    <2>1. TellIfIdle(e) \in {e, TellStatus(e, "OK")}
      BY DEF TellIfIdle
    <2>2. TellStatus(e, "OK").locked = e.locked
      BY DEF TellStatus, Tell, MkChunk
    <2> QED BY <1>9, <2>1, <2>2, SettersLinked, Zenon
  <1> QED BY <1>9, <1>10 DEF Sound, Kept

\* chunk_remove_disconnected_chunks, whatever the operation it interrupts.
LEMMA RemoveDisconnectedLinked ==
  ASSUME Calm, NEW U \in SUBSET Csids, NEW P, Open(P, U), NEW k, Good(k, U), Linked(k, U, P), Working(k),
         NEW pend, Deleting(P) \subseteq Deleting(pend)
  PROVE  \A e \in chunk_remove_disconnected_chunks(k, U, pend) : Sound(e, k, U, P)
  <1> DEFINE d == DropDisconnected(k, U)
             x == FixNotCompletedIncrease(d)
             g == ClearOpChunks(x)
  <1>1. Clean(d, U)
    BY DropDisconnectedClean
  <1>2. /\ Linked(d, U, P) /\ d.locked = k.locked /\ d.told = k.told /\ d.operation = k.operation
        /\ d.version = k.version
    BY DropDisconnectedLinked
  <1>3. chunk_remove_disconnected_chunks(k, U, pend) =
          IF Listed(k) \subseteq U \/ d.operation = "NONE" THEN {d}
          ELSE IF CopiesIn(d, Busy) # {}
               THEN {IF d.operation = "REPLICATE" THEN d ELSE Interrupt(d)}
          ELSE IF d.operation = "REPLICATE"
               THEN {TellIfIdle(e) : e \in ReplicationEnds(g, U, pend)}
          ELSE IF CopiesIn(d, Current) # {} THEN {chunk_emergency_increase_version(g)}
          ELSE {TellStatus(SetOp(g, "NONE"), "ERROR")}
    BY DEF chunk_remove_disconnected_chunks
  <1>4. Listed(k) \subseteq U => d = k
    BY DEF DropDisconnected
  <1>5. Kept(d, k)
    BY <1>2 DEF Kept
  <1> HIDE DEF d
  <1>6. SUFFICES ASSUME NEW e \in chunk_remove_disconnected_chunks(k, U, pend) PROVE Sound(e, d, U, P)
    BY <1>5, <1>6, KeptComposes DEF Sound
  <1>7. CASE Listed(k) \subseteq U \/ d.operation = "NONE"
    <2>1. e = d
      BY <1>3, <1>6, <1>7
    <2>2. Working(d)
      BY <1>4, <1>7 DEF Working
    <2> QED BY <1>2, <2>1, <2>2 DEF Sound, Kept
  <1>8. CASE ~(Listed(k) \subseteq U \/ d.operation = "NONE") /\ CopiesIn(d, Busy) # {}
    <2>1. e \in {d, Interrupt(d)}
      BY <1>3, <1>6, <1>8
    <2>2. Working(d)
      <3>1. PICK i \in Csids : d.valid[i] \in Busy
        BY <1>8 DEF CopiesIn
      <3>2. d.valid[i] = "BUSY"
        BY <1>1, <3>1, NoMarks DEF Clean, Busy
      <3> QED BY <3>2 DEF Working
    <2>3. Kept(Interrupt(d), d) /\ Kept(d, d)
      BY DEF Kept, Interrupt, MkChunk
    <2> QED BY <1>2, <2>1, <2>2, <2>3, SettersLinked DEF Sound
  <1>9. CASE ~(Listed(k) \subseteq U \/ d.operation = "NONE") /\ CopiesIn(d, Busy) = {}
    <2>1. /\ Clean(x, U) /\ \A i \in Csids : x.valid[i] \in Busy <=> d.valid[i] \in Busy
          /\ CopiesIn(d, Current) # {} => CopiesIn(x, Current) # {}
      BY <1>1, FixNotCompletedClean
    <2>2. Linked(x, U, P) /\ x.locked = d.locked /\ x.told = d.told /\ x.operation = d.operation
      BY <1>1, <1>2, FixNotCompletedLinked
    <2> HIDE DEF x
    <2>3. Clean(g, U) /\ g.valid = x.valid /\ g.operation = x.operation
      BY <2>1, ClearOpChunksClean
    <2>4. Linked(g, U, P)
      BY <2>2, SettersLinked, Zenon DEF ClearOpChunks
    <2>5. g.locked = x.locked /\ g.told = x.told
      BY Zenon DEF ClearOpChunks, SetOpChunks, MkChunk
    <2> HIDE DEF g
    <2>6. \A i \in Csids : g.valid[i] # "BUSY"
      BY <1>9, <2>1, <2>3 DEF CopiesIn, Busy
    <2>7. CASE d.operation = "REPLICATE"
      <3>1. PICK y \in ReplicationEnds(g, U, pend) : e = TellIfIdle(y)
        BY <1>3, <1>6, <1>9, <2>7
      <3>2. Sound(e, g, U, P)
        BY <2>2, <2>3, <2>4, <2>6, <2>7, <3>1, ReplicationEndsLinked, Zenon DEF Clean
      <3> QED BY <2>2, <2>5, <2>7, <3>2, Zenon DEF Sound, Kept
    <2>8. CASE d.operation # "REPLICATE" /\ CopiesIn(d, Current) # {}
      <3>1. CopiesIn(g, Current) # {}
        BY <2>1, <2>3, <2>8 DEF CopiesIn
      <3>2. e = chunk_emergency_increase_version(g)
        BY <1>3, <1>6, <1>9, <2>8
      <3>3. /\ Linked(e, U, P) /\ Working(e) /\ e.locked = g.locked /\ e.told = g.told
            /\ e.operation = "SET_VERSION"
        BY <2>3, <2>4, <2>6, <3>1, <3>2, EmergencyLinked, Zenon
      <3> QED BY <1>9, <2>2, <2>5, <3>3, Zenon DEF Sound, Kept
    <2>9. CASE d.operation # "REPLICATE" /\ CopiesIn(d, Current) = {}
      <3> DEFINE n == SetOp(g, "NONE")
      <3>1. e = TellStatus(n, "ERROR")
        BY <1>3, <1>6, <1>9, <2>9
      <3>2. n.valid = g.valid /\ n.out = g.out /\ n.operation = "NONE" /\ n.locked = g.locked /\ n.told = g.told
        BY DEF SetOp, MkChunk
      <3> HIDE DEF n
      <3>3. Linked(n, U, P) /\ Working(n)
        BY <2>3, <2>4, <2>6, <3>2, NoOpLinked, Zenon DEF Clean
      <3>4. Linked(e, U, P) /\ Working(e)
        BY <3>1, <3>3, SettersLinked, Zenon
      <3>5. /\ e.operation = "NONE" /\ e.locked = n.locked
            /\ n.told = "NOTHING" => e.told = "ERROR"
        BY <3>1, <3>2 DEF TellStatus, Tell, MkChunk
      <3> QED BY <1>9, <2>2, <2>5, <3>2, <3>4, <3>5, Zenon DEF Sound, Kept
    <2> QED BY <2>7, <2>8, <2>9
  <1> QED BY <1>7, <1>8, <1>9

\* chunk_do_jobs as a whole.
LEMMA ChunkDoJobsLinked ==
  ASSUME Calm, NEW U \in SUBSET Csids, NEW P, Open(P, U), NEW k, Good(k, U), Linked(k, U, P), Working(k),
         NEW pend, Deleting(P) \subseteq Deleting(pend), NEW extra \in BOOLEAN
  PROVE  \A e \in chunk_do_jobs(k, U, pend, extra) : Sound(e, k, U, P)
  <1>1. SUFFICES ASSUME NEW d \in chunk_remove_disconnected_chunks(k, U, pend),
                        NEW e \in DoJobs(d, U, pend, extra)
                 PROVE  Sound(e, k, U, P)
    BY DEF chunk_do_jobs
  <1>2. Sound(d, k, U, P) /\ Clean(d, U)
    BY RemoveDisconnectedLinked, RemoveDisconnectedClean
  <1>3. Sound(e, d, U, P)
    BY <1>2, DoJobsLinked DEF Sound
  <1> QED BY <1>2, <1>3, KeptComposes DEF Sound

\* chunk_unlock, with the job it may run.
LEMMA UnlockLinked ==
  ASSUME Calm, NEW U \in SUBSET Csids, NEW P, Open(P, U), NEW k, Good(k, U), Linked(k, U, P), Working(k),
         NEW pend, Deleting(P) \subseteq Deleting(pend)
  PROVE  \A e \in chunk_unlock(k, U, pend) : Linked(e, U, P) /\ Working(e)
  <1> DEFINE u == Lock(k, FALSE)
  <1>1. Good(u, U) /\ Linked(u, U, P) /\ Working(u)
    BY SettersGood, SettersLinked, Zenon
  <1>2. chunk_unlock(k, U, pend) = {u} \cup chunk_do_jobs(u, U, pend, TRUE)
    BY DEF chunk_unlock
  <1> HIDE DEF u
  <1>3. \A e \in chunk_do_jobs(u, U, pend, TRUE) : Sound(e, u, U, P)
    BY <1>1, ChunkDoJobsLinked, Zenon
  <1> QED BY <1>1, <1>2, <1>3, Zenon DEF Sound

\* From k to e the answer r is consumed: its copy is busy no more, the others
\* are as before.
Consumes(e, k, U, P, r) ==
    /\ U \in SUBSET Csids /\ Open(P \cup {r}, U) /\ r.csid \in U /\ \A p \in P : p.csid # r.csid
    /\ Good(k, U) /\ Linked(k, U, P \cup {r})
    /\ e.out = k.out /\ e.operation = k.operation /\ (k.replock => e.replock)
    /\ e.valid[r.csid] # "BUSY" /\ \A j \in U : j # r.csid => e.valid[j] = k.valid[j]

LEMMA AnswerConsumed ==
  ASSUME NEW U, NEW P, NEW r, NEW k, NEW e, Consumes(e, k, U, P, r)
  PROVE  Linked(e, U, P)
  <1> /\ U \in SUBSET Csids /\ Open(P \cup {r}, U) /\ r.csid \in U /\ \A p \in P : p.csid # r.csid
      /\ Good(k, U) /\ Linked(k, U, P \cup {r})
      /\ e.out = k.out /\ e.operation = k.operation /\ (k.replock => e.replock)
      /\ e.valid[r.csid] # "BUSY" /\ \A j \in U : j # r.csid => e.valid[j] = k.valid[j]
    BY Zenon DEF Consumes
  <1> DEFINE Q == P \cup {r} \cup k.out
             S == P \cup e.out
  <1>1. Fitting(k, Q) /\ SentOnce(k, P \cup {r}) /\ Served(k, U, Q)
    BY DEF Linked
  <1>2. SentOnce(e, P)
    BY <1>1 DEF SentOnce
  <1>3. ASSUME NEW C PROVE Asked(S, C) = Asked(Q, C) \ {r.csid}
    BY <1>1 DEF Asked, SentOnce
  <1>4. /\ Operating(S) = Operating(Q) \ {r.csid}
        /\ Replicating(S) = Replicating(Q) \ {r.csid}
        /\ Deleting(S) = Deleting(Q) \ {r.csid}
    BY <1>3, Zenon DEF Operating, Replicating, Deleting
  <1>5. Operating(Q) \subseteq U /\ Replicating(Q) \subseteq U /\ Deleting(Q) \subseteq U
    BY AskedOpen, Zenon
  <1> HIDE DEF Q, S
  <1>6. Fitting(e, S)
    BY <1>1, <1>4, <1>5, Zenon DEF Fitting
  <1>7. Served(e, U, S)
    BY <1>1, <1>4 DEF Served
  <1> QED BY <1>2, <1>6, <1>7 DEF Linked, S

\* From k to e one busy copy i gets its answer, nothing else of them changes.
AnsweredFor(e, k, i) ==
    /\ e.out = k.out /\ e.operation = k.operation /\ e.replock = k.replock
    /\ e.locked = k.locked /\ e.told = k.told
    /\ e.valid[i] # "BUSY" /\ \A j \in Csids : j # i => e.valid[j] = k.valid[j]

\* The answer for one copy of an operation.
LEMMA CopyAnsweredFields ==
  ASSUME NEW U \in SUBSET Csids, NEW k, Good(k, U), NEW i \in Csids, NEW status,
         k.valid[i] = "BUSY", k.operation \notin {"NONE", "REPLICATE"}
  PROVE  AnsweredFor(CopyAnswered(k, i, status), k, i)
  <1>1. k.valid \in [Csids -> Valid] /\ k.operation \in Operations
    BY DEF Good, HandlerType
  <1>2. ASSUME NEW v, NEW n, v # "BUSY" PROVE AnsweredFor(SetCopy(k, i, v, n), k, i)
    BY <1>1, <1>2, Zenon DEF AnsweredFor, SetCopy, SetCopies, MkChunk
  <1>3. AnsweredFor(Unlist(k, {i}), k, i)
    BY Zenon DEF AnsweredFor, Unlist, SetCopies, MkChunk
  <1>4. ASSUME NEW e, AnsweredFor(e, k, i) PROVE AnsweredFor(Interrupt(e), k, i)
    BY <1>4, Zenon DEF AnsweredFor, Interrupt, MkChunk
  <1>5. k.operation \in {"SET_VERSION", "TRUNCATE"} \/ k.operation \in {"CREATE", "DUPLICATE", "DUPTRUNC"}
    BY <1>1 DEF Operations
  <1>6. CopyAnswered(k, i, status) \in
          {SetCopy(k, i, "VALID", k.sver[i]), Interrupt(SetCopy(k, i, "INVALID", 0)),
           SetCopy(k, i, "WVER", (k.sver[i] - 1) % VersionMod), Unlist(k, {i})}
    BY <1>5 DEF CopyAnswered
  <1> QED BY <1>2, <1>3, <1>4, <1>6, Zenon

\* The end of an operation whose last busy copy has been answered for.
LEMMA OperationEndsLinked ==
  ASSUME Calm, NEW U \in SUBSET Csids, NEW P, Open(P, U), NEW k, Clean(k, U), Linked(k, U, P),
         CopiesIn(k, Busy) = {}, k.operation \notin {"NONE", "REPLICATE"}
  PROVE  Sound(OperationEnds(k), k, U, P)
  <1> DEFINE x == FixNotCompletedIncrease(k)
             g == ClearOpChunks(x)
             n == SetOp(g, "NONE")
             e == OperationEnds(k)
  <1>1. e = IF CopiesIn(k, Current) = {} THEN TellStatus(n, "ERROR")
            ELSE IF k.interrupted THEN chunk_emergency_increase_version(g)
            ELSE TellStatus(NeedVerIncrease(n, FALSE), "OK")
    BY DEF OperationEnds
  <1>2. /\ Clean(x, U) /\ \A i \in Csids : x.valid[i] \in Busy <=> k.valid[i] \in Busy
        /\ CopiesIn(k, Current) # {} => CopiesIn(x, Current) # {}
    BY FixNotCompletedClean
  <1>3. Linked(x, U, P) /\ x.locked = k.locked /\ x.told = k.told /\ x.operation = k.operation
    BY FixNotCompletedLinked
  <1> HIDE DEF x, e
  <1>4. Clean(g, U) /\ g.valid = x.valid /\ g.operation = x.operation
    BY <1>2, ClearOpChunksClean
  <1>5. Linked(g, U, P)
    BY <1>3, SettersLinked, Zenon DEF ClearOpChunks
  <1>6. g.locked = x.locked /\ g.told = x.told
    BY DEF ClearOpChunks, SetOpChunks, MkChunk
  <1> HIDE DEF g
  <1>7. \A i \in Csids : g.valid[i] # "BUSY"
    BY <1>2, <1>4 DEF CopiesIn, Busy
  <1>8. n.valid = g.valid /\ n.out = g.out /\ n.operation = "NONE" /\ n.locked = g.locked /\ n.told = g.told
    BY DEF SetOp, MkChunk
  <1> HIDE DEF n
  <1>9. Linked(n, U, P) /\ Working(n)
    BY <1>4, <1>5, <1>7, <1>8, NoOpLinked, Zenon DEF Clean
  <1>10. CASE CopiesIn(k, Current) = {}
    <2>1. e = TellStatus(n, "ERROR")
      BY <1>1, <1>10
    <2>2. Linked(e, U, P) /\ Working(e)
      BY <1>9, <2>1, SettersLinked
    <2>3. e.operation = "NONE" /\ e.locked = n.locked /\ (n.told = "NOTHING" => e.told = "ERROR")
      BY <1>8, <2>1 DEF TellStatus, Tell, MkChunk
    <2> QED BY <1>3, <1>6, <1>8, <2>2, <2>3, Zenon DEF Sound, Kept, e
  <1>11. CASE CopiesIn(k, Current) # {} /\ k.interrupted
    <2>1. e = chunk_emergency_increase_version(g)
      BY <1>1, <1>11
    <2>2. CopiesIn(g, Current) # {}
      BY <1>2, <1>4, <1>11 DEF CopiesIn
    <2>3. /\ Linked(e, U, P) /\ Working(e) /\ e.locked = g.locked /\ e.told = g.told
          /\ e.operation = "SET_VERSION"
      BY <1>4, <1>5, <1>7, <2>1, <2>2, EmergencyLinked
    <2> QED BY <1>3, <1>6, <2>3, Zenon DEF Sound, Kept, e
  <1>12. CASE CopiesIn(k, Current) # {} /\ ~k.interrupted
    <2> DEFINE m == NeedVerIncrease(n, FALSE)
    <2>1. e = TellStatus(m, "OK")
      BY <1>1, <1>12, Zenon
    <2>2. Linked(m, U, P) /\ Working(m)
      BY <1>9, SettersLinked, Zenon
    <2>3. m.operation = "NONE" /\ m.locked = n.locked /\ m.told = n.told
      BY <1>8 DEF NeedVerIncrease, MkChunk
    <2> HIDE DEF m
    <2>4. Linked(e, U, P) /\ Working(e)
      BY <2>1, <2>2, SettersLinked
    <2>5. e.operation = "NONE" /\ e.locked = m.locked /\ (m.told = "NOTHING" => e.told = "OK")
      BY <2>1, <2>3 DEF TellStatus, Tell, MkChunk
    <2> QED BY <1>3, <1>6, <1>8, <2>3, <2>4, <2>5, Zenon DEF Sound, Kept, e
  <1> QED BY <1>10, <1>11, <1>12

\* chunk_operation_status: the answer r finds the operation it belongs to.
LEMMA OperationStatusLinked ==
  ASSUME Calm, NEW U \in SUBSET Csids, NEW P, NEW r, Open(P \cup {r}, U), r.csid \in U,
         \A p \in P : p.csid # r.csid, r.cmd \in OpCommands,
         NEW k, Good(k, U), Linked(k, U, P \cup {r}), Working(k),
         NEW pend, Deleting(P \cup {r}) \subseteq Deleting(pend), NEW status
  PROVE  \A e \in chunk_operation_status(k, U, pend, r.csid, status) : Sound(e, k, U, P)
  <1>1. SUFFICES ASSUME NEW x \in chunk_remove_disconnected_chunks(k, U, pend)
                 PROVE  LET d == CopyAnswered(x, r.csid, status)
                        IN Sound(IF CopiesIn(d, Busy) = {} THEN OperationEnds(d) ELSE d, k, U, P)
    BY Zenon DEF chunk_operation_status
  <1> DEFINE d == CopyAnswered(x, r.csid, status)
  <1>2. Sound(x, k, U, P \cup {r}) /\ Clean(x, U)
    BY RemoveDisconnectedLinked, RemoveDisconnectedClean
  <1>3. x.valid[r.csid] = "BUSY" /\ x.operation \notin {"NONE", "REPLICATE"}
    <2>1. r.csid \in Operating(P \cup {r} \cup x.out)
      BY Zenon DEF Operating, Asked
    <2> QED BY <1>2, <2>1, Zenon DEF Sound, Linked, Fitting
  <1>4. /\ d.out = x.out /\ d.operation = x.operation /\ d.replock = x.replock
        /\ d.locked = x.locked /\ d.told = x.told
        /\ d.valid[r.csid] # "BUSY" /\ \A j \in Csids : j # r.csid => d.valid[j] = x.valid[j]
    <2>1. Good(x, U) /\ r.csid \in Csids
      BY <1>2, Zenon DEF Clean
    <2>2. AnsweredFor(d, x, r.csid)
      BY <1>3, <2>1, CopyAnsweredFields, Zenon
    <2> QED BY <2>2, Zenon DEF AnsweredFor
  <1>5. Clean(d, U)
    BY <1>2, CopyAnsweredClean
  <1> HIDE DEF d
  <1>6. Linked(d, U, P)
    <2>1. Good(x, U) /\ Linked(x, U, P \cup {r})
      BY <1>2, Zenon DEF Clean, Sound
    <2>2. \A j \in U : j # r.csid => d.valid[j] = x.valid[j]
      BY <1>4, Zenon
    <2>3. Consumes(d, x, U, P, r)
      BY <1>4, <2>1, <2>2, Zenon DEF Consumes
    <2> QED BY <2>3, AnswerConsumed, Zenon
  <1>7. Kept(d, k)
    <2>1. Kept(d, x)
      BY <1>3, <1>4 DEF Kept
    <2> QED BY <1>2, <2>1, KeptComposes DEF Sound
  <1>8. Open(P, U)
    BY DEF Open
  <1>9. CASE CopiesIn(d, Busy) = {}
    <2>1. Sound(OperationEnds(d), d, U, P)
      BY <1>3, <1>4, <1>5, <1>6, <1>8, <1>9, OperationEndsLinked, Zenon
    <2>2. Sound(OperationEnds(d), k, U, P)
      BY <1>7, <2>1, KeptComposes DEF Sound
    <2> QED BY <1>9, <2>2 DEF d
  <1>10. CASE CopiesIn(d, Busy) # {}
    <2>1. PICK i \in Csids : d.valid[i] \in Busy
      BY <1>10 DEF CopiesIn
    <2>2. d.valid[i] = "BUSY"
      BY <1>5, <2>1, NoMarks DEF Clean, Busy
    <2>3. Working(d)
      BY <2>2 DEF Working
    <2>4. Sound(d, k, U, P)
      BY <1>6, <1>7, <2>3 DEF Sound
    <2> QED BY <1>10, <2>4 DEF d
  <1> QED BY <1>9, <1>10

\* chunk_got_replicate_status: the answer r finds its replication.
LEMMA ReplicateStatusLinked ==
  ASSUME Calm, NEW U \in SUBSET Csids, NEW P, NEW r, Open(P \cup {r}, U), r.csid \in U,
         \A p \in P : p.csid # r.csid, r.cmd = "REPLICATE",
         NEW k, Good(k, U), Linked(k, U, P \cup {r}),
         NEW pend, Deleting(P) \subseteq Deleting(pend), NEW version \in Versions, NEW status
  PROVE  \A e \in chunk_got_replicate_status(k, U, pend, r.csid, version, status) : Sound(e, k, U, P)
  <1> DEFINE i == r.csid
             d == ReplicaAnswered(k, i, version, status)
             Like(e) == /\ e.out = k.out /\ e.operation = k.operation /\ e.replock = k.replock
                        /\ e.locked = k.locked
                        /\ e.valid[i] # "BUSY" /\ \A j \in Csids : j # i => e.valid[j] = k.valid[j]
  <1>1. i \in Csids /\ k.valid[i] = "BUSY" /\ k.operation = "REPLICATE"
    <2>1. i \in Replicating(P \cup {r} \cup k.out)
      BY DEF Replicating, Asked
    <2> QED BY <2>1 DEF Linked, Fitting
  <1>2. k.valid \in [Csids -> Valid]
    BY DEF Good, HandlerType
  <1>3. Like(d)
    <2>1. ASSUME NEW v, NEW n, v # "BUSY" PROVE Like(SetCopy(k, i, v, n))
      BY <1>1, <1>2, <2>1, Zenon DEF SetCopy, SetCopies, MkChunk
    <2>2. Like(Unlist(k, {i}))
      BY <1>1, Zenon DEF Unlist, SetCopies, MkChunk
    <2>3. ASSUME NEW e, NEW S, Like(e) PROVE Like(SetOpChunks(e, S))
      BY <2>3, Zenon DEF SetOpChunks, MkChunk
    <2>4. \E e \in {Unlist(k, {i}), SetCopy(k, i, "INVALID", 0), SetCopy(k, i, "VALID", k.sver[i])} :
             d = SetOpChunks(e, k.opchunks \ {i})
      BY <1>1, Zenon DEF ReplicaAnswered
    <2> HIDE DEF Like
    <2> QED BY <2>1, <2>2, <2>3, <2>4, Zenon
  <1>4. Good(d, U)
    BY <1>1, ReplicaAnsweredGood
  <1> HIDE DEF d
  <1>5. Linked(d, U, P)
    <2>1. Consumes(d, k, U, P, r)
      BY <1>3, Zenon DEF Consumes
    <2> QED BY <2>1, AnswerConsumed, Zenon
  <1>6. Kept(d, k)
    BY <1>1, <1>3 DEF Kept
  <1>7. CASE CopiesIn(d, {"BUSY"}) # {}
    <2>1. Working(d)
      BY <1>7 DEF Working, CopiesIn
    <2>2. chunk_got_replicate_status(k, U, pend, r.csid, version, status) = {d}
      BY <1>1, <1>7, Zenon DEF chunk_got_replicate_status, d
    <2> QED BY <1>5, <1>6, <2>1, <2>2 DEF Sound
  <1>8. CASE CopiesIn(d, {"BUSY"}) = {}
    <2>1. \A j \in Csids : d.valid[j] # "BUSY"
      BY <1>8 DEF CopiesIn
    <2>2. Open(P, U)
      BY DEF Open
    <2>3. \A e \in ReplicationEnds(d, U, pend) : Sound(e, d, U, P) /\ Sound(TellIfIdle(e), d, U, P)
      BY <1>1, <1>3, <1>4, <1>5, <2>1, <2>2, ReplicationEndsLinked, Zenon
    <2>4. \A e \in ReplicationEnds(d, U, pend) : Sound(e, k, U, P) /\ Sound(TellIfIdle(e), k, U, P)
      BY <1>6, <2>3, KeptComposes DEF Sound
    <2>5. chunk_got_replicate_status(k, U, pend, r.csid, version, status)
            = ReplicationEnds(d, U, pend) \cup {TellIfIdle(e) : e \in ReplicationEnds(d, U, pend)}
      BY <1>1, <1>8, Zenon DEF chunk_got_replicate_status, d
    <2> QED BY <2>4, <2>5
  <1> QED BY <1>7, <1>8

\* chunk_got_delete_status: the copy was being deleted.
LEMMA DeleteStatusLinked ==
  ASSUME NEW U \in SUBSET Csids, NEW P, NEW r, Open(P \cup {r}, U), r.csid \in U,
         \A p \in P : p.csid # r.csid, r.cmd = "DELETE",
         NEW k, Good(k, U), Linked(k, U, P \cup {r}), Working(k), NEW status
  PROVE  Sound(chunk_got_delete_status(k, r.csid, status), k, U, P)
  <1> DEFINE i == r.csid
             d == chunk_got_delete_status(k, i, status)
             Like(e) == /\ e.out = k.out /\ e.operation = k.operation /\ e.replock = k.replock
                        /\ e.locked = k.locked /\ e.version = k.version /\ e.told = k.told
                        /\ e.valid[i] # "BUSY" /\ \A j \in Csids : j # i => e.valid[j] = k.valid[j]
  <1>1. i \in Csids /\ k.valid[i] = "DEL" /\ k.valid \in [Csids -> Valid]
    <2>1. i \in Deleting(P \cup {r} \cup k.out)
      BY DEF Deleting, Asked
    <2> QED BY <2>1, Zenon DEF Linked, Fitting, Good, HandlerType
  <1>2. Like(d)
    <2>1. Like(SetCopy(k, i, "INVALID", k.sver[i]))
      BY <1>1, Zenon DEF SetCopy, SetCopies, MkChunk
    <2>2. Like(Unlist(k, {i}))
      BY <1>1, Zenon DEF Unlist, SetCopies, MkChunk
    <2>3. d \in {Unlist(k, {i}), SetCopy(k, i, "INVALID", k.sver[i])}
      BY <1>1 DEF chunk_got_delete_status
    <2> HIDE DEF Like
    <2> QED BY <2>1, <2>2, <2>3
  <1> HIDE DEF d
  <1>3. Linked(d, U, P)
    <2>1. Consumes(d, k, U, P, r)
      BY <1>2, Zenon DEF Consumes
    <2> QED BY <2>1, AnswerConsumed, Zenon
  <1>4. Working(d)
    BY <1>1, <1>2 DEF Working
  <1>5. Kept(d, k)
    BY <1>2 DEF Kept
  <1> QED BY <1>3, <1>4, <1>5 DEF Sound, d

\* A report of a copy on a disk that is not marked for removal.
LEMMA ReportedLinked ==
  ASSUME Calm, NEW U \in SUBSET Csids, NEW P, Open(P, U), NEW k, Good(k, U), Linked(k, U, P), Working(k),
         NEW i \in Csids, NEW version
  PROVE  Sound(Reported(k, i, version, FALSE), k, U, P)
  <1> DEFINE e == Reported(k, i, version, FALSE)
  <1>1. k.valid \in [Csids -> Valid]
    BY DEF Good, HandlerType
  <1>2. /\ e.out = k.out /\ e.operation = k.operation /\ e.replock = k.replock
        /\ e.locked = k.locked /\ e.version = k.version /\ e.told = k.told
    BY Zenon DEF Reported, SetCopy, SetCopies, NeedVerIncrease, MkChunk
  <1>3. \A j \in Csids : j # i => e.valid[j] = k.valid[j]
    BY <1>1, Zenon DEF Reported, SetCopy, SetCopies, NeedVerIncrease, MkChunk
  <1>4. /\ k.valid[i] # "NOCOPY" => e.valid[i] = k.valid[i]
        /\ k.valid[i] = "NOCOPY" => e.valid[i] \in {"WVER", "VALID"}
    <2>1. k.valid[i] \in {"NOCOPY", "INVALID", "DEL", "BUSY", "VALID", "WVER"}
      BY NoMarks, Zenon
    <2> QED BY <1>1, <2>1, Zenon DEF Reported, SetCopy, SetCopies, NeedVerIncrease, MkChunk, Busy, Current
  <1> HIDE DEF e
  <1>5. \A j \in Csids : /\ e.valid[j] = "BUSY" <=> k.valid[j] = "BUSY"
                         /\ k.valid[j] = "DEL" => e.valid[j] = "DEL"
    BY <1>3, <1>4
  <1>6. Linked(e, U, P)
    BY <1>2, <1>5, LinkedBy, Zenon
  <1> QED BY <1>2, <1>5, <1>6, Zenon DEF Sound, Working, Kept, e

LEMMA HasChunkLinked ==
  ASSUME Calm, NEW U \in SUBSET Csids, NEW P, Open(P, U), NEW k, Good(k, U), Linked(k, U, P), Working(k),
         NEW pend, Deleting(P) \subseteq Deleting(pend), NEW i \in Csids, NEW version
  PROVE  \A e \in chunk_server_has_chunk(k, U, pend, i, version, FALSE) : Sound(e, k, U, P)
  <1>1. \A d \in chunk_remove_disconnected_chunks(k, U, pend) : Sound(d, k, U, P) /\ Good(d, U)
    BY RemoveDisconnectedLinked, RemoveDisconnectedClean DEF Clean
  <1>2. \A d \in chunk_remove_disconnected_chunks(k, U, pend) : Sound(Reported(d, i, version, FALSE), d, U, P)
    BY <1>1, ReportedLinked, Zenon DEF Sound
  <1> QED BY <1>1, <1>2, KeptComposes, Zenon DEF Sound, chunk_server_has_chunk

\* What the answer to a request of the client says about the chunk.
Asks(e, k) ==
    /\ e.told = "RETRY" => /\ e.locked = k.locked
                           /\ k.locked /\ k.operation = "NONE" => e.operation = "NONE"
    /\ e.told = "OK" => e.locked /\ e.operation = "NONE"
    /\ e.told = "WAIT" => e.locked /\ e.operation \notin {"NONE", "REPLICATE"}

\* A chunk as chunk_prepare_to_modify leaves it: refused, or idle with a current copy.
Prepared(e, k) ==
    /\ e.locked = k.locked
    /\ k.locked /\ k.operation = "NONE" => e.operation = "NONE"
    /\ e.told # "RETRY" => e.operation = "NONE" /\ CopiesIn(e, Current) # {}

LEMMA PrepareLinked ==
  ASSUME Calm, NEW U \in SUBSET Csids, NEW P, Open(P, U), NEW k, Clean(k, U), Linked(k, U, P), Working(k),
         NEW pend, Deleting(P) \subseteq Deleting(pend), NEW registering \in BOOLEAN
  PROVE  \A e \in chunk_prepare_to_modify(k, U, pend, registering) :
            Linked(e, U, P) /\ Working(e) /\ Prepared(e, k)
  <1> DEFINE vc(d) == Cardinality(CopiesIn(d, Current))
             fast == IF ~registering /\ vc(k) > 0 /\ vc(k) < Goal
                     THEN DoJobs(k, U, pend, TRUE) ELSE {k}
             Ready(e) == e.locked = k.locked /\ (k.locked /\ k.operation = "NONE" => e.operation = "NONE")
  <1>1. \A d \in fast \cup {k} : Linked(d, U, P) /\ Working(d) /\ Ready(d)
    <2>1. \A d \in DoJobs(k, U, pend, TRUE) : Sound(d, k, U, P)
      BY DoJobsLinked, Zenon
    <2>2. \A d \in DoJobs(k, U, pend, TRUE) : Linked(d, U, P) /\ Working(d) /\ Ready(d)
      BY <2>1, Zenon DEF Sound, Kept
    <2> QED BY <2>2, Zenon
  <1>2. ASSUME NEW d, Linked(d, U, P), Working(d), Ready(d)
        PROVE  LET e == Tell(d, "RETRY") IN Linked(e, U, P) /\ Working(e) /\ Prepared(e, k)
    <2> DEFINE e == Tell(d, "RETRY")
    <2>1. Linked(e, U, P) /\ Working(e)
      BY <1>2, SettersLinked
    <2>2. e.locked = d.locked /\ e.operation = d.operation /\ e.told = "RETRY"
      BY DEF Tell, MkChunk
    <2> QED BY <1>2, <2>1, <2>2 DEF Prepared
  <1>3. ASSUME NEW d, Ready(d), d.operation = "NONE", CopiesIn(d, Current) # {}
        PROVE  Prepared(d, k)
    BY <1>3 DEF Prepared
  <1>4. ASSUME NEW e \in chunk_prepare_to_modify(k, U, pend, registering)
        PROVE  \E d \in fast \cup {k} :
                  \/ e = Tell(d, "RETRY")
                  \/ e = d /\ d.operation = "NONE" /\ CopiesIn(d, Current) # {}
    <2> DEFINE answer(d) == IF d.operation # "NONE" \/ CopiesIn(d, Current) = {} THEN Tell(d, "RETRY") ELSE d
    <2>1. e \in {Tell(k, "RETRY")} \cup {answer(d) : d \in fast} \cup {Tell(d, "RETRY") : d \in fast}
      BY <1>4, Zenon DEF chunk_prepare_to_modify
    <2> HIDE DEF fast
    <2> QED BY <2>1
  <1> HIDE DEF fast, vc, Ready
  <1> QED BY <1>1, <1>2, <1>3, <1>4

\* What follows the preparation of a write or a truncation.
LEMMA ModifyLinked ==
  ASSUME Calm, NEW U \in SUBSET Csids, NEW P, Open(P, U), NEW k, NEW d, Clean(d, U), Linked(d, U, P),
         Working(d), Prepared(d, k)
  PROVE  /\ Linked(Modify(d), U, P) /\ Working(Modify(d)) /\ Asks(Modify(d), k)
         /\ Linked(Truncate(d), U, P) /\ Working(Truncate(d)) /\ Asks(Truncate(d), k)
  <1>1. CASE d.told = "RETRY"
    <2>1. Modify(d) = d /\ Truncate(d) = d
      BY <1>1 DEF Modify, Truncate
    <2> QED BY <1>1, <2>1, Zenon DEF Prepared, Asks
  <1>2. CASE d.told # "RETRY"
    <2>1. d.operation = "NONE" /\ CopiesIn(d, Current) # {} /\ \A i \in Csids : d.valid[i] # "BUSY"
      BY <1>2, NoMarks, Zenon DEF Prepared, Clean
    <2>2. ASSUME NEW op \in {"SET_VERSION", "TRUNCATE"}
          PROVE  LET e == Lock(Tell(StartVersionOp(d, op), "WAIT"), TRUE)
                 IN Linked(e, U, P) /\ Working(e) /\ Asks(e, k)
      <3> DEFINE s == StartVersionOp(d, op)
                 t == Tell(s, "WAIT")
                 e == Lock(t, TRUE)
      <3>1. Linked(s, U, P) /\ Working(s) /\ s.operation = op
        BY <2>1, StartVersionOpLinked, Zenon
      <3> HIDE DEF s
      <3>2. Linked(t, U, P) /\ Working(t)
        BY <3>1, SettersLinked
      <3>3. t.operation = op /\ t.told = "WAIT"
        BY <3>1 DEF Tell, MkChunk
      <3> HIDE DEF t
      <3>4. Linked(e, U, P) /\ Working(e)
        BY <3>2, SettersLinked, Zenon
      <3>5. e.operation = op /\ e.told = "WAIT" /\ e.locked = TRUE
        BY <3>3 DEF Lock, MkChunk
      <3>6. Asks(e, k)
        BY <3>5, Zenon DEF Asks
      <3> QED BY <3>4, <3>6, Zenon DEF s, t
    <2>3. LET e == Lock(Tell(d, "OK"), TRUE) IN Linked(e, U, P) /\ Working(e) /\ Asks(e, k)
      <3> DEFINE t == Tell(d, "OK")
                 e == Lock(t, TRUE)
      <3>1. Linked(t, U, P) /\ Working(t)
        BY SettersLinked
      <3>2. t.operation = "NONE" /\ t.told = "OK"
        BY <2>1, Zenon DEF Tell, MkChunk
      <3> HIDE DEF t
      <3>3. Linked(e, U, P) /\ Working(e)
        BY <3>1, SettersLinked, Zenon
      <3>4. e.operation = "NONE" /\ e.told = "OK" /\ e.locked = TRUE
        BY <3>2 DEF Lock, MkChunk
      <3>5. Asks(e, k)
        BY <3>4, Zenon DEF Asks
      <3> QED BY <3>3, <3>5, Zenon DEF t
    <2>4. /\ Modify(d) \in {Lock(Tell(StartVersionOp(d, "SET_VERSION"), "WAIT"), TRUE), Lock(Tell(d, "OK"), TRUE)}
          /\ Truncate(d) = Lock(Tell(StartVersionOp(d, "TRUNCATE"), "WAIT"), TRUE)
      BY <1>2 DEF Modify, Truncate
    <2> QED BY <2>2, <2>3, <2>4, Zenon
  <1> QED BY <1>1, <1>2

\* A request of the client as a whole.
LEMMA MultiModifyLinked ==
  ASSUME Calm, NEW U \in SUBSET Csids, NEW P, Open(P, U), NEW k, Good(k, U), Linked(k, U, P), Working(k),
         NEW pend, Deleting(P) \subseteq Deleting(pend), NEW registering \in BOOLEAN,
         NEW continueop \in BOOLEAN
  PROVE  \A e \in chunk_multi_modify(k, U, pend, registering, continueop)
                    \cup chunk_multi_truncate(k, U, pend, registering) :
            Linked(e, U, P) /\ Working(e) /\ Asks(e, k)
  <1> DEFINE Fine(e) == Linked(e, U, P) /\ Working(e) /\ Asks(e, k)
  <1>1. SUFFICES ASSUME NEW d \in chunk_remove_disconnected_chunks(k, U, pend)
                 PROVE  /\ Fine(Tell(d, "RETRY"))
                        /\ \A e \in chunk_prepare_to_modify(d, U, pend, registering) :
                              Fine(Modify(e)) /\ Fine(Truncate(e))
    <2> HIDE DEF Fine
    <2>1. \A e \in chunk_multi_modify(k, U, pend, registering, continueop) : Fine(e)
      BY <1>1, ZenonT(40) DEF chunk_multi_modify
    <2>2. \A e \in chunk_multi_truncate(k, U, pend, registering) : Fine(e)
      BY <1>1, ZenonT(40) DEF chunk_multi_truncate
    <2> QED BY <2>1, <2>2 DEF Fine
  <1>2. Sound(d, k, U, P) /\ Clean(d, U)
    BY RemoveDisconnectedLinked, RemoveDisconnectedClean
  <1>3. Fine(Tell(d, "RETRY"))
    <2> DEFINE e == Tell(d, "RETRY")
    <2>1. Linked(e, U, P) /\ Working(e)
      BY <1>2, SettersLinked, Zenon DEF Sound
    <2>2. e.locked = d.locked /\ e.operation = d.operation /\ e.told = "RETRY"
      BY DEF Tell, MkChunk
    <2>3. Asks(e, k)
      BY <1>2, <2>2, Zenon DEF Asks, Sound, Kept
    <2> QED BY <2>1, <2>3
  <1>4. ASSUME NEW e \in chunk_prepare_to_modify(d, U, pend, registering)
        PROVE  Fine(Modify(e)) /\ Fine(Truncate(e))
    <2>1. Linked(e, U, P) /\ Working(e) /\ Prepared(e, d) /\ Clean(e, U)
      BY <1>2, <1>4, PrepareLinked, PrepareClean DEF Sound
    <2>2. Prepared(e, k)
      BY <1>2, <2>1 DEF Prepared, Sound, Kept
    <2> QED BY <2>1, <2>2, ModifyLinked
  <1> QED BY <1>3, <1>4

(***************************************************************************)
(* Copies are only listed on open connections.                             *)
(***************************************************************************)
LEMMA ReplicateStatusListed ==
  ASSUME NEW U \in SUBSET Csids, NEW k, Good(k, U), NEW pend, NEW i \in U, NEW version \in Versions, NEW status
  PROVE  \A e \in chunk_got_replicate_status(k, U, pend, i, version, status) : Listed(e) \subseteq Listed(k) \cup U
  <1> DEFINE d == ReplicaAnswered(k, i, version, status)
             ends == ReplicationEnds(d, U, pend)
             r == RepLock(SetOp(d, "NONE"), FALSE)
  <1>1. k.valid \in [Csids -> Valid]
    BY DEF Good, HandlerType
  <1>2. Listed(d) \subseteq Listed(k) \cup U /\ Good(d, U)
    <2>1. \A j \in Csids : j # i => d.valid[j] = k.valid[j]
      BY <1>1, Zenon DEF ReplicaAnswered, Unlist, SetCopy, SetCopies, SetOpChunks, MkChunk
    <2>2. Good(d, U)
      BY ReplicaAnsweredGood
    <2> QED BY <2>1, <2>2 DEF Listed
  <1>3. Listed(LateReplica(k, i, version)) \subseteq Listed(k) \cup U
    BY <1>1 DEF LateReplica, SetCopy, SetCopies, MkChunk, Listed
  <1> HIDE DEF d
  <1>4. CASE k.operation # "REPLICATE"
    <2>1. chunk_got_replicate_status(k, U, pend, i, version, status) \subseteq {LateReplica(k, i, version), k}
      BY <1>4 DEF chunk_got_replicate_status
    <2> QED BY <1>3, <2>1
  <1>5. CASE k.operation = "REPLICATE" /\ CopiesIn(d, {"BUSY"}) # {}
    <2>1. chunk_got_replicate_status(k, U, pend, i, version, status) = {d}
      BY <1>5 DEF chunk_got_replicate_status, d
    <2> QED BY <1>2, <2>1
  <1>6. CASE k.operation = "REPLICATE" /\ CopiesIn(d, {"BUSY"}) = {}
    <2>1. chunk_got_replicate_status(k, U, pend, i, version, status) = ends \cup {TellIfIdle(e) : e \in ends}
      BY <1>6 DEF chunk_got_replicate_status, d
    <2>2. ends = {r} \cup DoJobs(DropDisconnected(r, U), U, pend, TRUE)
      BY DEF ReplicationEnds
    <2>3. Good(r, U)
      BY <1>2, <1>6, NoOpGood, SettersGood, Zenon DEF CopiesIn
    <2>4. r.valid = d.valid
      BY Zenon DEF RepLock, SetOp, MkChunk
    <2> HIDE DEF r
    <2>5. Clean(DropDisconnected(r, U), U)
      BY <2>3, DropDisconnectedClean
    <2>6. \A e \in DoJobs(DropDisconnected(r, U), U, pend, TRUE) : Clean(e, U)
      BY <2>5, DoJobsClean, Zenon
    <2>7. \A e \in ends : Listed(e) \subseteq Listed(k) \cup U
      BY <1>2, <2>2, <2>4, <2>6, Zenon DEF Clean, Listed
    <2> HIDE DEF ends
    <2>8. \A e : Listed(TellIfIdle(e)) = Listed(e)
      BY DEF TellIfIdle, TellStatus, Tell, MkChunk, Listed
    <2> QED BY <2>1, <2>7, <2>8
  <1> QED BY <1>4, <1>5, <1>6

\* Neither the answer to a deletion nor the release of the chunk lists a copy.
LEMMA OthersListed ==
  ASSUME NEW U \in SUBSET Csids, NEW k, Good(k, U), NEW pend
  PROVE  /\ \A i \in U : \A status : Listed(chunk_got_delete_status(k, i, status)) \subseteq Listed(k) \cup U
         /\ \A e \in chunk_unlock(k, U, pend) : Listed(e) \subseteq Listed(k) \cup U
         /\ \A S : Listed(SetOpChunks(k, S)) = Listed(k)
  <1>1. k.valid \in [Csids -> Valid]
    BY DEF Good, HandlerType
  <1>2. ASSUME NEW i \in U, NEW status
        PROVE  Listed(chunk_got_delete_status(k, i, status)) \subseteq Listed(k) \cup U
    BY <1>1 DEF chunk_got_delete_status, Unlist, SetCopy, SetCopies, MkChunk, Listed
  <1>3. \A e \in chunk_unlock(k, U, pend) : Listed(e) \subseteq Listed(k) \cup U
    <2> DEFINE u == Lock(k, FALSE)
    <2>1. u.valid = k.valid /\ Good(u, U)
      BY SettersKeepCopies, SettersGood, Zenon
    <2>2. chunk_unlock(k, U, pend) = {u} \cup chunk_do_jobs(u, U, pend, TRUE)
      BY DEF chunk_unlock
    <2> HIDE DEF u
    <2>3. \A e \in chunk_do_jobs(u, U, pend, TRUE) : Clean(e, U)
      BY <2>1, ChunkDoJobsClean, Zenon
    <2> QED BY <2>1, <2>2, <2>3, Zenon DEF Clean, Listed
  <1>4. \A S : Listed(SetOpChunks(k, S)) = Listed(k)
    BY SettersKeepCopies, Zenon DEF Listed
  <1> QED BY <1>2, <1>3, <1>4


(***************************************************************************)
(* The system.                                                             *)
(***************************************************************************)
\* Between two handlers: the chunk in the master and what is in flight.
LEMMA ChunkIsLinked ==
  ASSUME Inv, HeldInv
  PROVE  /\ up \in SUBSET Csids /\ Good(c, up) /\ Linked(c, up, Pending) /\ Working(c)
         /\ Open(Pending, up) /\ c.out = {} /\ c.told = "NOTHING"
  <1>1. c.out = {} /\ c.told = "NOTHING"
    BY DEF Inv, ChunkOK, ChunkType
  <1>2. up \in SUBSET Csids /\ Good(c, up)
    BY ChunkIsGood DEF Inv, ConnectionsOK
  <1>3. \A j \in jobs : j.cmd \in Commands /\ j.csid \in up \cup {NoServer}
    <2>1. jobs \subseteq JobType /\ \A j \in jobs : j.csid \in up \cup {NoServer}
      BY DEF Inv, JobsOK
    <2>2. \A j \in JobType : j.cmd \in Commands
      BY Zenon DEF JobType, Commands
    <2> QED BY <2>1, <2>2
  <1>4. \A r \in replies : r.cmd \in Commands /\ r.csid \in up
    BY DEF Inv, RepliesOK, ReplyType
  <1>5. Open(Pending, up)
    BY <1>3, <1>4 DEF Open, Pending
  <1>6. Pending \cup c.out = jobs \cup replies
    BY <1>1 DEF Pending
  <1>7. SentOnce(c, Pending)
    BY <1>1 DEF SentOnce
  <1> QED BY <1>1, <1>2, <1>5, <1>6, <1>7, Zenon DEF HeldInv, Held, Linked

\* The step applies the chunk f, J being the jobs and R the replies that stay.
Applied(f, U, J, R) ==
    /\ U \in SUBSET Csids /\ Open(J \cup R, U) /\ InFlightOnce(J, R)
    /\ Linked(f, U, J \cup R) /\ Working(f) /\ Apply(f, J)


\* What a handler sent becomes jobs, one for each connection.
LEMMA ApplyHeld ==
  ASSUME NEW U, NEW J, NEW R, NEW f, Applied(f, U, J, R)
  PROVE  /\ Held(c', U, jobs', R)
         /\ c'.valid = f.valid /\ c'.locked = f.locked /\ c'.operation = f.operation
         /\ c'.version = f.version
  <1> /\ U \in SUBSET Csids /\ Open(J \cup R, U) /\ InFlightOnce(J, R)
      /\ Linked(f, U, J \cup R) /\ Working(f) /\ Apply(f, J)
    BY Zenon DEF Applied
  <1> DEFINE P == J \cup R
             N == {Job(r) : r \in f.out}
  <1>1. jobs' = J \cup N /\ c' = Delivered(f)
    BY Zenon DEF Apply
  <1>2. /\ c'.valid = f.valid /\ c'.locked = f.locked /\ c'.operation = f.operation
        /\ c'.version = f.version /\ c'.replock = f.replock
    BY <1>1, Zenon DEF Delivered, MkChunk
  <1>3. \A r : Job(r).csid = r.csid /\ Job(r).cmd = r.cmd
    BY Zenon DEF Job
  <1>4. SentOnce(f, P) /\ Fitting(f, P \cup f.out) /\ Served(f, U, P \cup f.out)
    BY Zenon DEF Linked
  <1>5. ASSUME NEW C PROVE Asked(jobs' \cup R, C) = Asked(P \cup f.out, C)
    BY <1>1, <1>3 DEF Asked
  <1>6. /\ Operating(jobs' \cup R) = Operating(P \cup f.out)
        /\ Replicating(jobs' \cup R) = Replicating(P \cup f.out)
        /\ Deleting(jobs' \cup R) = Deleting(P \cup f.out)
    BY <1>5, Zenon DEF Operating, Replicating, Deleting
  <1>7. Fitting(c', jobs' \cup R)
    BY <1>2, <1>4, <1>6, Zenon DEF Fitting
  <1>8. Served(c', U, jobs' \cup R)
    BY <1>2, <1>4, <1>6, Zenon DEF Served
  <1>9. Working(c')
    BY <1>2 DEF Working
  <1>10. InFlightOnce(jobs', R)
    <2>1. /\ \A r \in f.out, s \in f.out : r.csid = s.csid => r = s
          /\ \A r \in f.out, p \in P : r.csid # p.csid
      BY <1>4, Zenon DEF SentOnce
    <2>2. ASSUME NEW j \in J \cup N, NEW k \in J \cup N, j.csid = k.csid, j.csid \in Csids PROVE j = k
      <3>1. CASE j \in J /\ k \in J
        BY <2>2, <3>1 DEF InFlightOnce
      <3>2. CASE j \in J /\ k \in N
        <4>1. PICK r \in f.out : k = Job(r)
          BY <3>2, Zenon
        <4> QED BY <1>3, <2>1, <2>2, <3>2, <4>1, Zenon
      <3>3. CASE j \in N /\ k \in J
        <4>1. PICK r \in f.out : j = Job(r)
          BY <3>3, Zenon
        <4> QED BY <1>3, <2>1, <2>2, <3>3, <4>1, Zenon
      <3>4. CASE j \in N /\ k \in N
        <4>1. PICK r \in f.out, s \in f.out : j = Job(r) /\ k = Job(s)
          BY <3>4, Zenon
        <4> QED BY <1>3, <2>1, <2>2, <4>1, Zenon
      <3> QED BY <3>1, <3>2, <3>3, <3>4, Zenon
    <2>3. ASSUME NEW j \in J \cup N, NEW r \in R PROVE j.csid # r.csid
      BY <1>3, <2>1 DEF InFlightOnce
    <2>4. \A r \in R, q \in R : r.csid = q.csid => r = q
      BY DEF InFlightOnce
    <2> HIDE DEF N
    <2> QED BY <1>1, <2>2, <2>3, <2>4 DEF InFlightOnce
  <1> QED BY <1>2, <1>7, <1>8, <1>9, <1>10 DEF Held

\* The client after a handler of the master that ended with e.
LEMMA StatusHeld ==
  ASSUME ClientHeld, c.told = "NOTHING", NEW e, Kept(e, c), matoclserv_chunk_status(e)
  PROVE  \/ client' \in {"IDLE", "ABANDONED"}
         \/ /\ ~(Waiting /\ (e.told = "ERROR" \/ (e.told = "OK" /\ client = "TRUNCATING")))
            /\ e.locked
            /\ Waiting' => e.operation \notin {"NONE", "REPLICATE"}
            /\ client' \in {"GRANTED", "RETRYING"} => e.operation = "NONE"
            /\ client' = "GRANTED" => gver' = e.version
  <1>1. CASE ~Waiting /\ UNCHANGED <<client, gver>>
    BY <1>1 DEF ClientHeld, Kept, Waiting
  <1>2. CASE Waiting /\ e.told \notin {"OK", "ERROR"} /\ UNCHANGED <<client, gver>>
    BY <1>2 DEF ClientHeld, Kept, Waiting
  <1>3. CASE client' \in {"IDLE", "ABANDONED"}
    BY <1>3
  <1>4. CASE client \in {"CREATING", "WRITING"} /\ e.told = "OK" /\ Grant(e)
    BY <1>4 DEF ClientHeld, Kept, Waiting, Grant
  <1> QED BY <1>1, <1>2, <1>3, <1>4 DEF matoclserv_chunk_status

\* A handler of the master with sound results, which leaves the connections U
\* open and the jobs J and the answers R in flight.
LEMMA HandleHeld ==
  ASSUME Calm, Inv, HeldInv, NEW U \in SUBSET Csids, NEW J, NEW R, Open(J \cup R, U), InFlightOnce(J, R),
         Deleting(J \cup R) \subseteq Deleting(Pending),
         NEW H, \A e \in H : Good(e, U) /\ Sound(e, c, U, J \cup R),
         NEW S, \A e \in H : Listed(e) \subseteq S \cup U, Handle(H, U, J)
  PROVE  Held(c', U, jobs', R) /\ ClientHeld' /\ Listed(c') \subseteq S \cup U
  <1>1. PICK e \in H : /\ \E f \in Settled(e, U) : Apply(f, J)
                       /\ matoclserv_chunk_status(e)
    BY DEF Handle
  <1>2. PICK f \in Settled(e, U) : Apply(f, J)
    BY <1>1
  <1>3. Good(e, U) /\ Linked(e, U, J \cup R) /\ Working(e) /\ Kept(e, c) /\ Listed(e) \subseteq S \cup U
    BY DEF Sound
  <1>4. Linked(f, U, J \cup R) /\ Working(f) /\ Listed(f) \subseteq S \cup U
    <2>1. CASE f = e
      BY <1>3, <2>1
    <2>2. CASE f \in chunk_unlock(e, U, Pending)
      BY <1>3, <2>2, UnlockLinked, OthersListed, Zenon
    <2> QED BY <1>2, <2>1, <2>2 DEF Settled
  <1>5. /\ Held(c', U, jobs', R)
        /\ c'.valid = f.valid /\ c'.locked = f.locked /\ c'.operation = f.operation
        /\ c'.version = f.version
    <2>1. Applied(f, U, J, R)
      BY <1>2, <1>4, Zenon DEF Applied
    <2> QED BY <2>1, ApplyHeld, Zenon
  <1>6. ClientHeld'
    <2>1. c.told = "NOTHING" /\ ClientHeld
      BY ChunkIsLinked, Zenon DEF HeldInv
    <2>2. CASE client' \in {"IDLE", "ABANDONED"}
      BY <2>2 DEF ClientHeld, Waiting
    <2>3. CASE client' \notin {"IDLE", "ABANDONED"}
      <3>1. /\ ~(Waiting /\ (e.told = "ERROR" \/ (e.told = "OK" /\ client = "TRUNCATING")))
            /\ e.locked
            /\ Waiting' => e.operation \notin {"NONE", "REPLICATE"}
            /\ client' \in {"GRANTED", "RETRYING"} => e.operation = "NONE"
            /\ client' = "GRANTED" => gver' = e.version
        BY <1>1, <1>3, <2>1, <2>3, StatusHeld
      <3>2. f = e
        BY <1>2, <3>1 DEF Settled
      <3> QED BY <1>5, <3>1, <3>2, Zenon DEF ClientHeld
    <2> QED BY <2>2, <2>3
  <1>7. Listed(c') \subseteq S \cup U
    BY <1>4, <1>5, Zenon DEF Listed
  <1> QED BY <1>5, <1>6, <1>7, Zenon

\* A handler that closes no connection, with the answers R still to come.
LEMMA MasterHeld ==
  ASSUME Calm, Inv, HeldInv, NEW R \in SUBSET replies,
         NEW H, \A e \in H : Good(e, up) /\ Sound(e, c, up, jobs \cup R),
         \A e \in H : Listed(e) \subseteq Listed(c) \cup up,
         Handle(H, up, jobs), up' = up, host' = host, replies' = R
  PROVE  HeldInv'
  <1>1. up \in SUBSET Csids /\ Open(Pending, up)
    BY ChunkIsLinked
  <1>2. Open(jobs \cup R, up) /\ Deleting(jobs \cup R) \subseteq Deleting(Pending)
    BY <1>1 DEF Open, Pending, Deleting, Asked
  <1>3. InFlightOnce(jobs, R)
    BY DEF HeldInv, Held, InFlightOnce
  <1>4. Held(c', up, jobs', R) /\ ClientHeld' /\ Listed(c') \subseteq Listed(c) \cup up
    BY <1>1, <1>2, <1>3, HandleHeld, Zenon
  <1>5. FreeUnlisted'
    <2>1. \A i \in up : host[i] # NoServer
      BY ServersAssumption DEF Inv, ConnectionsOK
    <2>2. \A i \in Csids : host[i] = NoServer => i \notin Listed(c')
      BY <1>4, <2>1, Zenon DEF HeldInv, FreeUnlisted, Listed
    <2> QED BY <2>2 DEF FreeUnlisted, Listed
  <1> QED BY <1>4, <1>5 DEF HeldInv

\* Answers of chunkservers.
LEMMA AnswersHeld ==
  ASSUME Calm, Inv, HeldInv, NEW r \in replies,
         GotOperationStatus(r) \/ GotReplicateStatus(r) \/ GotDeleteStatus(r)
  PROVE  HeldInv'
  <1> DEFINE R == replies \ {r}
             P == jobs \cup R
  <1>1. /\ up \in SUBSET Csids /\ Good(c, up) /\ Linked(c, up, Pending) /\ Working(c)
        /\ Open(Pending, up)
    BY ChunkIsLinked, Zenon
  <1>2. r.csid \in up /\ r.csid \in Csids /\ r.version \in Versions
    BY DEF Inv, ConnectionsOK, RepliesOK, ReplyType
  <1>3. InFlightOnce(jobs, replies)
    BY DEF HeldInv, Held
  <1>4. \A p \in P : p.csid # r.csid
    BY <1>3 DEF InFlightOnce
  <1>5. P \cup {r} = Pending /\ Pending \ {r} = P
    BY <1>4 DEF Pending
  <1>6. up' = up /\ host' = host /\ replies' = R
    BY DEF GotOperationStatus, GotReplicateStatus, GotDeleteStatus
  <1> HIDE DEF P
  <1>7. Open(P \cup {r}, up) /\ Linked(c, up, P \cup {r})
    BY <1>1, <1>5
  <1>8. CASE GotOperationStatus(r)
    <2> DEFINE H == chunk_operation_status(c, up, P, r.csid, r.status)
    <2>1. r.cmd \in OpCommands /\ Handle(H, up, jobs)
      BY <1>5, <1>8 DEF GotOperationStatus
    <2>2. Deleting(P \cup {r}) \subseteq Deleting(P)
      BY <2>1 DEF Deleting, Asked, OpCommands
    <2>3. \A e \in H : Sound(e, c, up, P)
      BY <1>1, <1>2, <1>4, <1>7, <2>1, <2>2, OperationStatusLinked, Zenon
    <2>4. \A e \in H : Clean(e, up)
      BY <1>1, <1>2, OperationStatusGood
    <2> HIDE DEF H
    <2> QED BY <1>6, <2>1, <2>3, <2>4, MasterHeld DEF Clean, P
  <1>9. CASE GotReplicateStatus(r)
    <2> DEFINE H == chunk_got_replicate_status(c, up, P, r.csid, r.version, r.status)
    <2>1. r.cmd = "REPLICATE" /\ Handle(H, up, jobs)
      BY <1>5, <1>9 DEF GotReplicateStatus
    <2>2. Deleting(P) \subseteq Deleting(P)
      OBVIOUS
    <2>3. \A e \in H : Sound(e, c, up, P)
      BY <1>1, <1>2, <1>4, <1>7, <2>1, <2>2, ReplicateStatusLinked, Zenon
    <2>4. \A e \in H : Good(e, up) /\ Listed(e) \subseteq Listed(c) \cup up
      BY <1>1, <1>2, ReplicateStatusGood, ReplicateStatusListed
    <2> HIDE DEF H
    <2> QED BY <1>6, <2>1, <2>3, <2>4, MasterHeld, Zenon DEF P
  <1>10. CASE GotDeleteStatus(r)
    <2> DEFINE d == chunk_got_delete_status(c, r.csid, r.status)
               H == {d}
    <2>1. r.cmd = "DELETE" /\ Handle(H, up, jobs)
      BY <1>10 DEF GotDeleteStatus
    <2>2. Sound(d, c, up, P)
      BY <1>1, <1>2, <1>4, <1>7, <2>1, DeleteStatusLinked, Zenon
    <2>3. Good(d, up) /\ Listed(d) \subseteq Listed(c) \cup up
      BY <1>1, <1>2, DeleteStatusGood, OthersListed
    <2> HIDE DEF d
    <2>4. \A e \in H : /\ Good(e, up) /\ Sound(e, c, up, jobs \cup R)
                       /\ Listed(e) \subseteq Listed(c) \cup up
      BY <2>2, <2>3 DEF P
    <2> HIDE DEF H
    <2> QED BY <1>6, <2>1, <2>4, MasterHeld, Zenon
  <1> QED BY <1>8, <1>9, <1>10

\* A chunk that a handler does not touch.
LEMMA UntouchedSound ==
  ASSUME NEW U, NEW P, NEW k, Linked(k, U, P), Working(k)
  PROVE  Sound(k, k, U, P)
  BY DEF Sound, Kept

\* The periodic loops of the master.
LEMMA PeriodicHeld ==
  ASSUME Calm, Inv, HeldInv, chunk_jobs_main \/ chunk_server_disconnection_loop
  PROVE  HeldInv'
  <1>1. /\ up \in SUBSET Csids /\ Good(c, up) /\ Linked(c, up, Pending) /\ Working(c)
        /\ Open(Pending, up)
    BY ChunkIsLinked
  <1>2. Deleting(Pending) \subseteq Deleting(Pending) /\ Pending = jobs \cup replies
    BY DEF Pending
  <1>3. up' = up /\ replies' = replies
    BY DEF chunk_jobs_main, chunk_server_disconnection_loop
  <1>4. CASE chunk_jobs_main
    <2>0. PICK extra \in BOOLEAN : Handle(chunk_do_jobs(c, up, Pending, extra), up, jobs)
      BY <1>4 DEF chunk_jobs_main
    <2> DEFINE H == chunk_do_jobs(c, up, Pending, extra)
    <2>1. \A e \in H : Sound(e, c, up, Pending)
      BY <1>1, <1>2, ChunkDoJobsLinked
    <2>2. \A e \in H : Clean(e, up)
      BY <1>1, ChunkDoJobsClean
    <2>3. Handle(H, up, jobs) /\ host' = host
      BY <1>4, <2>0 DEF chunk_jobs_main
    <2> HIDE DEF H
    <2> QED BY <1>2, <1>3, <2>1, <2>2, <2>3, MasterHeld DEF Clean
  <1>5. CASE chunk_server_disconnection_loop
    <2> DEFINE H == chunk_remove_disconnected_chunks(c, up, Pending)
    <2>1. \A e \in H : Sound(e, c, up, Pending)
      BY <1>1, <1>2, RemoveDisconnectedLinked
    <2>2. \A e \in H : Clean(e, up)
      BY <1>1, RemoveDisconnectedClean
    <2>3. /\ Handle(H, up, jobs)
          /\ host' = [i \in Csids |-> IF i \in up THEN host[i] ELSE NoServer]
      BY <1>5 DEF chunk_server_disconnection_loop
    <2>4. InFlightOnce(jobs, replies)
      BY DEF HeldInv, Held
    <2> HIDE DEF H
    <2>5. \A e \in H : Good(e, up) /\ Sound(e, c, up, jobs \cup replies)
      BY <1>2, <2>1, <2>2 DEF Clean
    <2>6. Held(c', up, jobs', replies) /\ ClientHeld' /\ Listed(c') \subseteq up
      <3> DEFINE S == {}
      <3>1. \A e \in H : Listed(e) \subseteq S \cup up
        BY <2>2 DEF Clean
      <3>2. Open(jobs \cup replies, up) /\ Deleting(jobs \cup replies) \subseteq Deleting(Pending)
        BY <1>1, <1>2
      <3> HIDE DEF S
      <3>3. Held(c', up, jobs', replies) /\ ClientHeld' /\ Listed(c') \subseteq S \cup up
        BY <1>1, <2>3, <2>4, <2>5, <3>1, <3>2, HandleHeld, Zenon
      <3> QED BY <3>3 DEF S
    <2>7. FreeUnlisted'
      <3>1. \A i \in up : host[i] # NoServer
        BY ServersAssumption DEF Inv, ConnectionsOK
      <3>2. \A i \in Csids : host'[i] = NoServer => i \notin Listed(c')
        BY <2>3, <2>6, <3>1
      <3> QED BY <3>2 DEF FreeUnlisted, Listed
    <2> QED BY <1>3, <2>6, <2>7 DEF HeldInv
  <1> QED BY <1>4, <1>5

\* The chunk list of a registering chunkserver.
LEMMA ReportsHeld ==
  ASSUME Calm, Inv, HeldInv, NEW i \in Csids, RegisterChunks(i)
  PROVE  HeldInv'
  <1> DEFINE v == dver[host[i]]
             H == IF v = NoFile THEN {c} ELSE chunk_server_has_chunk(c, up, Pending, i, v, FALSE)
  <1>1. /\ up \in SUBSET Csids /\ Good(c, up) /\ Linked(c, up, Pending) /\ Working(c)
        /\ Open(Pending, up)
    BY ChunkIsLinked
  <1>2. Deleting(Pending) \subseteq Deleting(Pending) /\ Pending = jobs \cup replies
    BY DEF Pending
  <1>3. (host[i] \in marked) = FALSE
    BY DEF Calm, Inv, DisksOK
  <1>4. Handle(H, up, jobs) /\ up' = up /\ host' = host /\ replies' = replies /\ i \in up
    BY <1>3, Zenon DEF RegisterChunks
  <1>5. v \in Versions \cup {NoFile}
    BY <1>4 DEF Inv, ConnectionsOK, DisksOK
  <1> HIDE DEF v
  <1>6. \A e \in H : Sound(e, c, up, jobs \cup replies)
    <2>1. CASE v = NoFile
      BY <1>1, <1>2, <2>1, UntouchedSound
    <2>2. CASE v # NoFile
      BY <1>1, <1>2, <2>2, HasChunkLinked, Zenon
    <2> QED BY <2>1, <2>2, Zenon
  <1>7. \A e \in H : Good(e, up) /\ Listed(e) \subseteq Listed(c) \cup up
    <2>1. CASE v = NoFile
      BY <1>1, <2>1
    <2>2. CASE v # NoFile
      <3>1. v \in Versions /\ FALSE \in BOOLEAN
        BY <1>5, <2>2
      <3>2. \A e \in chunk_server_has_chunk(c, up, Pending, i, v, FALSE) : Good(e, up)
        BY <1>1, <3>1, HasChunkGood, Zenon
      <3>3. ASSUME NEW d \in chunk_remove_disconnected_chunks(c, up, Pending)
            PROVE  Listed(Reported(d, i, v, FALSE)) \subseteq up
        <4>1. Listed(d) \subseteq up /\ d.valid \in [Csids -> Valid]
          BY <1>1, RemoveDisconnectedClean DEF Clean, Good, HandlerType
        <4>2. \A j \in Csids : j # i => Reported(d, i, v, FALSE).valid[j] = d.valid[j]
          BY <4>1, Zenon DEF Reported, SetCopy, SetCopies, NeedVerIncrease, MkChunk
        <4> QED BY <1>4, <4>1, <4>2, Zenon DEF Listed
      <3> QED BY <2>2, <3>2, <3>3, Zenon DEF chunk_server_has_chunk
    <2> QED BY <2>1, <2>2, Zenon
  <1> HIDE DEF H
  <1> QED BY <1>4, <1>6, <1>7, MasterHeld

\* A chunkserver gets a free csid, on which the chunk has no copy.
LEMMA ConnectionHeld ==
  ASSUME Inv, HeldInv, NEW i \in Csids, NEW s \in Servers, chunk_server_connected(s, i)
  PROVE  HeldInv'
  <1>1. /\ host[i] = NoServer /\ host' = [host EXCEPT ![i] = s] /\ up' = up \cup {i}
        /\ UNCHANGED <<c, jobs, replies, client, gver>>
    BY DEF chunk_server_connected, chunkservers, clients
  <1>2. Served(c, up', jobs \cup replies)
    BY <1>1, Zenon DEF HeldInv, Held, FreeUnlisted, Served
  <1>3. Held(c, up', jobs, replies)
    BY <1>2 DEF HeldInv, Held
  <1>4. FreeUnlisted'
    BY <1>1, ServersAssumption DEF HeldInv, FreeUnlisted, Inv, ConnectionsOK
  <1>5. ClientHeld'
    BY <1>1 DEF HeldInv, ClientHeld, Waiting
  <1> QED BY <1>1, <1>3, <1>4, <1>5 DEF HeldInv

\* LOCKTIMEOUT takes the lock of a client that has gone; REPLOCKTIMEOUT that of
\* a replication no open connection executes.
LEMMA TimeoutsHeld ==
  ASSUME Calm, Inv, HeldInv, LockTimeout \/ ReplockTimeout
  PROVE  HeldInv'
  <1>1. UNCHANGED <<up, host, jobs, replies, client, gver>>
    BY Zenon DEF LockTimeout, ReplockTimeout, chunkservers, clients
  <1>2. up \in SUBSET Csids /\ Open(Pending, up)
    BY ChunkIsLinked
  <1>3. /\ c'.valid = c.valid /\ c'.operation = c.operation /\ c'.version = c.version
        /\ (c'.locked = c.locked \/ client \in {"IDLE", "ABANDONED"})
    <2>1. CASE LockTimeout
      BY <2>1, Zenon DEF LockTimeout, Lock, MkChunk
    <2>2. CASE ReplockTimeout
      BY <2>2, Zenon DEF ReplockTimeout, RepLock, MkChunk
    <2> QED BY <2>1, <2>2
  <1>4. c'.replock = c.replock \/ Replicating(jobs \cup replies) = {}
    <2>1. CASE LockTimeout
      BY <2>1 DEF LockTimeout, Lock, MkChunk
    <2>2. CASE ReplockTimeout
      <3>1. \A p \in Pending : p.cmd = "REPLICATE" => p.csid \notin up
        BY <2>2 DEF ReplockTimeout, Calm
      <3> QED BY <1>2, <3>1, CsidsAssumption DEF Replicating, Asked, Open, Pending
    <2> QED BY <2>1, <2>2
  <1>5. Held(c', up, jobs, replies)
    BY <1>3, <1>4, Zenon DEF HeldInv, Held, Fitting, Served, Working
  <1>6. FreeUnlisted'
    BY <1>1, <1>3 DEF HeldInv, FreeUnlisted
  <1>7. ClientHeld'
    BY <1>1, <1>3, Zenon DEF HeldInv, ClientHeld, Waiting
  <1> QED BY <1>1, <1>5, <1>6, <1>7 DEF HeldInv

\* A connection is closed: its answers are gone, its jobs answer to nobody.
LEMMA DisconnectionHeld ==
  ASSUME Calm, Inv, HeldInv, NEW i \in Csids, chunk_server_disconnected(i)
  PROVE  HeldInv'
  <1> DEFINE U == up \ {i}
             R == {r \in replies : r.csid # i}
             J(L) == {j \in jobs : j.csid # i} \cup {Orphan(j) : j \in L}
             H == IF i \in c.opchunks THEN chunk_remove_disconnected_chunks(c, U, Pending) ELSE {c}
             G == {SetOpChunks(e, e.opchunks \ {i}) : e \in H}
  <1>1. /\ up \in SUBSET Csids /\ Linked(c, up, Pending) /\ Working(c) /\ Open(Pending, up) /\ c.out = {}
    BY ChunkIsLinked
  <1>2. up' = U /\ replies' = R /\ host' = host /\ i \in up
    BY Zenon DEF chunk_server_disconnected
  <1>3. PICK L \in SUBSET jobs : Handle(G, up', J(L))
    BY <1>2, Zenon DEF chunk_server_disconnected
  <1> DEFINE K == J(L)
             P == K \cup R
  <1>4. U \in SUBSET Csids /\ Good(c, U)
    BY <1>1, ChunkIsGood, Zenon DEF Inv
  <1>5. \A j \in L : Orphan(j).csid = NoServer /\ Orphan(j).cmd = j.cmd
    BY DEF Orphan
  <1>6. Open(P, U)
    BY <1>1, <1>5, Zenon DEF Open, Pending
  <1>7. InFlightOnce(K, R)
    <2>1. InFlightOnce(jobs, replies)
      BY DEF HeldInv, Held
    <2>2. \A r \in R : r.csid # NoServer
      BY <1>1, CsidsAssumption DEF Inv, RepliesOK
    <2>3. \A j \in K : j \in jobs \/ j.csid = NoServer
      BY <1>5
    <2> HIDE DEF K
    <2> QED BY <2>1, <2>2, <2>3, CsidsAssumption DEF InFlightOnce
  <1>8. ASSUME NEW C
        PROVE  /\ Asked(P, C) \subseteq Asked(Pending, C)
               /\ \A k \in U : k \in Asked(Pending, C) => k \in Asked(P, C)
    BY <1>1, <1>5, CsidsAssumption, Zenon DEF Asked, Pending
  <1>9. /\ Operating(P) \subseteq Operating(Pending) /\ Replicating(P) \subseteq Replicating(Pending)
        /\ Deleting(P) \subseteq Deleting(Pending)
        /\ \A k \in U : k \in Operating(Pending) \cup Replicating(Pending)
                          => k \in Operating(P) \cup Replicating(P)
    BY <1>8 DEF Operating, Replicating, Deleting
  <1> HIDE DEF K, P
  <1>10. Linked(c, U, P)
    <2>1. Fitting(c, Pending) /\ Served(c, up, Pending)
      BY DEF HeldInv, Held, Pending
    <2>2. Fitting(c, P)
      BY <1>9, <2>1, Zenon DEF Fitting
    <2>3. Served(c, U, P)
      BY <1>9, <2>1, Zenon DEF Served
    <2>4. SentOnce(c, P) /\ P \cup c.out = P
      BY <1>1, Zenon DEF SentOnce
    <2> QED BY <2>2, <2>3, <2>4, Zenon DEF Linked
  <1>11. \A e \in H : Good(e, U) /\ Sound(e, c, U, P) /\ Listed(e) \subseteq Listed(c) \cup U
    <2>1. CASE i \in c.opchunks
      <3>1. \A e \in chunk_remove_disconnected_chunks(c, U, Pending) : Sound(e, c, U, P)
        BY <1>1, <1>4, <1>6, <1>9, <1>10, RemoveDisconnectedLinked, Zenon
      <3>2. \A e \in chunk_remove_disconnected_chunks(c, U, Pending) : Clean(e, U)
        BY <1>4, RemoveDisconnectedClean
      <3> QED BY <2>1, <3>1, <3>2, Zenon DEF Clean
    <2>2. CASE i \notin c.opchunks
      BY <1>1, <1>4, <1>10, <2>2, UntouchedSound, Zenon
    <2> QED BY <2>1, <2>2, Zenon
  <1> HIDE DEF H
  <1>12. \A e \in G : Good(e, U) /\ Sound(e, c, U, P) /\ Listed(e) \subseteq Listed(c) \cup U
    <2>1. ASSUME NEW d \in H
          PROVE  LET e == SetOpChunks(d, d.opchunks \ {i})
                 IN Good(e, U) /\ Sound(e, c, U, P) /\ Listed(e) \subseteq Listed(c) \cup U
      <3> DEFINE e == SetOpChunks(d, d.opchunks \ {i})
      <3>1. Good(d, U) /\ Linked(d, U, P) /\ Working(d) /\ Kept(d, c) /\ Listed(d) \subseteq Listed(c) \cup U
        BY <1>11 DEF Sound
      <3>2. d.opchunks \ {i} \in SUBSET Csids
        BY <3>1 DEF Good, HandlerType
      <3>3. Good(e, U) /\ Linked(e, U, P) /\ Working(e) /\ Listed(e) = Listed(d)
        BY <1>4, <3>1, <3>2, SettersGood, SettersLinked, OthersListed, Zenon
      <3>4. e.locked = d.locked /\ e.operation = d.operation /\ e.version = d.version /\ e.told = d.told
        BY Zenon DEF SetOpChunks, MkChunk
      <3>5. Kept(e, c)
        BY <3>1, <3>4, Zenon DEF Kept
      <3> QED BY <3>1, <3>3, <3>5, Zenon DEF Sound
    <2> QED BY <2>1, Zenon
  <1> HIDE DEF G
  <1>13. Held(c', U, jobs', R) /\ ClientHeld' /\ Listed(c') \subseteq Listed(c) \cup U
    <2>1. Handle(G, U, K)
      BY <1>2, <1>3, Zenon DEF K
    <2>2. Open(K \cup R, U) /\ Deleting(K \cup R) \subseteq Deleting(Pending)
      BY <1>6, <1>9 DEF P
    <2>3. /\ \A e \in G : Good(e, U) /\ Sound(e, c, U, K \cup R)
          /\ \A e \in G : Listed(e) \subseteq Listed(c) \cup U
      BY <1>12, Zenon DEF P
    <2> HIDE DEF R, U
    <2> QED BY <1>4, <1>7, <2>1, <2>2, <2>3, HandleHeld, Zenon
  <1>14. FreeUnlisted'
    <2>1. \A k \in U : host[k] # NoServer
      BY ServersAssumption DEF Inv, ConnectionsOK
    <2>2. \A k \in Csids : host[k] = NoServer => k \notin Listed(c')
      BY <1>13, <2>1, Zenon DEF HeldInv, FreeUnlisted, Listed
    <2> QED BY <1>2, <2>2 DEF FreeUnlisted, Listed
  <1> QED BY <1>2, <1>13, <1>14 DEF HeldInv

\* A message takes the place of the job it comes from.
LEMMA MessageReplaced ==
  ASSUME Inv, HeldInv, NEW j \in jobs, NEW J, NEW R, NEW m,
         m.csid = j.csid, m.cmd = j.cmd,
         \/ J = (jobs \ {j}) \cup {m} /\ R = replies
         \/ J = jobs \ {j} /\ R = replies \cup {m} /\ j.csid \in up
         \/ J = jobs \ {j} /\ R = replies /\ j.csid \notin up
  PROVE  Held(c, up, J, R)
  <1>1. /\ up \in SUBSET Csids /\ Open(Pending, up)
    BY ChunkIsLinked
  <1>2. InFlightOnce(jobs, replies) /\ Fitting(c, Pending) /\ Served(c, up, Pending) /\ Working(c)
    BY DEF HeldInv, Held, Pending
  <1>3. j.csid \in up \/ j.csid \notin Csids
    BY <1>1, CsidsAssumption DEF Open, Pending
  <1>4. ASSUME NEW C PROVE Asked(J \cup R, C) = Asked(Pending, C)
    BY <1>1, <1>3 DEF Asked, Pending
  <1>5. /\ Operating(J \cup R) = Operating(Pending) /\ Replicating(J \cup R) = Replicating(Pending)
        /\ Deleting(J \cup R) = Deleting(Pending)
    BY <1>4 DEF Operating, Replicating, Deleting
  <1>6. InFlightOnce(J, R)
    BY <1>1, <1>2 DEF InFlightOnce
  <1>7. Fitting(c, J \cup R) /\ Served(c, up, J \cup R)
    BY <1>2, <1>5, Zenon DEF Fitting, Served
  <1> QED BY <1>2, <1>6, <1>7 DEF Held

\* What chunkservers do with their jobs.
LEMMA JobsHeld ==
  ASSUME Calm, Inv, HeldInv, NEW j \in jobs, Exec(j) \/ Overload(j) \/ DiskError(j)
  PROVE  HeldInv'
  <1>1. ASSUME UNCHANGED <<c, up, host, client, gver>>, Held(c, up, jobs', replies')
        PROVE  HeldInv'
    BY <1>1, Zenon DEF HeldInv, FreeUnlisted, ClientHeld, Waiting
  <1>2. ASSUME NEW status, NEW version, NEW data, Done(j, status, version, data)
        PROVE  HeldInv'
    <2> DEFINE m == [csid |-> j.csid, cmd |-> j.cmd, version |-> j.version, status |-> status]
    <2>1. UNCHANGED <<c, up, host, client, gver>> /\ jobs' = jobs \ {j}
      BY <1>2 DEF Done, master, clients
    <2>2. replies' = IF j.csid \in up THEN replies \cup {m} ELSE replies
      BY <1>2, Zenon DEF Done, Answer
    <2>3. m.csid = j.csid /\ m.cmd = j.cmd
      OBVIOUS
    <2> HIDE DEF m
    <2>4. Held(c, up, jobs', replies')
      BY <2>1, <2>2, <2>3, MessageReplaced
    <2> QED BY <1>1, <2>1, <2>4
  <1>3. ASSUME NEW status, Refused(j, status) PROVE HeldInv'
    BY <1>2, <1>3 DEF Refused
  <1>4. CASE ReplicateStart(j)
    <2>1. CASE /\ jobs' = (jobs \ {j}) \cup {Started(j, ddata[j.src])}
               /\ UNCHANGED <<master, replies, clients>>
      <3> DEFINE m == Started(j, ddata[j.src])
      <3>1. m.csid = j.csid /\ m.cmd = j.cmd
        BY Zenon DEF Started
      <3>2. UNCHANGED <<c, up, host, client, gver>> /\ jobs' = (jobs \ {j}) \cup {m} /\ replies' = replies
        BY <2>1, Zenon DEF master, clients
      <3> HIDE DEF m
      <3>3. Held(c, up, jobs', replies')
        BY <3>1, <3>2, MessageReplaced
      <3> QED BY <1>1, <3>2, <3>3
    <2> QED BY <1>3, <1>4, <2>1, Zenon DEF ReplicateStart
  <1>5. CASE hdd_int_create(j) \/ hdd_int_version(j) \/ hdd_int_delete(j) \/ ReplicateEnd(j)
    BY <1>2, <1>3, <1>5, Zenon DEF hdd_int_create, hdd_int_version, hdd_int_delete, ReplicateEnd
  <1>6. CASE Overload(j)
    BY <1>3, <1>6, Zenon DEF Overload
  <1>7. ~DiskError(j)
    BY Zenon DEF DiskError, Calm
  <1> QED BY <1>4, <1>5, <1>6, <1>7 DEF Exec

\* A request of the client is refused, granted or waits for an operation.
LEMMA AskHeld ==
  ASSUME Calm, Inv, HeldInv, NEW H,
         \A e \in H : /\ Linked(e, up, Pending) /\ Working(e) /\ Asks(e, c)
                      /\ Listed(e) \subseteq up,
         NEW w, NEW state \in {"WRITING", "TRUNCATING"}, Ask(H, w, state),
         client \in {"IDLE", "GRANTED", "RETRYING"}
  PROVE  HeldInv'
  <1>1. PICK e \in H :
          /\ Apply(e, jobs)
          /\ \/ /\ e.told = "RETRY"
                /\ client' = IF client = "IDLE" THEN "IDLE" ELSE "RETRYING"
             \/ e.told = "OK" /\ Grant(e)
             \/ e.told = "WAIT" /\ client' = state
          /\ UNCHANGED <<up, host, replies>>
    BY DEF Ask
  <1>2. up \in SUBSET Csids /\ Open(jobs \cup replies, up) /\ InFlightOnce(jobs, replies)
    BY ChunkIsLinked, Zenon DEF Pending, HeldInv, Held
  <1>3. Linked(e, up, jobs \cup replies) /\ Working(e) /\ Asks(e, c) /\ Listed(e) \subseteq up
    BY DEF Pending
  <1>4. /\ Held(c', up, jobs', replies)
        /\ c'.valid = e.valid /\ c'.locked = e.locked /\ c'.operation = e.operation
        /\ c'.version = e.version
    <2>1. Applied(e, up, jobs, replies)
      BY <1>1, <1>2, <1>3, Zenon DEF Applied
    <2> QED BY <2>1, ApplyHeld, Zenon
  <1>5. ClientHeld'
    <2>1. ClientHeld
      BY DEF HeldInv
    <2>2. CASE e.told = "RETRY" /\ client' = IF client = "IDLE" THEN "IDLE" ELSE "RETRYING"
      BY <1>3, <1>4, <2>1, <2>2, Zenon DEF ClientHeld, Asks, Waiting
    <2>3. CASE e.told = "OK" /\ Grant(e)
      BY <1>3, <1>4, <2>3, Zenon DEF ClientHeld, Asks, Waiting, Grant
    <2>4. CASE e.told = "WAIT" /\ client' = state
      BY <1>3, <1>4, <2>4, Zenon DEF ClientHeld, Asks, Waiting
    <2> QED BY <1>1, <2>2, <2>3, <2>4
  <1>6. FreeUnlisted'
    <2>1. \A i \in up : host[i] # NoServer
      BY ServersAssumption DEF Inv, ConnectionsOK
    <2> QED BY <1>1, <1>3, <1>4, <2>1, Zenon DEF FreeUnlisted, Listed
  <1> QED BY <1>1, <1>4, <1>5, <1>6, Zenon DEF HeldInv

\* Write, truncate and the repeated request.
LEMMA RequestsHeld ==
  ASSUME Calm, Inv, HeldInv, WriteBegin \/ TruncateBegin \/ WriteAgain
  PROVE  HeldInv'
  <1> DEFINE M(b) == chunk_multi_modify(c, up, Pending, Registering, b)
             T == chunk_multi_truncate(c, up, Pending, Registering)
  <1>1. /\ up \in SUBSET Csids /\ Good(c, up) /\ Linked(c, up, Pending) /\ Working(c)
        /\ Open(Pending, up) /\ Registering \in BOOLEAN
    BY ChunkIsLinked DEF Registering
  <1>2. Deleting(Pending) \subseteq Deleting(Pending)
    OBVIOUS
  <1>3. ASSUME NEW b \in BOOLEAN
        PROVE  \A e \in M(b) \cup T : /\ Linked(e, up, Pending) /\ Working(e) /\ Asks(e, c)
                                      /\ Listed(e) \subseteq up
    <2>1. \A e \in M(b) \cup T : Linked(e, up, Pending) /\ Working(e) /\ Asks(e, c)
      BY <1>1, <1>2, MultiModifyLinked
    <2>2. \A e \in M(b) \cup T : Clean(e, up)
      BY <1>1, MultiModifyClean, Zenon
    <2> HIDE DEF M, T
    <2> QED BY <2>1, <2>2 DEF Clean
  <1>4. \/ Ask(M(FALSE), writes + 1, "WRITING") /\ client = "IDLE"
        \/ Ask(T, writes + 1, "TRUNCATING") /\ client = "IDLE"
        \/ Ask(M(TRUE), writes, "WRITING") /\ client \in {"GRANTED", "RETRYING"}
    BY Zenon DEF WriteBegin, TruncateBegin, WriteAgain
  <1> HIDE DEF M, T
  <1> QED BY <1>3, <1>4, AskHeld, Zenon

\* The client writes, ends its write or disappears.
LEMMA ClientStepsHeld ==
  ASSUME Calm, Inv, HeldInv, WriteEnd \/ ClientDies \/ \E s \in Servers : WriteBlock(s)
  PROVE  HeldInv'
  <1>1. CASE WriteEnd
    <2>1. PICK f \in chunk_unlock(c, up, Pending) : Apply(f, jobs)
      BY <1>1 DEF WriteEnd
    <2>2. /\ up \in SUBSET Csids /\ Good(c, up) /\ Linked(c, up, Pending) /\ Working(c)
          /\ Open(Pending, up) /\ Deleting(Pending) \subseteq Deleting(Pending)
      BY ChunkIsLinked, Zenon
    <2>3. Linked(f, up, Pending) /\ Working(f) /\ Listed(f) \subseteq Listed(c) \cup up
      BY <2>2, UnlockLinked, OthersListed, Zenon
    <2>4. Open(jobs \cup replies, up) /\ InFlightOnce(jobs, replies) /\ Linked(f, up, jobs \cup replies)
      BY <2>2, <2>3 DEF HeldInv, Held, Pending
    <2>5. Held(c', up, jobs', replies) /\ c'.valid = f.valid
      <3>1. Applied(f, up, jobs, replies)
        BY <2>1, <2>2, <2>3, <2>4, Zenon DEF Applied
      <3> QED BY <3>1, ApplyHeld, Zenon
    <2>6. client' = "IDLE" /\ UNCHANGED <<up, host, replies>>
      BY <1>1 DEF WriteEnd
    <2>7. ClientHeld'
      BY <2>6 DEF ClientHeld, Waiting
    <2>8. FreeUnlisted'
      <3>1. \A i \in up : host[i] # NoServer
        BY ServersAssumption DEF Inv, ConnectionsOK
      <3> QED BY <2>3, <2>5, <2>6, <3>1, Zenon DEF HeldInv, FreeUnlisted, Listed
    <2> QED BY <2>5, <2>6, <2>7, <2>8, Zenon DEF HeldInv
  <1>2. CASE ClientDies
    BY <1>2, Zenon DEF HeldInv, FreeUnlisted, ClientHeld, Waiting, ClientDies, master, chunkservers
  <1>3. ASSUME NEW s \in Servers, WriteBlock(s) PROVE HeldInv'
    BY <1>3, Zenon DEF HeldInv, FreeUnlisted, ClientHeld, Waiting, WriteBlock, master
  <1> QED BY <1>1, <1>2, <1>3

\* A new chunk: every copy is busy, each with its request.
LEMMA InitHeld == Init => HeldInv
  <1> SUFFICES ASSUME Init PROVE HeldInv
    OBVIOUS
  <1>1. PICK op \in BirthOps, S \in SUBSET up : S # {} /\ c = Born(op, S) /\ jobs = {Birth(i, op) : i \in S}
    BY DEF Init
  <1>2. /\ op \in OpCommands /\ op \notin {"NONE", "REPLICATE", "DELETE"} /\ S \subseteq Csids
        /\ up = {i \in Csids : host[i] # NoServer} /\ replies = {} /\ client = "CREATING"
    BY <1>1, SwitchesAssumption DEF Init, OpCommands
  <1>3. /\ c.operation = op /\ c.locked = TRUE
        /\ \A i \in S : c.valid[i] = "BUSY"
        /\ \A i \in Csids \ S : c.valid[i] = "NOCOPY"
    BY <1>1, <1>2 DEF Born, MkChunk
  <1>4. \A i \in S : Birth(i, op).csid = i /\ Birth(i, op).cmd = op
    BY DEF Birth
  <1>5. /\ Operating(jobs \cup replies) = S /\ Replicating(jobs \cup replies) = {}
        /\ Deleting(jobs \cup replies) = {}
    <2>1. ASSUME NEW C PROVE Asked(jobs \cup replies, C) = IF op \in C THEN S ELSE {}
      BY <1>1, <1>2, <1>4 DEF Asked
    <2> QED BY <1>2, <2>1 DEF Operating, Replicating, Deleting
  <1>6. InFlightOnce(jobs, replies)
    BY <1>1, <1>2, <1>4 DEF InFlightOnce
  <1>7. Fitting(c, jobs \cup replies)
    BY <1>2, <1>3, <1>5 DEF Fitting
  <1>8. Served(c, up, jobs \cup replies) /\ Working(c)
    BY <1>1, <1>2, <1>3, <1>5 DEF Served, Working
  <1>9. FreeUnlisted
    BY <1>1, <1>2, <1>3 DEF FreeUnlisted
  <1>10. ClientHeld
    BY <1>2, <1>3 DEF ClientHeld, Waiting
  <1> QED BY <1>6, <1>7, <1>8, <1>9, <1>10 DEF HeldInv, Held

\* Every step of a calm system keeps the invariant.
LEMMA NextHeld ==
  ASSUME Calm
  PROVE  Inv /\ HeldInv /\ [Next]_vars => HeldInv'
  <1> SUFFICES ASSUME Inv, HeldInv, [Next]_vars PROVE HeldInv'
    OBVIOUS
  <1>1. CASE Master
    <2>1. \A i \in Csids : ~MarkChanged(i) /\ ~Damaged(i) /\ ~Lost(i)
      BY DEF Calm, MarkChanged, Damaged, Lost
    <2> QED BY <1>1, <2>1, AnswersHeld, PeriodicHeld, ReportsHeld, ConnectionHeld, TimeoutsHeld,
               DisconnectionHeld DEF Master
  <1>2. CASE Chunkserver
    BY <1>2, JobsHeld DEF Chunkserver
  <1>3. CASE Client
    BY <1>3, RequestsHeld, ClientStepsHeld DEF Client
  <1>4. CASE UNCHANGED vars
    BY <1>4, Zenon DEF HeldInv, FreeUnlisted, ClientHeld, Waiting, vars, master, chunkservers, clients
  <1> QED BY <1>1, <1>2, <1>3, <1>4 DEF Next

\* The invariant holds in every reachable state of a calm system.
LEMMA HeldAlways ==
  ASSUME Calm
  PROVE  Spec => [](Inv /\ HeldInv)
  <1>1. Inv /\ HeldInv /\ [Next]_vars => HeldInv'
    BY NextHeld
  <1> QED BY <1>1, InitHeld, InvAlways, PTL DEF Spec

\* A writer's grant: from the moment matoclserv_chunk_status tells a client
\* where to write until it is done, its chunk stays locked, at the version the
\* client was told and without an operation, for any number of chunkservers,
\* connections, writes and closed connections, and although the jobs of closed
\* connections may run on.  Without faulty disks, disks marked for removal and
\* replications that outlive REPLOCKTIMEOUT.
THEOREM GrantHoldsAlways ==
  ASSUME Calm
  PROVE  Spec => []GrantHolds
  <1>1. Inv /\ HeldInv => GrantHolds
    BY DEF HeldInv, ClientHeld, GrantHolds, Waiting
  <1> QED BY <1>1, HeldAlways, PTL

\* No operation is orphaned: an operation has a busy copy, and every busy copy
\* on an open connection has a request or an answer in flight, so that
\* chunk_operation_status or chunk_got_replicate_status will end it.
THEOREM OperationAliveAlways ==
  ASSUME Calm
  PROVE  Spec => []OperationAlive
  <1>1. Inv /\ HeldInv => OperationAlive
    <2> SUFFICES ASSUME Inv, HeldInv PROVE OperationAlive
      OBVIOUS
    <2>1. \A i \in CopiesIn(c, Busy) : c.valid[i] = "BUSY"
      BY ChunkIsLinked, NoMarks, Zenon DEF CopiesIn, Busy
    <2>2. c.operation # "NONE" => CopiesIn(c, Busy) # {}
      BY DEF HeldInv, Held, Working, CopiesIn, Busy
    <2>3. \A i \in CopiesIn(c, Busy) \cap up : \E p \in Pending : p.csid = i /\ p.cmd # "DELETE"
      BY <2>1, Zenon DEF HeldInv, Held, Served, Operating, Replicating, Asked, OpCommands, Pending
    <2> QED BY <2>2, <2>3 DEF OperationAlive
  <1> QED BY <1>1, HeldAlways, PTL

\* A replication a connected chunkserver is still to execute runs under the
\* operation REPLICATE and the lock that chunk_replicate took.
THEOREM ReplicationHeldAlways ==
  ASSUME Calm
  PROVE  Spec => []ReplicationHeld
  <1>1. Inv /\ HeldInv => ReplicationHeld
    <2> SUFFICES ASSUME Inv, HeldInv, NEW j \in jobs, j.cmd = "REPLICATE", j.csid \in up
                 PROVE  c.operation = "REPLICATE" /\ c.replock
      BY DEF ReplicationHeld
    <2>1. j.csid \in Replicating(jobs \cup replies)
      BY ChunkIsLinked DEF Replicating, Asked
    <2> QED BY <2>1 DEF HeldInv, Held, Fitting
  <1> QED BY <1>1, HeldAlways, PTL
==============================================================================
