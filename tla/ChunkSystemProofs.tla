------------------------- MODULE ChunkSystemProofs -------------------------
(***************************************************************************)
(* Type correctness of ChunkSystem, and IdleNotBusy for systems in which   *)
(* no disk is marked for removal.  The two are proved together: every      *)
(* handler of module Chunk turns a chunk that is Good into chunks that are *)
(* Good.                                                                   *)
(***************************************************************************)
EXTENDS ChunkSystem, TLAPS

Statuses == {"NOTHING", "OK", "ERROR", "RETRY", "WAIT"}

\* What a handler may send while the connections U are open.
Requests(U) ==
    [csid : U, cmd : Commands \ {"REPLICATE"}, version : Versions, old : Versions, src : {NoServer}]
    \cup [csid : U, cmd : {"REPLICATE"}, version : Versions, old : Versions, src : U]

\* A chunk inside a handler: as in a state, and with something to deliver.
HandlerType(U) ==
    [version : ChunkVersions, operation : Operations, interrupted : BOOLEAN, needverincrease : BOOLEAN,
     valid : [Csids -> Valid], sver : [Csids -> Versions], opchunks : SUBSET Csids,
     locked : BOOLEAN, replock : BOOLEAN, out : SUBSET Requests(U), told : Statuses, rolled : BOOLEAN]

\* No copy is on a marked disk, and a chunk without operation has no busy copy.
Quiet(k) == \A i \in Csids : ~TD(k.valid[i]) /\ (k.operation = "NONE" => k.valid[i] # "BUSY")

Good(k, U) == k \in HandlerType(U) /\ (Removable = {} => Quiet(k))

\* Good, and all copies are on the open connections U.
Clean(k, U) == Good(k, U) /\ Listed(k) \subseteq U

\* A copy of chunk k may get the state v.
Fits(k, v) == Removable = {} => ~TD(v) /\ (v = "BUSY" => k.operation # "NONE")

USE DEF Commands, OpCommands, Statuses

\* Arithmetic on versions: both widths are kept, and the chunk's is the smaller.
LEMMA ModVersion ==
  /\ \A x \in Int : x % VersionMod \in Versions /\ x % ChunkVersionMod \in ChunkVersions
  /\ ChunkVersions \subseteq Versions
  /\ \A x \in ChunkVersions : x + 1 \in Versions
  BY VersionAssumption, SMT DEF Versions, ChunkVersions

\* Single field updates keep a chunk good; ending the operation is NoOpGood.
LEMMA SettersGood ==
  ASSUME NEW U \in SUBSET Csids, NEW k, Good(k, U)
  PROVE  /\ \A v \in ChunkVersions : Good(RollVersion(k, v), U)
         /\ \A op \in Operations \ {"NONE"} : Good(SetOp(k, op), U)
         /\ Good(Interrupt(k), U)
         /\ \A b \in BOOLEAN : Good(NeedVerIncrease(k, b), U) /\ Good(Lock(k, b), U) /\ Good(RepLock(k, b), U)
         /\ \A S \in SUBSET Csids : Good(SetOpChunks(k, S), U)
         /\ \A R \in SUBSET Requests(U) : Good(Send(k, R), U)
         /\ \A t \in Statuses : Good(Tell(k, t), U) /\ Good(TellStatus(k, t), U)
  <1>1. \A v \in ChunkVersions : Good(RollVersion(k, v), U)
    BY DEF Good, HandlerType, Quiet, RollVersion, MkChunk
  <1>2. \A op \in Operations \ {"NONE"} : Good(SetOp(k, op), U)
    BY DEF Good, HandlerType, Quiet, SetOp, MkChunk
  <1>3. Good(Interrupt(k), U)
    BY DEF Good, HandlerType, Quiet, Interrupt, MkChunk
  <1>4. \A b \in BOOLEAN : Good(NeedVerIncrease(k, b), U)
    BY DEF Good, HandlerType, Quiet, NeedVerIncrease, MkChunk
  <1>5. \A b \in BOOLEAN : Good(Lock(k, b), U) /\ Good(RepLock(k, b), U)
    BY DEF Good, HandlerType, Quiet, Lock, RepLock, MkChunk
  <1>6. \A S \in SUBSET Csids : Good(SetOpChunks(k, S), U)
    BY DEF Good, HandlerType, Quiet, SetOpChunks, MkChunk
  <1>7. \A R \in SUBSET Requests(U) : Good(Send(k, R), U)
    BY DEF Good, HandlerType, Quiet, Send, MkChunk
  <1>8. \A t \in Statuses : Good(Tell(k, t), U) /\ Good(TellStatus(k, t), U)
    BY DEF Good, HandlerType, Quiet, Tell, TellStatus, MkChunk
  <1> QED BY <1>1, <1>2, <1>3, <1>4, <1>5, <1>6, <1>7, <1>8

\* Single field updates do not touch the copy list.
LEMMA SettersKeepCopies ==
  ASSUME NEW k
  PROVE  /\ \A v : RollVersion(k, v).valid = k.valid
         /\ \A op : SetOp(k, op).valid = k.valid /\ SetOp(k, op).operation = op
         /\ Interrupt(k).valid = k.valid
         /\ \A b : /\ NeedVerIncrease(k, b).valid = k.valid
                  /\ Lock(k, b).valid = k.valid
                  /\ RepLock(k, b).valid = k.valid
         /\ \A S : SetOpChunks(k, S).valid = k.valid
         /\ \A R : Send(k, R).valid = k.valid
         /\ \A t : Tell(k, t).valid = k.valid /\ TellStatus(k, t).valid = k.valid
  BY DEF RollVersion, SetOp, Interrupt, NeedVerIncrease, Lock, RepLock, SetOpChunks, Send, Tell,
         TellStatus, MkChunk

\* Single field updates keep all copies on open connections.
LEMMA SettersClean ==
  ASSUME NEW U \in SUBSET Csids, NEW k, Clean(k, U)
  PROVE  /\ \A v \in ChunkVersions : Clean(RollVersion(k, v), U)
         /\ \A op \in Operations \ {"NONE"} : Clean(SetOp(k, op), U)
         /\ Clean(Interrupt(k), U)
         /\ \A b \in BOOLEAN : Clean(NeedVerIncrease(k, b), U) /\ Clean(Lock(k, b), U) /\ Clean(RepLock(k, b), U)
         /\ \A S \in SUBSET Csids : Clean(SetOpChunks(k, S), U)
         /\ \A R \in SUBSET Requests(U) : Clean(Send(k, R), U)
         /\ \A t \in Statuses : Clean(Tell(k, t), U) /\ Clean(TellStatus(k, t), U)
  BY SettersGood, SettersKeepCopies DEF Clean, Listed

\* The chunk may lose its operation when no copy is busy.
LEMMA NoOpGood ==
  ASSUME NEW U \in SUBSET Csids, NEW k, Good(k, U), \A i \in Csids : k.valid[i] # "BUSY"
  PROVE  Good(SetOp(k, "NONE"), U)
  BY DEF Good, HandlerType, Quiet, SetOp, MkChunk, Operations

\* New contents of the copy list.
LEMMA SetCopiesGood ==
  ASSUME NEW U \in SUBSET Csids, NEW k, Good(k, U),
         NEW valid \in [Csids -> Valid], NEW sver \in [Csids -> Versions],
         Removable = {} => \A i \in Csids : ~TD(valid[i]) /\ (valid[i] = "BUSY" => k.operation # "NONE")
  PROVE  Good(SetCopies(k, valid, sver), U) /\ SetCopies(k, valid, sver).valid = valid
  BY DEF Good, HandlerType, Quiet, SetCopies, MkChunk

\* One copy gets a new state and version.
LEMMA SetCopyGood ==
  ASSUME NEW U \in SUBSET Csids, NEW k, Good(k, U), NEW i \in Csids, NEW v \in Valid, NEW n \in Versions,
         Fits(k, v)
  PROVE  /\ Good(SetCopy(k, i, v, n), U)
         /\ \A j \in Csids : j # i => SetCopy(k, i, v, n).valid[j] = k.valid[j]
  <1> DEFINE va == [k.valid EXCEPT ![i] = v]
             sv == [k.sver EXCEPT ![i] = n]
  <1>1. va \in [Csids -> Valid] /\ sv \in [Csids -> Versions]
    BY DEF Good, HandlerType
  <1>2. Removable = {} => \A j \in Csids : ~TD(va[j]) /\ (va[j] = "BUSY" => k.operation # "NONE")
    BY DEF Good, HandlerType, Quiet, Fits
  <1>3. SetCopy(k, i, v, n) = SetCopies(k, va, sv)
    BY DEF SetCopy
  <1> HIDE DEF va, sv
  <1>4. Good(SetCopies(k, va, sv), U) /\ SetCopies(k, va, sv).valid = va
    BY <1>1, <1>2, SetCopiesGood
  <1>5. \A j \in Csids : j # i => va[j] = k.valid[j]
    BY DEF Good, HandlerType, va
  <1> QED BY <1>3, <1>4, <1>5

\* slist_free of the copies of D.
LEMMA UnlistGood ==
  ASSUME NEW U \in SUBSET Csids, NEW k, Good(k, U), NEW D \in SUBSET Csids
  PROVE  /\ Good(Unlist(k, D), U)
         /\ \A i \in Csids : Unlist(k, D).valid[i] = IF i \in D THEN "NOCOPY" ELSE k.valid[i]
         /\ Unlist(k, D).operation = k.operation
  <1> DEFINE va == [i \in Csids |-> IF i \in D THEN "NOCOPY" ELSE k.valid[i]]
             sv == [i \in Csids |-> IF i \in D THEN 0 ELSE k.sver[i]]
  <1>1. va \in [Csids -> Valid] /\ sv \in [Csids -> Versions]
    BY VersionAssumption DEF Good, HandlerType, Valid, Versions
  <1>2. Removable = {} => \A i \in Csids : ~TD(va[i]) /\ (va[i] = "BUSY" => k.operation # "NONE")
    BY DEF Good, HandlerType, Quiet, TD
  <1>3. Good(SetCopies(k, va, sv), U) /\ SetCopies(k, va, sv).valid = va
    BY <1>1, <1>2, SetCopiesGood
  <1>4. SetCopies(k, va, sv).operation = k.operation
    BY DEF SetCopies, MkChunk
  <1> QED BY <1>3, <1>4 DEF Unlist

\* slist_free of one copy.
LEMMA UnlistOneGood ==
  ASSUME NEW U \in SUBSET Csids, NEW k, Good(k, U), NEW i \in Csids
  PROVE  /\ Good(Unlist(k, {i}), U)
         /\ Unlist(k, {i}).valid[i] = "NOCOPY"
         /\ \A j \in Csids : j # i => Unlist(k, {i}).valid[j] = k.valid[j]
  <1> DEFINE D == {i}
  <1>0. D \in SUBSET Csids
    OBVIOUS
  <1>1. i \in D /\ \A j \in Csids : j # i => j \notin D
    OBVIOUS
  <1> HIDE DEF D
  <1>2. /\ Good(Unlist(k, D), U)
        /\ \A j \in Csids : Unlist(k, D).valid[j] = IF j \in D THEN "NOCOPY" ELSE k.valid[j]
        /\ Unlist(k, D).operation = k.operation
    BY <1>0, UnlistGood, Zenon
  <1>3. Unlist(k, D).valid[i] = "NOCOPY" /\ \A j \in Csids : j # i => Unlist(k, D).valid[j] = k.valid[j]
    BY <1>1, <1>2
  <1> QED BY <1>2, <1>3 DEF D

\* The start of a SET_VERSION or TRUNCATE, common to chunk_univ_multi_modify,
\* chunk_univ_multi_truncate and the emergency path: the copies become busy
\* together with the operation.
LEMMA StartVersionOpClean ==
  ASSUME NEW U \in SUBSET Csids, NEW k, Clean(k, U), NEW op \in {"SET_VERSION", "TRUNCATE"}
  PROVE  Clean(StartVersionOp(k, op), U)
  <1> DEFINE u == CopiesIn(k, Usable)
             v == k.version + 1
             n == v % ChunkVersionMod
             va == [i \in Csids |-> IF i \notin u THEN k.valid[i]
                                    ELSE IF TD(k.valid[i]) THEN "TDBUSY" ELSE "BUSY"]
             sv == [i \in Csids |-> IF i \in u THEN v ELSE k.sver[i]]
             out == k.out \cup {Request(i, op, v, k.version, NoServer) : i \in u}
             e == StartVersionOp(k, op)
  <1>1. k \in HandlerType(U) /\ Listed(k) \subseteq U
    BY DEF Clean, Good
  <1>2. k.version \in Versions /\ v \in Versions /\ n \in ChunkVersions
    <2>1. k.version \in ChunkVersions /\ k.version + 1 \in Int
      BY <1>1 DEF HandlerType, ChunkVersions
    <2> QED BY <2>1, ModVersion
  <1>3. u \subseteq U /\ u \subseteq Csids
    BY <1>1 DEF CopiesIn, Usable, Current, Busy, Listed
  <1> HIDE DEF v, n
  <1>4. va \in [Csids -> Valid] /\ sv \in [Csids -> Versions]
    BY <1>1, <1>2 DEF HandlerType, Valid
  <1>5. out \in SUBSET Requests(U)
    BY <1>1, <1>2, <1>3 DEF HandlerType, Requests, Request
  <1>6. e = MkChunk(n, op, FALSE, k.needverincrease, va, sv, k.opchunks \cup u, k.locked,
                    k.replock, out, k.told, k.rolled)
    BY DEF StartVersionOp, v, n
  <1>7. \A i \in Csids : va[i] # "NOCOPY" => k.valid[i] # "NOCOPY"
    BY DEF CopiesIn, Usable, Current, Busy
  <1>8. Removable = {} => \A i \in Csids : ~TD(va[i])
    BY DEF Clean, Good, Quiet, TD
  <1> HIDE DEF u, va, sv, out, e
  <1>9. e \in HandlerType(U) /\ e.valid = va /\ e.operation = op
    BY <1>1, <1>2, <1>3, <1>4, <1>5, <1>6 DEF HandlerType, MkChunk, Operations
  <1> QED BY <1>1, <1>7, <1>8, <1>9 DEF Clean, Good, Quiet, Listed, e

\* chunk_emergency_increase_version.
LEMMA EmergencyClean ==
  ASSUME NEW U \in SUBSET Csids, NEW k, Clean(k, U)
  PROVE  Clean(chunk_emergency_increase_version(k), U)
  BY StartVersionOpClean, SettersClean DEF chunk_emergency_increase_version

\* The roll back of a version increase nobody completed turns no copy busy and
\* none idle.
LEMMA FixNotCompletedClean ==
  ASSUME NEW U \in SUBSET Csids, NEW k, Clean(k, U)
  PROVE  /\ Clean(FixNotCompletedIncrease(k), U)
         /\ \A i \in Csids : FixNotCompletedIncrease(k).valid[i] \in Busy <=> k.valid[i] \in Busy
         /\ FixNotCompletedIncrease(k).operation = k.operation
         /\ CopiesIn(k, Current) # {} => CopiesIn(FixNotCompletedIncrease(k), Current) # {}
  <1> DEFINE w == {i \in CopiesIn(k, WrongVersion) : (k.sver[i] + 1) % VersionMod = k.version}
             va == [i \in Csids |-> IF i \notin w THEN k.valid[i]
                                    ELSE IF TD(k.valid[i]) THEN "TDVALID" ELSE "VALID"]
             d == SetCopies(k, va, k.sver)
             v == (k.version - 1) % ChunkVersionMod
  <1>1. CASE FixNotCompletedIncrease(k) = k
    BY <1>1
  <1>2. CASE FixNotCompletedIncrease(k) = RollVersion(d, v)
    <2>1. v \in ChunkVersions
      BY ModVersion DEF Clean, Good, HandlerType, ChunkVersions
    <2>2. va \in [Csids -> Valid] /\ k.sver \in [Csids -> Versions]
      BY DEF Clean, Good, HandlerType, Valid
    <2>3. Removable = {} => \A i \in Csids : ~TD(va[i]) /\ (va[i] = "BUSY" => k.operation # "NONE")
      BY DEF Clean, Good, Quiet, TD
    <2>5. \A i \in Csids : /\ va[i] # "NOCOPY" => k.valid[i] # "NOCOPY"
                           /\ va[i] \in Busy <=> k.valid[i] \in Busy
                           /\ k.valid[i] \in Current => va[i] \in Current
      BY DEF CopiesIn, WrongVersion, Busy, Current, TD
    <2> HIDE DEF va
    <2>4. Good(d, U) /\ d.valid = va
      BY <2>2, <2>3, SetCopiesGood, Zenon DEF Clean
    <2>6. d.operation = k.operation /\ RollVersion(d, v).operation = d.operation
      BY DEF SetCopies, MkChunk, RollVersion
    <2>7. Good(RollVersion(d, v), U) /\ RollVersion(d, v).valid = va
      BY <2>1, <2>4, SettersGood, SettersKeepCopies, Zenon
    <2> HIDE DEF d, v
    <2> QED BY <1>2, <2>5, <2>6, <2>7 DEF Clean, Listed, CopiesIn
  <1> QED BY <1>1, <1>2, Zenon DEF FixNotCompletedIncrease

\* Sending DELETE to some copies.
LEMMA DeleteCopiesClean ==
  ASSUME NEW U \in SUBSET Csids, NEW k, Clean(k, U), NEW D \in SUBSET Listed(k), NEW v \in Versions
  PROVE  Clean(DeleteCopies(k, D, v), U)
  <1> DEFINE va == [i \in Csids |-> IF i \in D THEN "DEL" ELSE k.valid[i]]
             R == {Request(i, "DELETE", v, 0, NoServer) : i \in D}
  <1>1. va \in [Csids -> Valid] /\ k.sver \in [Csids -> Versions]
    BY DEF Clean, Good, HandlerType, Valid
  <1>2. Removable = {} => \A i \in Csids : ~TD(va[i]) /\ (va[i] = "BUSY" => k.operation # "NONE")
    BY DEF Clean, Good, Quiet, TD
  <1>4. \A i \in Csids : va[i] # "NOCOPY" => k.valid[i] # "NOCOPY"
    BY DEF Listed
  <1>5. R \in SUBSET Requests(U)
    BY VersionAssumption DEF Clean, Requests, Request, Versions
  <1>6. DeleteCopies(k, D, v) = Send(SetCopies(k, va, k.sver), R)
    BY DEF DeleteCopies
  <1> HIDE DEF va, R
  <1>3. Good(SetCopies(k, va, k.sver), U) /\ SetCopies(k, va, k.sver).valid = va
    BY <1>1, <1>2, SetCopiesGood DEF Clean
  <1>7. Clean(SetCopies(k, va, k.sver), U)
    BY <1>3, <1>4 DEF Clean, Listed
  <1> QED BY <1>5, <1>6, <1>7, SettersClean

\* Busy copies become invalid: none is left.
LEMMA InvalidateBusyClean ==
  ASSUME NEW U \in SUBSET Csids, NEW k, Clean(k, U)
  PROVE  Clean(InvalidateBusy(k), U) /\ \A i \in Csids : InvalidateBusy(k).valid[i] # "BUSY"
  <1> DEFINE va == [i \in Csids |-> IF k.valid[i] \in Busy THEN "INVALID" ELSE k.valid[i]]
             sv == [i \in Csids |-> IF k.valid[i] \in Busy THEN 0 ELSE k.sver[i]]
  <1>1. va \in [Csids -> Valid] /\ sv \in [Csids -> Versions]
    BY VersionAssumption DEF Clean, Good, HandlerType, Valid, Versions
  <1>2. Removable = {} => \A i \in Csids : ~TD(va[i]) /\ (va[i] = "BUSY" => k.operation # "NONE")
    BY DEF Clean, Good, Quiet, TD
  <1>3. \A i \in Csids : va[i] # "BUSY" /\ (va[i] # "NOCOPY" => k.valid[i] # "NOCOPY")
    BY DEF Busy
  <1>4. InvalidateBusy(k) = SetCopies(k, va, sv)
    BY DEF InvalidateBusy
  <1> HIDE DEF va, sv
  <1>5. Good(SetCopies(k, va, sv), U) /\ SetCopies(k, va, sv).valid = va
    BY <1>1, <1>2, SetCopiesGood DEF Clean
  <1> QED BY <1>3, <1>4, <1>5 DEF Clean, Listed

\* The operation ends when no copy is busy.
LEMMA NoOpClean ==
  ASSUME NEW U \in SUBSET Csids, NEW k, Clean(k, U), \A i \in Csids : k.valid[i] # "BUSY"
  PROVE  Clean(SetOp(k, "NONE"), U)
  BY NoOpGood, SettersKeepCopies DEF Clean, Listed

\* chunk_do_jobs ends an operation that no chunkserver is busy with.
LEMMA FinishIdleOpClean ==
  ASSUME NEW U \in SUBSET Csids, NEW k, Clean(k, U)
  PROVE  Clean(FinishIdleOp(k), U)
  <1>1. CASE CopiesIn(k, Busy) = {}
    <2>1. \A i \in Csids : k.valid[i] # "BUSY"
      BY <1>1 DEF CopiesIn, Busy
    <2> QED BY <1>1, <2>1, NoOpClean DEF FinishIdleOp
  <1>2. CASE CopiesIn(k, Busy) # {}
    BY <1>2 DEF FinishIdleOp
  <1> QED BY <1>1, <1>2

\* chunk_do_jobs takes the best of the outdated versions.
LEMMA FixWrongVersionClean ==
  ASSUME NEW U \in SUBSET Csids, NEW k, Clean(k, U), NEW best \in BestWrongVersion(k)
  PROVE  Clean(FixWrongVersion(k, U, best), U)
  <1> DEFINE va == [i \in Csids |-> IF k.sver[i] = best /\ i \in U /\ k.valid[i] = "WVER" THEN "VALID"
                         ELSE IF k.sver[i] = best /\ i \in U /\ k.valid[i] = "TDWVER" THEN "TDVALID"
                         ELSE k.valid[i]]
             n == best % ChunkVersionMod
  <1>1. va \in [Csids -> Valid] /\ k.sver \in [Csids -> Versions]
    BY DEF Clean, Good, HandlerType, Valid
  <1>2. Removable = {} => \A i \in Csids : ~TD(va[i]) /\ (va[i] = "BUSY" => k.operation # "NONE")
    BY DEF Clean, Good, Quiet, TD
  <1>3. \A i \in Csids : va[i] # "NOCOPY" => k.valid[i] # "NOCOPY"
    OBVIOUS
  <1>4. n \in ChunkVersions
    BY <1>1, ModVersion DEF BestWrongVersion, CopiesIn, Versions
  <1>5. FixWrongVersion(k, U, best) = NeedVerIncrease(RollVersion(SetCopies(k, va, k.sver), n), TRUE)
    BY DEF FixWrongVersion
  <1> HIDE DEF va, n
  <1>6. Good(SetCopies(k, va, k.sver), U) /\ SetCopies(k, va, k.sver).valid = va
    BY <1>1, <1>2, SetCopiesGood, Zenon DEF Clean
  <1>7. Clean(SetCopies(k, va, k.sver), U)
    BY <1>3, <1>6 DEF Clean, Listed
  <1>8. Clean(RollVersion(SetCopies(k, va, k.sver), n), U)
    BY <1>4, <1>7, SettersClean, Zenon
  <1> QED BY <1>5, <1>8, SettersClean, Zenon

\* chunk_do_jobs cancels an unfinished replication.
LEMMA CancelReplicationClean ==
  ASSUME NEW U \in SUBSET Csids, NEW k, Clean(k, U)
  PROVE  Clean(CancelReplication(k), U)
  <1> DEFINE a == InvalidateBusy(k)
             b == SetOpChunks(a, k.opchunks \ CopiesIn(k, Busy))
  <1>1. Clean(a, U) /\ \A i \in Csids : a.valid[i] # "BUSY"
    BY InvalidateBusyClean
  <1>2. k.opchunks \ CopiesIn(k, Busy) \in SUBSET Csids
    BY DEF Clean, Good, HandlerType
  <1>3. Clean(b, U) /\ b.valid = a.valid
    BY <1>1, <1>2, SettersClean, SettersKeepCopies, Zenon
  <1>4. Clean(SetOp(b, "NONE"), U)
    BY <1>1, <1>3, NoOpClean
  <1> QED BY <1>4, SettersClean, Zenon DEF CancelReplication

\* chunk_replicate makes a copy busy and starts an operation; the jobs that
\* call it choose source and destination among open connections.
LEMMA ReplicateClean ==
  ASSUME NEW U \in SUBSET Csids, NEW k, Clean(k, U), NEW src \in U, NEW dst \in U
  PROVE  Clean(chunk_replicate(k, src, dst), U)
  <1> DEFINE a == SetOp(k, "REPLICATE")
             b == SetCopy(a, dst, "BUSY", k.version)
             d == SetOpChunks(b, k.opchunks \cup {dst})
             R == {Request(dst, "REPLICATE", k.version, 0, src)}
  <1>1. k \in HandlerType(U) /\ Listed(k) \subseteq U
    BY DEF Clean, Good
  <1>2. Good(a, U) /\ a.valid = k.valid /\ a.operation = "REPLICATE"
    BY SettersGood, SettersKeepCopies DEF Clean, Operations
  <1>3. "BUSY" \in Valid /\ k.version \in Versions /\ dst \in Csids /\ ~TD("BUSY")
    BY <1>1, ModVersion DEF Valid, HandlerType, TD
  <1>4. chunk_replicate(k, src, dst) = Send(RepLock(d, TRUE), R)
    BY Zenon DEF chunk_replicate, SetOp, SetOpChunks, SetCopy, SetCopies, MkChunk
  <1>5. k.opchunks \cup {dst} \in SUBSET Csids
    BY <1>1 DEF HandlerType
  <1>6. R \in SUBSET Requests(U)
    <2>1. 0 \in Versions
      BY VersionAssumption DEF Versions
    <2>2. [csid |-> dst, cmd |-> "REPLICATE", version |-> k.version, old |-> 0, src |-> src]
            \in [csid : U, cmd : {"REPLICATE"}, version : Versions, old : Versions, src : U]
      BY <1>3, <2>1
    <2> HIDE DEF a, b, d
    <2> QED BY <2>2 DEF Requests, Request
  <1> HIDE DEF a, R
  <1>7. Good(b, U) /\ \A i \in Csids : i # dst => b.valid[i] = a.valid[i]
    <2>1. Fits(a, "BUSY")
      BY <1>2, <1>3 DEF Fits
    <2>2. Good(a, U) /\ "BUSY" \in Valid /\ k.version \in Versions /\ dst \in Csids
      BY <1>2, <1>3
    <2> HIDE DEF d
    <2> QED BY <2>1, <2>2, SetCopyGood
  <1>8. \A i \in Csids : b.valid[i] # "NOCOPY" => i = dst \/ k.valid[i] # "NOCOPY"
    BY <1>2, <1>7
  <1>9. Clean(b, U)
    BY <1>1, <1>7, <1>8 DEF Clean, Listed
  <1> HIDE DEF b
  <1>10. Clean(d, U)
    BY <1>5, <1>9, SettersClean
  <1> HIDE DEF d
  <1>11. Clean(RepLock(d, TRUE), U)
    BY <1>10, SettersClean, Zenon
  <1> QED BY <1>4, <1>6, <1>11, SettersClean, Zenon

\* The deletions of chunk_do_jobs: invalid, overgoal and marked copies.
LEMMA DeletionsClean ==
  ASSUME NEW U \in SUBSET Csids, NEW k, Clean(k, U), NEW pend, NEW extra \in BOOLEAN
  PROVE  \A e \in DeleteInvalid(k, pend, extra) \cup DeleteOvergoal(k, pend)
                  \cup DeleteMarkedCopy(k, U, pend) : Clean(e, U)
  <1>0. 0 \in Versions
    BY VersionAssumption DEF Versions
  <1>1. k.version \in Versions /\ 0 \in Versions /\ k.needverincrease \in BOOLEAN
    BY <1>0, ModVersion DEF Clean, Good, HandlerType
  <1>2. ASSUME NEW e \in DeleteInvalid(k, pend, extra) PROVE Clean(e, U)
    <2> DEFINE S == WrongVersion \cup {"INVALID"} \cup (IF extra THEN {} ELSE {"DEL"})
    <2>1. "NOCOPY" \notin S
      BY DEF WrongVersion
    <2> HIDE DEF S
    <2>2. PICK D \in SUBSET CopiesIn(k, S) : e = DeleteCopies(k, D, 0)
      BY <1>2 DEF DeleteInvalid, S
    <2>3. D \in SUBSET Listed(k)
      BY <2>1 DEF Listed, CopiesIn
    <2> QED BY <1>1, <2>2, <2>3, DeleteCopiesClean
  <1>3. ASSUME NEW e \in DeleteOvergoal(k, pend) PROVE Clean(e, U)
    <2>1. PICK D \in SUBSET Csids :
             /\ e = NeedVerIncrease(DeleteCopies(k, D, k.version), k.needverincrease \/ ~HasLabels)
             /\ \A i \in D : k.valid[i] = "VALID"
      BY <1>3, Zenon DEF DeleteOvergoal, CopiesIn
    <2>2. D \in SUBSET Listed(k)
      BY <2>1 DEF Listed
    <2>3. Clean(DeleteCopies(k, D, k.version), U)
      BY <1>1, <2>2, DeleteCopiesClean
    <2>4. (k.needverincrease \/ ~HasLabels) \in BOOLEAN
      OBVIOUS
    <2> QED BY <2>1, <2>3, <2>4, SettersClean, Zenon
  <1>4. ASSUME NEW e \in DeleteMarkedCopy(k, U, pend) PROVE Clean(e, U)
    <2>1. PICK i \in Csids : /\ e = NeedVerIncrease(DeleteCopies(k, {i}, k.version), TRUE)
                             /\ k.valid[i] = "TDVALID"
      BY <1>4, Zenon DEF DeleteMarkedCopy, CopiesIn
    <2>2. {i} \in SUBSET Listed(k)
      BY <2>1 DEF Listed
    <2>3. Clean(DeleteCopies(k, {i}, k.version), U)
      BY <1>1, <2>2, DeleteCopiesClean
    <2> QED BY <2>1, <2>3, SettersClean, Zenon
  <1> QED BY <1>2, <1>3, <1>4

\* Every branch of chunk_do_jobs.
LEMMA DoJobsClean ==
  ASSUME NEW U \in SUBSET Csids, NEW k, Clean(k, U), NEW pend, NEW extra \in BOOLEAN
  PROVE  \A e \in DoJobs(k, U, pend, extra) : Clean(e, U)
  <1> DEFINE f == FinishIdleOp(k)
  <1>1. Clean(f, U)
    BY FinishIdleOpClean
  <1> HIDE DEF f
  <1>2. Clean(InvalidateBusy(f), U) /\ Clean(CancelReplication(f), U)
    BY <1>1, InvalidateBusyClean, CancelReplicationClean
  <1>3. \A best \in BestWrongVersion(f) : Clean(FixWrongVersion(f, U, best), U)
    BY <1>1, FixWrongVersionClean
  <1>4. \A e \in DeleteInvalid(f, pend, extra) \cup DeleteOvergoal(f, pend)
                  \cup DeleteMarkedCopy(f, U, pend) : Clean(e, U)
    BY <1>1, DeletionsClean
  <1>5. ASSUME NEW e \in ReplicateUndergoal(f, U, pend) \cup ReplicateRebalance(f, U, pend, extra)
        PROVE  Clean(e, U)
    <2>1. CopiesIn(f, {"VALID"}) \subseteq Listed(f) /\ CopiesIn(f, Current) \subseteq Listed(f)
      BY DEF Listed, CopiesIn, Current
    <2>2. PICK s \in Listed(f), d \in U : e = chunk_replicate(f, s, d)
      BY <1>5, <2>1 DEF ReplicateUndergoal, ReplicateRebalance, UndergoalSources, Destinations
    <2> QED BY <1>1, <2>2, ReplicateClean, Zenon DEF Clean
  <1>6. DoJobs(k, U, pend, extra) \subseteq
          {InvalidateBusy(f), CancelReplication(f), f}
          \cup {FixWrongVersion(f, U, best) : best \in BestWrongVersion(f)}
          \cup DeleteInvalid(f, pend, extra) \cup DeleteOvergoal(f, pend)
          \cup DeleteMarkedCopy(f, U, pend)
          \cup (ReplicateUndergoal(f, U, pend) \cup ReplicateRebalance(f, U, pend, extra))
    BY DEF DoJobs, f
  <1> QED BY <1>1, <1>2, <1>3, <1>4, <1>5, <1>6

\* After chunk_remove_disconnected_chunks has dropped them, no copy is left on a
\* closed connection.
LEMMA DropDisconnectedClean ==
  ASSUME NEW U \in SUBSET Csids, NEW k, Good(k, U)
  PROVE  /\ Clean(DropDisconnected(k, U), U)
         /\ DropDisconnected(k, U).operation = k.operation
         /\ \A i \in Csids : DropDisconnected(k, U).valid[i] \in {"NOCOPY", k.valid[i]}
  <1> DEFINE D == Listed(k) \ U
             a == Unlist(k, D)
  <1>1. CASE Listed(k) \subseteq U
    BY <1>1 DEF DropDisconnected, Clean
  <1>2. CASE ~(Listed(k) \subseteq U)
    <2>0. D \in SUBSET Csids
      BY DEF Listed
    <2>1. \A i \in Csids \ D : k.valid[i] # "NOCOPY" => i \in U
      BY DEF Listed
    <2>4. DropDisconnected(k, U) = NeedVerIncrease(a, TRUE)
      BY <1>2 DEF DropDisconnected
    <2> HIDE DEF D
    <2>2. /\ Good(a, U) /\ a.operation = k.operation
          /\ \A i \in Csids : a.valid[i] = IF i \in D THEN "NOCOPY" ELSE k.valid[i]
      BY <2>0, UnlistGood
    <2>3. Clean(a, U)
      BY <2>1, <2>2 DEF Clean, Listed
    <2> HIDE DEF a
    <2>5. NeedVerIncrease(a, TRUE).operation = a.operation /\ NeedVerIncrease(a, TRUE).valid = a.valid
      BY DEF NeedVerIncrease, MkChunk
    <2> QED BY <2>2, <2>3, <2>4, <2>5, SettersClean, Zenon
  <1> QED BY <1>1, <1>2

\* The end of a replication, with the job chunk_io_ready_check may run.
LEMMA ReplicationEndsGood ==
  ASSUME NEW U \in SUBSET Csids, NEW k, Good(k, U), \A i \in Csids : k.valid[i] # "BUSY", NEW pend
  PROVE  \A e \in ReplicationEnds(k, U, pend) : Good(e, U) /\ (Listed(k) \subseteq U => Clean(e, U))
  <1> DEFINE r == RepLock(SetOp(k, "NONE"), FALSE)
  <1>1. Good(SetOp(k, "NONE"), U)
    BY NoOpGood
  <1>2. Good(r, U)
    BY <1>1, SettersGood, Zenon
  <1>3. r.valid = k.valid
    BY DEF RepLock, SetOp, MkChunk
  <1>4. Listed(k) \subseteq U => Clean(r, U)
    BY <1>2, <1>3, Zenon DEF Clean, Listed
  <1> HIDE DEF r
  <1>5. Clean(DropDisconnected(r, U), U)
    BY <1>2, DropDisconnectedClean
  <1>6. \A e \in DoJobs(DropDisconnected(r, U), U, pend, TRUE) : Clean(e, U)
    BY <1>5, DoJobsClean, Zenon
  <1>7. ReplicationEnds(k, U, pend) = {r} \cup DoJobs(DropDisconnected(r, U), U, pend, TRUE)
    BY DEF ReplicationEnds, r
  <1> QED BY <1>2, <1>4, <1>6, <1>7, Zenon DEF Clean

\* Telling the client changes no copy.
LEMMA TellIfIdleGood ==
  ASSUME NEW U \in SUBSET Csids, NEW k, Good(k, U)
  PROVE  Good(TellIfIdle(k), U) /\ (Clean(k, U) => Clean(TellIfIdle(k), U))
  BY SettersGood, SettersClean DEF TellIfIdle

\* chunk_delopchunk changes no copy.
LEMMA ClearOpChunksClean ==
  ASSUME NEW U \in SUBSET Csids, NEW k, Clean(k, U)
  PROVE  /\ Clean(ClearOpChunks(k), U)
         /\ ClearOpChunks(k).valid = k.valid /\ ClearOpChunks(k).operation = k.operation
  <1>1. k.opchunks \ Listed(k) \in SUBSET Csids
    BY DEF Clean, Good, HandlerType
  <1>2. SetOpChunks(k, k.opchunks \ Listed(k)).operation = k.operation
    BY DEF SetOpChunks, MkChunk
  <1> QED BY <1>1, <1>2, SettersClean, SettersKeepCopies DEF ClearOpChunks

\* chunk_remove_disconnected_chunks, whatever the operation it interrupts.
LEMMA RemoveDisconnectedClean ==
  ASSUME NEW U \in SUBSET Csids, NEW k, Good(k, U), NEW pend
  PROVE  \A e \in chunk_remove_disconnected_chunks(k, U, pend) : Clean(e, U)
  <1> DEFINE d == DropDisconnected(k, U)
             x == FixNotCompletedIncrease(d)
             g == ClearOpChunks(x)
  <1>1. Clean(d, U)
    BY DropDisconnectedClean
  <1>2. chunk_remove_disconnected_chunks(k, U, pend) =
          IF Listed(k) \subseteq U \/ d.operation = "NONE" THEN {d}
          ELSE IF CopiesIn(d, Busy) # {}
               THEN {IF d.operation = "REPLICATE" THEN d ELSE Interrupt(d)}
          ELSE IF d.operation = "REPLICATE"
               THEN {TellIfIdle(e) : e \in ReplicationEnds(g, U, pend)}
          ELSE IF CopiesIn(d, Current) # {} THEN {chunk_emergency_increase_version(g)}
          ELSE {TellStatus(SetOp(g, "NONE"), "ERROR")}
    BY DEF chunk_remove_disconnected_chunks
  <1> HIDE DEF d
  <1>3. Clean(x, U) /\ \A i \in Csids : x.valid[i] \in Busy <=> d.valid[i] \in Busy
    BY <1>1, FixNotCompletedClean
  <1> HIDE DEF x
  <1>4. Clean(g, U) /\ g.valid = x.valid
    BY <1>3, ClearOpChunksClean
  <1> HIDE DEF g
  <1>5. Clean(Interrupt(d), U) /\ Clean(chunk_emergency_increase_version(g), U)
    BY <1>1, <1>4, SettersClean, EmergencyClean
  <1>6. CASE CopiesIn(d, Busy) = {}
    <2>1. \A i \in Csids : g.valid[i] # "BUSY"
      BY <1>3, <1>4, <1>6 DEF CopiesIn, Busy
    <2>2. Clean(SetOp(g, "NONE"), U)
      BY <1>4, <2>1, NoOpClean
    <2>3. Clean(TellStatus(SetOp(g, "NONE"), "ERROR"), U)
      BY <2>2, SettersClean
    <2>4. \A e \in ReplicationEnds(g, U, pend) : Clean(e, U)
      BY <1>4, <2>1, ReplicationEndsGood DEF Clean
    <2>5. \A e \in ReplicationEnds(g, U, pend) : Clean(TellIfIdle(e), U)
      BY <2>4, TellIfIdleGood, Zenon DEF Clean
    <2> QED BY <1>1, <1>2, <1>5, <1>6, <2>3, <2>5, Zenon
  <1>7. CASE CopiesIn(d, Busy) # {}
    BY <1>1, <1>2, <1>5, <1>7
  <1> QED BY <1>6, <1>7

\* chunk_do_jobs as a whole.
LEMMA ChunkDoJobsClean ==
  ASSUME NEW U \in SUBSET Csids, NEW k, Good(k, U), NEW pend, NEW extra \in BOOLEAN
  PROVE  \A e \in chunk_do_jobs(k, U, pend, extra) : Clean(e, U)
  BY RemoveDisconnectedClean, DoJobsClean DEF chunk_do_jobs

\* chunk_unlock, with the job it may run.
LEMMA UnlockGood ==
  ASSUME NEW U \in SUBSET Csids, NEW k, Good(k, U), NEW pend
  PROVE  \A e \in chunk_unlock(k, U, pend) : Good(e, U)
  <1>1. Good(Lock(k, FALSE), U)
    BY SettersGood, Zenon
  <1> QED BY <1>1, ChunkDoJobsClean, Zenon DEF chunk_unlock, Clean

\* The answer for one copy: it is not busy afterwards unless it was not listed.
LEMMA CopyAnsweredClean ==
  ASSUME NEW U \in SUBSET Csids, NEW k, Clean(k, U), NEW i \in U, NEW status
  PROVE  Clean(CopyAnswered(k, i, status), U)
  <1>1. k \in HandlerType(U) /\ i \in Csids
    BY DEF Clean, Good
  <1>2. k.sver[i] \in Versions /\ 0 \in Versions /\ (k.sver[i] - 1) % VersionMod \in Versions
    <2>1. k.sver[i] \in Versions
      BY <1>1 DEF HandlerType
    <2> QED BY <2>1, VersionAssumption DEF Versions
  <1>3. ASSUME NEW v \in Valid, NEW n \in Versions, Removable = {} => ~TD(v), v # "BUSY"
        PROVE  Clean(SetCopy(k, i, v, n), U)
    <2>1. Good(k, U) /\ Fits(k, v)
      BY <1>3 DEF Clean, Fits
    <2>2. /\ Good(SetCopy(k, i, v, n), U)
          /\ \A j \in Csids : j # i => SetCopy(k, i, v, n).valid[j] = k.valid[j]
      <3>1. i \in Csids
        BY <1>1
      <3> QED BY <2>1, <3>1, SetCopyGood, ZenonT(40)
    <2> QED BY <1>1, <2>2 DEF Clean, Listed, HandlerType
  <1>4. Removable = {} => ~TD(k.valid[i])
    BY <1>1 DEF Clean, Good, Quiet
  <1>5. CASE k.valid[i] = "NOCOPY"
    BY <1>5 DEF CopyAnswered
  <1>6. CASE k.valid[i] # "NOCOPY" /\ status = "OK"
    <2>1. CASE k.valid[i] \in {"TDBUSY", "TDVALID"}
      <3>1. "TDVALID" \in Valid /\ (Removable = {} => ~TD("TDVALID"))
        BY <1>4, <2>1 DEF Valid, TD
      <3>2. Clean(SetCopy(k, i, "TDVALID", k.sver[i]), U)
        BY <1>2, <1>3, <3>1
      <3> QED BY <1>6, <2>1, <3>2 DEF CopyAnswered
    <2>2. CASE k.valid[i] \notin {"TDBUSY", "TDVALID"}
      <3>1. "VALID" \in Valid /\ ~TD("VALID")
        BY DEF Valid, TD
      <3>2. Clean(SetCopy(k, i, "VALID", k.sver[i]), U)
        BY <1>2, <1>3, <3>1
      <3> QED BY <1>6, <2>2, <3>2 DEF CopyAnswered
    <2> QED BY <2>1, <2>2
  <1>7. CASE k.valid[i] # "NOCOPY" /\ status \notin {"OK", "NOTDONE"}
    <2>1. "INVALID" \in Valid /\ ~TD("INVALID")
      BY DEF Valid, TD
    <2>2. Clean(SetCopy(k, i, "INVALID", 0), U)
      BY <1>2, <1>3, <2>1
    <2>3. Clean(Interrupt(SetCopy(k, i, "INVALID", 0)), U)
      BY <2>2, SettersClean, Zenon
    <2> QED BY <1>7, <2>3 DEF CopyAnswered
  <1>8. CASE k.valid[i] # "NOCOPY" /\ status = "NOTDONE" /\ k.operation \in {"SET_VERSION", "TRUNCATE"}
    <2>1. CASE k.valid[i] \in {"TDBUSY", "TDVALID"}
      <3>1. "TDWVER" \in Valid /\ (Removable = {} => ~TD("TDWVER"))
        BY <1>4, <2>1 DEF Valid, TD
      <3>2. Clean(SetCopy(k, i, "TDWVER", (k.sver[i] - 1) % VersionMod), U)
        BY <1>2, <1>3, <3>1
      <3> QED BY <1>8, <2>1, <3>2 DEF CopyAnswered
    <2>2. CASE k.valid[i] \notin {"TDBUSY", "TDVALID"}
      <3>1. "WVER" \in Valid /\ ~TD("WVER")
        BY DEF Valid, TD
      <3>2. Clean(SetCopy(k, i, "WVER", (k.sver[i] - 1) % VersionMod), U)
        BY <1>2, <1>3, <3>1
      <3> QED BY <1>8, <2>2, <3>2 DEF CopyAnswered
    <2> QED BY <2>1, <2>2
  <1>9. CASE k.valid[i] # "NOCOPY" /\ status = "NOTDONE" /\ k.operation \notin {"SET_VERSION", "TRUNCATE"}
    <2>1. Clean(Unlist(k, {i}), U)
      <3>1. Good(k, U) /\ Listed(k) \subseteq U
        BY DEF Clean
      <3>2. /\ Good(Unlist(k, {i}), U)
            /\ Unlist(k, {i}).valid[i] = "NOCOPY"
            /\ \A j \in Csids : j # i => Unlist(k, {i}).valid[j] = k.valid[j]
        BY <3>1, UnlistOneGood, Zenon
      <3>3. Listed(Unlist(k, {i})) \subseteq Listed(k)
        BY <3>2 DEF Listed
      <3> QED BY <3>1, <3>2, <3>3 DEF Clean
    <2> QED BY <1>9, <2>1 DEF CopyAnswered
  <1> QED BY <1>5, <1>6, <1>7, <1>8, <1>9

\* The end of an operation without busy copies: it is over, or the emergency
\* version increase makes copies busy under a new one.
LEMMA OperationEndsClean ==
  ASSUME NEW U \in SUBSET Csids, NEW k, Clean(k, U), CopiesIn(k, Busy) = {}
  PROVE  Clean(OperationEnds(k), U)
  <1> DEFINE x == FixNotCompletedIncrease(k)
             g == ClearOpChunks(x)
             n == SetOp(g, "NONE")
  <1>1. OperationEnds(k) = IF CopiesIn(k, Current) = {} THEN TellStatus(n, "ERROR")
                           ELSE IF k.interrupted THEN chunk_emergency_increase_version(g)
                           ELSE TellStatus(NeedVerIncrease(n, FALSE), "OK")
    BY DEF OperationEnds
  <1>2. Clean(x, U) /\ \A i \in Csids : x.valid[i] \in Busy <=> k.valid[i] \in Busy
    BY FixNotCompletedClean
  <1> HIDE DEF x
  <1>3. Clean(g, U) /\ g.valid = x.valid
    BY <1>2, ClearOpChunksClean
  <1>4. \A i \in Csids : g.valid[i] # "BUSY"
    BY <1>2, <1>3 DEF CopiesIn, Busy
  <1> HIDE DEF g
  <1>5. Clean(n, U)
    BY <1>3, <1>4, NoOpClean
  <1> HIDE DEF n
  <1>6. Clean(TellStatus(n, "ERROR"), U) /\ Clean(NeedVerIncrease(n, FALSE), U)
    BY <1>5, SettersClean, Zenon
  <1>7. Clean(TellStatus(NeedVerIncrease(n, FALSE), "OK"), U)
    BY <1>6, SettersClean, Zenon
  <1>8. Clean(chunk_emergency_increase_version(g), U)
    BY <1>3, EmergencyClean
  <1> QED BY <1>1, <1>6, <1>7, <1>8, Zenon

\* chunk_operation_status ends the operation only when no busy copy is left.
LEMMA OperationStatusGood ==
  ASSUME NEW U \in SUBSET Csids, NEW k, Good(k, U), NEW pend, NEW i \in U, NEW status
  PROVE  \A e \in chunk_operation_status(k, U, pend, i, status) : Clean(e, U)
  <1>1. SUFFICES ASSUME NEW x \in chunk_remove_disconnected_chunks(k, U, pend)
                 PROVE  Clean(IF CopiesIn(CopyAnswered(x, i, status), Busy) = {}
                              THEN OperationEnds(CopyAnswered(x, i, status))
                              ELSE CopyAnswered(x, i, status), U)
    BY DEF chunk_operation_status
  <1>2. Clean(x, U)
    BY RemoveDisconnectedClean
  <1>3. Clean(CopyAnswered(x, i, status), U)
    BY <1>2, CopyAnsweredClean
  <1> QED BY <1>3, OperationEndsClean

\* A copy becomes valid or invalid.
LEMMA SetPlainGood ==
  ASSUME NEW U \in SUBSET Csids, NEW k, Good(k, U), NEW i \in Csids,
         NEW v \in {"INVALID", "VALID", "WVER"}, NEW n \in Versions
  PROVE  Good(SetCopy(k, i, v, n), U)
  <1>1. v \in Valid /\ Fits(k, v)
    BY DEF Valid, TD, Fits
  <1> QED BY <1>1, SetCopyGood

\* The answer for a replica while the replication is in progress.
LEMMA ReplicaAnsweredGood ==
  ASSUME NEW U \in SUBSET Csids, NEW k, Good(k, U), NEW i \in Csids, NEW version, NEW status
  PROVE  Good(ReplicaAnswered(k, i, version, status), U)
  <1> DEFINE S == k.opchunks \ {i}
  <1>1. S \in SUBSET Csids /\ k.sver[i] \in Versions /\ 0 \in Versions
    BY VersionAssumption DEF Good, HandlerType, Versions
  <1> HIDE DEF S
  <1>2. Good(Unlist(k, {i}), U)
    BY UnlistOneGood, Zenon
  <1>3. Good(SetCopy(k, i, "INVALID", 0), U) /\ Good(SetCopy(k, i, "VALID", k.sver[i]), U)
    BY <1>1, SetPlainGood, Zenon
  <1>4. \A d : Good(d, U) => Good(SetOpChunks(d, S), U)
    BY <1>1, SettersGood
  <1> QED BY <1>2, <1>3, <1>4 DEF ReplicaAnswered, S

\* The answer for a replica whose replication was cancelled.
LEMMA LateReplicaGood ==
  ASSUME NEW U \in SUBSET Csids, NEW k, Good(k, U), NEW i \in Csids, NEW version \in Versions
  PROVE  Good(LateReplica(k, i, version), U)
  BY SetPlainGood, Zenon DEF LateReplica

\* chunk_got_replicate_status ends the operation only when no busy copy is left
\* (TDBUSY, which its test overlooks, needs a disk marked for removal).
LEMMA ReplicateStatusGood ==
  ASSUME NEW U \in SUBSET Csids, NEW k, Good(k, U), NEW pend, NEW i \in Csids, NEW version \in Versions, NEW status
  PROVE  \A e \in chunk_got_replicate_status(k, U, pend, i, version, status) : Good(e, U)
  <1> DEFINE d == ReplicaAnswered(k, i, version, status)
  <1>1. CASE k.operation = "REPLICATE"
    <2>1. Good(d, U)
      BY ReplicaAnsweredGood
    <2>2. chunk_got_replicate_status(k, U, pend, i, version, status) =
            IF CopiesIn(d, {"BUSY"}) # {} THEN {d}
            ELSE ReplicationEnds(d, U, pend) \cup {TellIfIdle(e) : e \in ReplicationEnds(d, U, pend)}
      BY <1>1 DEF chunk_got_replicate_status
    <2> HIDE DEF d
    <2>3. CASE CopiesIn(d, {"BUSY"}) # {}
      BY <2>1, <2>2, <2>3
    <2>4. CASE CopiesIn(d, {"BUSY"}) = {}
      <3>1. \A j \in Csids : d.valid[j] # "BUSY"
        BY <2>4 DEF CopiesIn
      <3>2. \A e \in ReplicationEnds(d, U, pend) : Good(e, U)
        BY <2>1, <3>1, ReplicationEndsGood
      <3>3. \A e \in ReplicationEnds(d, U, pend) : Good(TellIfIdle(e), U)
        BY <3>2, TellIfIdleGood
      <3> QED BY <2>2, <2>4, <3>2, <3>3
    <2> QED BY <2>3, <2>4
  <1>2. CASE k.operation # "REPLICATE"
    BY <1>2, LateReplicaGood DEF chunk_got_replicate_status
  <1> QED BY <1>1, <1>2

\* chunk_got_delete_status.
LEMMA DeleteStatusGood ==
  ASSUME NEW U \in SUBSET Csids, NEW k, Good(k, U), NEW i \in Csids, NEW status
  PROVE  Good(chunk_got_delete_status(k, i, status), U)
  <1>1. k.sver[i] \in Versions
    BY DEF Good, HandlerType
  <1>2. Good(Unlist(k, {i}), U) /\ Good(SetCopy(k, i, "INVALID", k.sver[i]), U)
    BY <1>1, UnlistOneGood, SetPlainGood, Zenon
  <1> QED BY <1>2 DEF chunk_got_delete_status

\* chunk_damaged and chunk_lost.
LEMMA DamagedLostGood ==
  ASSUME NEW U \in SUBSET Csids, NEW k, Good(k, U), NEW i \in Csids
  PROVE  Good(chunk_damaged(k, i), U) /\ Good(chunk_lost(k, i), U)
  <1>1. 0 \in Versions
    BY VersionAssumption DEF Versions
  <1>2. Good(SetCopy(k, i, "INVALID", 0), U) /\ Good(Unlist(k, {i}), U)
    BY <1>1, SetPlainGood, UnlistOneGood
  <1> QED BY <1>2, SettersGood, Zenon DEF chunk_damaged, chunk_lost

\* A copy reported by its server, marked only if its disk is.
LEMMA ReportedGood ==
  ASSUME NEW U \in SUBSET Csids, NEW k, Good(k, U), NEW i \in Csids, NEW version \in Versions,
         NEW td \in BOOLEAN, td => Removable # {}
  PROVE  Good(Reported(k, i, version, td), U)
  <1>1. k.sver[i] \in Versions /\ k.valid[i] \in Valid
    BY DEF Good, HandlerType
  <1>2. k.valid[i] = "BUSY" /\ Removable = {} => k.operation # "NONE"
    BY DEF Good, Quiet
  <1>3. k.valid[i] = "TDBUSY" => Removable # {}
    BY DEF Good, Quiet, TD
  <1>4. ASSUME NEW v \in Valid, NEW n \in Versions,
               Removable = {} => ~TD(v) /\ (v = "BUSY" => k.operation # "NONE")
        PROVE  Good(SetCopy(k, i, v, n), U)
    <2>1. Fits(k, v)
      BY <1>4 DEF Fits
    <2> QED BY <2>1, SetCopyGood
  <1>5. /\ {"VALID", "WVER", "TDVALID", "TDWVER", "BUSY", "TDBUSY"} \subseteq Valid
        /\ ~TD("VALID") /\ ~TD("WVER") /\ ~TD("BUSY")
    BY DEF Valid, TD
  <1>6. /\ \A n \in Versions : Good(SetCopy(k, i, "VALID", n), U) /\ Good(SetCopy(k, i, "WVER", n), U)
        /\ td => \A n \in Versions : /\ Good(SetCopy(k, i, "TDVALID", n), U)
                                     /\ Good(SetCopy(k, i, "TDWVER", n), U)
                                     /\ Good(SetCopy(k, i, "TDBUSY", n), U)
        /\ k.valid[i] \in Busy => Good(SetCopy(k, i, "BUSY", k.sver[i]), U)
    BY <1>1, <1>2, <1>3, <1>4, <1>5 DEF Busy
  <1>7. \A e : Good(e, U) => Good(NeedVerIncrease(e, TRUE), U)
    BY SettersGood, Zenon
  <1> QED BY <1>1, <1>6, <1>7, Zenon DEF Reported

\* chunk_server_has_chunk.
LEMMA HasChunkGood ==
  ASSUME NEW U \in SUBSET Csids, NEW k, Good(k, U), NEW pend, NEW i \in Csids, NEW version \in Versions,
         NEW td \in BOOLEAN, td => Removable # {}
  PROVE  \A e \in chunk_server_has_chunk(k, U, pend, i, version, td) : Good(e, U)
  BY RemoveDisconnectedClean, ReportedGood DEF chunk_server_has_chunk, Clean

\* chunk_prepare_to_modify, with the fast job it may run.
LEMMA PrepareClean ==
  ASSUME NEW U \in SUBSET Csids, NEW k, Clean(k, U), NEW pend, NEW registering \in BOOLEAN
  PROVE  \A e \in chunk_prepare_to_modify(k, U, pend, registering) : Clean(e, U)
  <1>1. \A e \in DoJobs(k, U, pend, TRUE) : Clean(e, U)
    BY DoJobsClean, Zenon
  <1>2. \A e : Clean(e, U) => Clean(Tell(e, "RETRY"), U)
    BY SettersClean
  <1>3. ASSUME NEW e \in chunk_prepare_to_modify(k, U, pend, registering)
        PROVE  \E x \in {k} \cup DoJobs(k, U, pend, TRUE) : e = x \/ e = Tell(x, "RETRY")
    BY <1>3, Zenon DEF chunk_prepare_to_modify
  <1> QED BY <1>1, <1>2, <1>3, Zenon

\* What follows a successful preparation.
LEMMA ModifyClean ==
  ASSUME NEW U \in SUBSET Csids, NEW k, Clean(k, U)
  PROVE  Clean(Modify(k), U) /\ Clean(Truncate(k), U)
  <1>1. Clean(StartVersionOp(k, "SET_VERSION"), U) /\ Clean(StartVersionOp(k, "TRUNCATE"), U)
    BY StartVersionOpClean
  <1>2. \A e : Clean(e, U) => \A t \in Statuses : Clean(Tell(e, t), U)
    BY SettersClean
  <1>3. \A e : Clean(e, U) => Clean(Lock(e, TRUE), U)
    BY SettersClean, Zenon
  <1>4. /\ Clean(Lock(Tell(StartVersionOp(k, "SET_VERSION"), "WAIT"), TRUE), U)
        /\ Clean(Lock(Tell(StartVersionOp(k, "TRUNCATE"), "WAIT"), TRUE), U)
        /\ Clean(Lock(Tell(k, "OK"), TRUE), U)
    BY <1>1, <1>2, <1>3, Zenon
  <1> QED BY <1>4, Zenon DEF Modify, Truncate

\* chunk_univ_multi_modify and chunk_univ_multi_truncate.
LEMMA MultiModifyClean ==
  ASSUME NEW U \in SUBSET Csids, NEW k, Good(k, U), NEW pend, NEW registering \in BOOLEAN,
         NEW continueop \in BOOLEAN
  PROVE  /\ \A e \in chunk_multi_modify(k, U, pend, registering, continueop) : Clean(e, U)
         /\ \A e \in chunk_multi_truncate(k, U, pend, registering) : Clean(e, U)
  <1>1. ASSUME NEW d \in chunk_remove_disconnected_chunks(k, U, pend)
        PROVE  /\ Clean(Tell(d, "RETRY"), U)
               /\ \A x \in chunk_prepare_to_modify(d, U, pend, registering) :
                     Clean(Modify(x), U) /\ Clean(Truncate(x), U)
    <2>1. Clean(d, U)
      BY <1>1, RemoveDisconnectedClean
    <2>2. \A x \in chunk_prepare_to_modify(d, U, pend, registering) : Clean(x, U)
      BY <2>1, PrepareClean
    <2> QED BY <2>1, <2>2, SettersClean, ModifyClean
  <1>2. ASSUME NEW e \in chunk_multi_modify(k, U, pend, registering, continueop)
        PROVE  \E d \in chunk_remove_disconnected_chunks(k, U, pend) :
                  \/ e = Tell(d, "RETRY")
                  \/ \E x \in chunk_prepare_to_modify(d, U, pend, registering) : e = Modify(x)
    BY <1>2 DEF chunk_multi_modify
  <1>3. ASSUME NEW e \in chunk_multi_truncate(k, U, pend, registering)
        PROVE  \E d \in chunk_remove_disconnected_chunks(k, U, pend) :
                  \/ e = Tell(d, "RETRY")
                  \/ \E x \in chunk_prepare_to_modify(d, U, pend, registering) : e = Truncate(x)
    BY <1>3 DEF chunk_multi_truncate
  <1> QED BY <1>1, <1>2, <1>3

(***************************************************************************)
(* The system.                                                             *)
(***************************************************************************)
ChunkOK == c \in ChunkType /\ (Removable = {} => Quiet(c))

ConnectionsOK ==
    /\ up \subseteq Csids /\ registered \subseteq up
    /\ host \in [Csids -> Servers \cup {NoServer}] /\ \A i \in up : host[i] \in Servers

JobsOK == jobs \subseteq JobType /\ \A j \in jobs : j.csid \in up \cup {NoServer}

RepliesOK == replies \subseteq ReplyType /\ \A r \in replies : r.csid \in up

DisksOK ==
    /\ dver \in [Servers -> Versions \cup {NoFile}] /\ ddata \in [Servers -> SUBSET Writes]
    /\ marked \subseteq Removable

ClientOK ==
    /\ chain \subseteq Servers
    /\ client \in {"IDLE", "CREATING", "WRITING", "TRUNCATING", "GRANTED", "RETRYING", "ABANDONED"}
    /\ gver \in Versions /\ writes \in Writes /\ acked \subseteq Writes

\* The inductive invariant.
Inv == /\ ChunkOK /\ ConnectionsOK /\ JobsOK /\ RepliesOK /\ DisksOK /\ ClientOK
       /\ drops \in 0 .. MaxDrops

\* Between two handlers the chunk is good whatever connections are open.
LEMMA ChunkIsGood ==
  ASSUME ChunkOK, NEW U \in SUBSET Csids
  PROVE  Good(c, U)
  BY DEF ChunkOK, Good, ChunkType, HandlerType

\* A good chunk whose messages have been delivered is one of a state.
LEMMA DeliveredOK ==
  ASSUME NEW U \in SUBSET Csids, NEW k, Good(k, U)
  PROVE  Delivered(k) \in ChunkType /\ (Removable = {} => Quiet(Delivered(k)))
  BY Zenon DEF Good, Quiet, HandlerType, ChunkType, Delivered, MkChunk

\* Requests become jobs of the servers behind open connections.
LEMMA ApplyStep ==
  ASSUME NEW U \in SUBSET Csids, \A i \in U : host[i] \in Servers, writes' \in Writes,
         NEW f, Good(f, U), NEW J \in SUBSET JobType, \A j \in J : j.csid \in U \cup {NoServer},
         Apply(f, J)
  PROVE  ChunkOK' /\ jobs' \subseteq JobType /\ \A j \in jobs' : j.csid \in U \cup {NoServer}
  <1>1. ChunkOK'
    BY DeliveredOK, Zenon DEF Apply, ChunkOK, Quiet
  <1>2. ASSUME NEW r \in f.out PROVE Job(r) \in JobType /\ Job(r).csid \in U
    <2>1. r \in Requests(U)
      BY <1>2, Zenon DEF Good, HandlerType
    <2>2. NoServer \notin U
      BY CsidsAssumption
    <2>3. CASE r \in [csid : U, cmd : Commands \ {"REPLICATE"}, version : Versions, old : Versions,
                      src : {NoServer}]
      BY <2>3, Zenon DEF Job, JobType
    <2>4. CASE r \in [csid : U, cmd : {"REPLICATE"}, version : Versions, old : Versions, src : U]
      BY <2>2, <2>4, Zenon DEF Job, JobType
    <2> QED BY <2>1, <2>3, <2>4 DEF Requests
  <1>3. jobs' = J \cup {Job(r) : r \in f.out}
    BY Zenon DEF Apply
  <1> QED BY <1>1, <1>2, <1>3

\* What the client is told when its write is granted.
LEMMA GrantStep ==
  ASSUME ConnectionsOK, NEW e, e.version \in Versions, Grant(e)
  PROVE  /\ chain' \subseteq Servers /\ gver' \in Versions
         /\ client' \in {"RETRYING", "GRANTED"}
  BY DEF ConnectionsOK, Grant, CopiesIn

\* matoclserv_chunk_status keeps the client's types.
LEMMA StatusStep ==
  ASSUME ConnectionsOK, ClientOK, NEW e, e.version \in Versions, writes' = writes,
         matoclserv_chunk_status(e)
  PROVE  ClientOK'
  <1>1. CASE UNCHANGED <<client, chain, gver, acked>>
    BY <1>1 DEF ClientOK
  <1>2. CASE /\ client' = IF client = "CREATING" THEN "ABANDONED" ELSE "IDLE"
             /\ UNCHANGED <<chain, gver, acked>>
    BY <1>2 DEF ClientOK
  <1>3. CASE Grant(e) /\ UNCHANGED acked
    BY <1>3, GrantStep DEF ClientOK
  <1>4. CASE /\ client' = "IDLE"
             /\ acked' = acked \cup {writes}
             /\ UNCHANGED <<chain, gver>>
    BY <1>4 DEF ClientOK
  <1> QED BY <1>1, <1>2, <1>3, <1>4 DEF matoclserv_chunk_status

\* A handler with good results keeps chunk, client and jobs right.
LEMMA HandleStep ==
  ASSUME ConnectionsOK, ClientOK, NEW U \in SUBSET Csids, \A i \in U : host[i] \in Servers,
         NEW H, \A e \in H : Good(e, U),
         NEW J \in SUBSET JobType, \A j \in J : j.csid \in U \cup {NoServer},
         Handle(H, U, J)
  PROVE  /\ ChunkOK' /\ ClientOK'
         /\ jobs' \subseteq JobType /\ \A j \in jobs' : j.csid \in U \cup {NoServer}
  <1>1. PICK e \in H : /\ UNCHANGED writes
                       /\ \E f \in Settled(e, U) : Apply(f, J)
                       /\ matoclserv_chunk_status(e)
    BY DEF Handle
  <1>2. PICK f \in Settled(e, U) : Apply(f, J)
    BY <1>1
  <1>3. Good(e, U) /\ e.version \in Versions
    BY ModVersion DEF Good, HandlerType
  <1>4. Good(f, U)
    BY <1>3, UnlockGood DEF Settled
  <1>5. ClientOK'
    BY <1>1, <1>3, StatusStep, Zenon
  <1>6. writes' \in Writes
    BY <1>1, Zenon DEF ClientOK
  <1> QED BY <1>2, <1>4, <1>5, <1>6, ApplyStep, Zenon


\* The invariant holds when the chunk has just been created.
LEMMA InitInv == Init => Inv
  <1> SUFFICES ASSUME Init PROVE Inv
    OBVIOUS
  <1>1. PICK op \in BirthOps, S \in SUBSET up : c = Born(op, S) /\ jobs = {Birth(i, op) : i \in S}
    BY DEF Init
  <1>2. ConnectionsOK
    BY DEF Init, ConnectionsOK
  <1>3. 0 \in Versions /\ 1 \in Versions /\ 1 \in ChunkVersions /\ 1 \in Writes
    BY VersionAssumption, BoundsAssumption DEF Versions, ChunkVersions, Writes
  <1>4. op \in {"CREATE", "DUPLICATE", "DUPTRUNC"} /\ S \subseteq Csids
    BY <1>2, SwitchesAssumption DEF ConnectionsOK
  <1>5. ChunkOK
    BY <1>1, <1>3, <1>4 DEF ChunkOK, ChunkType, Quiet, Born, MkChunk, Valid, Operations, TD
  <1>6. ASSUME NEW i \in S PROVE Birth(i, op) \in JobType /\ Birth(i, op).csid \in up
    BY <1>2, <1>3, <1>4 DEF Birth, JobType, ConnectionsOK
  <1>7. JobsOK
    BY <1>1, <1>6 DEF JobsOK
  <1>8. RepliesOK /\ DisksOK /\ ClientOK /\ drops \in 0 .. MaxDrops
    BY <1>3, BoundsAssumption DEF Init, RepliesOK, DisksOK, ClientOK, NoFile
  <1> QED BY <1>2, <1>5, <1>7, <1>8 DEF Inv

\* A handler of the master that closes no connection keeps the invariant.
LEMMA MasterStep ==
  ASSUME Inv, NEW H, \A e \in H : Good(e, up), Handle(H, up, jobs), ConnectionsOK', DisksOK',
         up' = up, replies' \subseteq replies, drops' = drops
  PROVE  Inv'
  <1>1. up \in SUBSET Csids /\ \A i \in up : host[i] \in Servers
    BY DEF Inv, ConnectionsOK
  <1>2. jobs \in SUBSET JobType /\ \A j \in jobs : j.csid \in up \cup {NoServer}
    BY DEF Inv, JobsOK
  <1>3. /\ ChunkOK' /\ ClientOK'
        /\ jobs' \subseteq JobType /\ \A j \in jobs' : j.csid \in up \cup {NoServer}
    BY <1>1, <1>2, HandleStep, Zenon DEF Inv
  <1>4. JobsOK' /\ RepliesOK'
    BY <1>3 DEF Inv, JobsOK, RepliesOK
  <1> QED BY <1>3, <1>4 DEF Inv

\* Answers of chunkservers.
LEMMA AnswersInv ==
  ASSUME Inv, NEW r \in replies, GotOperationStatus(r) \/ GotReplicateStatus(r) \/ GotDeleteStatus(r)
  PROVE  Inv'
  <1>1. /\ up \in SUBSET Csids /\ Good(c, up) /\ r.csid \in up /\ r.csid \in Csids /\ r.version \in Versions
    BY ChunkIsGood DEF Inv, ConnectionsOK, RepliesOK, ReplyType
  <1>2. ASSUME UNCHANGED <<up, host, registered, dver, ddata, marked, drops>>, replies' = replies \ {r}
        PROVE  ConnectionsOK' /\ DisksOK' /\ up' = up /\ replies' \subseteq replies /\ drops' = drops
    BY <1>2 DEF Inv, ConnectionsOK, DisksOK
  <1>3. CASE GotOperationStatus(r)
    <2> DEFINE H == chunk_operation_status(c, up, Pending \ {r}, r.csid, r.status)
    <2>1. \A e \in H : Good(e, up)
      BY <1>1, OperationStatusGood DEF Clean
    <2>2. Handle(H, up, jobs)
      BY <1>3 DEF GotOperationStatus
    <2>3. ConnectionsOK' /\ DisksOK' /\ up' = up /\ replies' \subseteq replies /\ drops' = drops
      BY <1>2, <1>3 DEF GotOperationStatus
    <2> HIDE DEF H
    <2> QED BY <2>1, <2>2, <2>3, MasterStep
  <1>4. CASE GotReplicateStatus(r)
    <2> DEFINE H == chunk_got_replicate_status(c, up, Pending \ {r}, r.csid, r.version, r.status)
    <2>1. \A e \in H : Good(e, up)
      BY <1>1, ReplicateStatusGood
    <2>2. Handle(H, up, jobs)
      BY <1>4 DEF GotReplicateStatus
    <2>3. ConnectionsOK' /\ DisksOK' /\ up' = up /\ replies' \subseteq replies /\ drops' = drops
      BY <1>2, <1>4 DEF GotReplicateStatus
    <2> HIDE DEF H
    <2> QED BY <2>1, <2>2, <2>3, MasterStep
  <1>5. CASE GotDeleteStatus(r)
    <2> DEFINE H == {chunk_got_delete_status(c, r.csid, r.status)}
    <2>1. \A e \in H : Good(e, up)
      BY <1>1, DeleteStatusGood
    <2>2. Handle(H, up, jobs)
      BY <1>5 DEF GotDeleteStatus
    <2>3. ConnectionsOK' /\ DisksOK' /\ up' = up /\ replies' \subseteq replies /\ drops' = drops
      BY <1>2, <1>5 DEF GotDeleteStatus
    <2> HIDE DEF H
    <2> QED BY <2>1, <2>2, <2>3, MasterStep
  <1> QED BY <1>3, <1>4, <1>5


\* The periodic loops of the master.
LEMMA PeriodicInv ==
  ASSUME Inv, chunk_jobs_main \/ chunk_server_disconnection_loop
  PROVE  Inv'
  <1>1. up \in SUBSET Csids /\ Good(c, up)
    BY ChunkIsGood DEF Inv, ConnectionsOK
  <1>2. DisksOK' /\ up' = up /\ replies' \subseteq replies /\ drops' = drops
    BY DEF Inv, DisksOK, chunk_jobs_main, chunk_server_disconnection_loop
  <1>3. ConnectionsOK'
    BY DEF Inv, ConnectionsOK, chunk_jobs_main, chunk_server_disconnection_loop
  <1>4. CASE chunk_jobs_main
    <2>0. PICK extra \in BOOLEAN : Handle(chunk_do_jobs(c, up, Pending, extra), up, jobs)
      BY <1>4 DEF chunk_jobs_main
    <2> DEFINE H == chunk_do_jobs(c, up, Pending, extra)
    <2>1. \A e \in H : Good(e, up)
      BY <1>1, ChunkDoJobsClean DEF Clean
    <2>2. Handle(H, up, jobs)
      BY <2>0
    <2> HIDE DEF H
    <2> QED BY <1>2, <1>3, <2>1, <2>2, MasterStep
  <1>5. CASE chunk_server_disconnection_loop
    <2> DEFINE H == chunk_remove_disconnected_chunks(c, up, Pending)
    <2>1. \A e \in H : Good(e, up)
      BY <1>1, RemoveDisconnectedClean DEF Clean
    <2>2. Handle(H, up, jobs)
      BY <1>5 DEF chunk_server_disconnection_loop
    <2> HIDE DEF H
    <2> QED BY <1>2, <1>3, <2>1, <2>2, MasterStep
  <1> QED BY <1>4, <1>5

\* Chunks reported at registration or because a disk was marked.
LEMMA ReportsInv ==
  ASSUME Inv, NEW i \in Csids, RegisterChunks(i) \/ MarkChanged(i)
  PROVE  Inv'
  <1> DEFINE s == host[i]
             H == IF dver[s] = NoFile THEN {c}
                  ELSE chunk_server_has_chunk(c, up, Pending, i, dver[s], s \in marked')
  <1>1. up \in SUBSET Csids /\ Good(c, up)
    BY ChunkIsGood DEF Inv, ConnectionsOK
  <1>2. s \in Servers /\ dver[s] \in Versions \cup {NoFile}
    BY DEF Inv, ConnectionsOK, DisksOK, RegisterChunks, MarkChanged
  <1>3. DisksOK' /\ up' = up /\ replies' \subseteq replies /\ drops' = drops
    BY Zenon DEF Inv, DisksOK, RegisterChunks, MarkChanged
  <1>4. ConnectionsOK'
    BY DEF Inv, ConnectionsOK, RegisterChunks, MarkChanged
  <1>5. (s \in marked') \in BOOLEAN /\ ((s \in marked') => Removable # {})
    BY <1>3 DEF DisksOK
  <1>6. \A e \in H : Good(e, up)
    <2>1. CASE dver[s] = NoFile
      BY <1>1, <2>1, Zenon
    <2>2. CASE dver[s] # NoFile
      <3> DEFINE td == s \in marked'
                 v == dver[s]
      <3>1. td \in BOOLEAN /\ (td => Removable # {}) /\ v \in Versions
        BY <1>2, <1>5, <2>2
      <3>2. H = chunk_server_has_chunk(c, up, Pending, i, v, td)
        BY <2>2
      <3> HIDE DEF td, v, H
      <3> QED BY <1>1, <3>1, <3>2, HasChunkGood
    <2> QED BY <2>1, <2>2, Zenon
  <1>7. Handle(H, up, jobs)
    BY Zenon DEF RegisterChunks, MarkChanged
  <1> HIDE DEF H
  <1> QED BY <1>3, <1>4, <1>6, <1>7, MasterStep

\* Damaged and lost copies.
LEMMA FaultsInv ==
  ASSUME Inv, NEW i \in Csids, Damaged(i) \/ Lost(i)
  PROVE  Inv'
  <1>1. up \in SUBSET Csids /\ Good(c, up)
    BY ChunkIsGood DEF Inv, ConnectionsOK
  <1>2. ConnectionsOK' /\ up' = up /\ replies' \subseteq replies /\ drops' = drops
    BY DEF Inv, ConnectionsOK, Damaged, Lost
  <1>3. DisksOK'
    BY DEF Inv, ConnectionsOK, DisksOK, Damaged, Lost
  <1>4. Good(chunk_damaged(c, i), up) /\ Good(chunk_lost(c, i), up)
    BY <1>1, DamagedLostGood
  <1>5. PICK d \in {chunk_damaged(c, i), chunk_lost(c, i)} : Handle({d}, up, jobs)
    BY DEF Damaged, Lost
  <1>6. \A e \in {d} : Good(e, up)
    BY <1>4
  <1> QED BY <1>2, <1>3, <1>5, <1>6, MasterStep

\* A chunkserver connects.
LEMMA ConnectionInv ==
  ASSUME Inv, NEW i \in Csids, NEW s \in Servers, chunk_server_connected(s, i)
  PROVE  Inv'
  <1>1. ChunkOK' /\ DisksOK' /\ ClientOK' /\ drops' \in 0 .. MaxDrops
    BY Zenon DEF Inv, ChunkOK, Quiet, DisksOK, ClientOK, chunk_server_connected, chunkservers, clients
  <1>2. ConnectionsOK'
    BY ServersAssumption DEF Inv, ConnectionsOK, chunk_server_connected
  <1>3. JobsOK' /\ RepliesOK'
    BY Zenon DEF Inv, JobsOK, RepliesOK, chunk_server_connected, chunkservers
  <1> QED BY <1>1, <1>2, <1>3 DEF Inv

\* LOCKTIMEOUT and REPLOCKTIMEOUT.
LEMMA TimeoutsInv ==
  ASSUME Inv, LockTimeout \/ ReplockTimeout
  PROVE  Inv'
  <1>1. ChunkOK'
    <2>1. c' = Lock(c, FALSE) \/ c' = RepLock(c, FALSE)
      BY Zenon DEF LockTimeout, ReplockTimeout
    <2>2. up \in SUBSET Csids /\ Good(c, up) /\ FALSE \in BOOLEAN
      BY ChunkIsGood DEF Inv, ConnectionsOK
    <2>3. Good(Lock(c, FALSE), up) /\ Good(RepLock(c, FALSE), up)
      BY <2>2, SettersGood, Zenon
    <2>4. c.out = {} /\ c.told = "NOTHING"
      BY DEF Inv, ChunkOK, ChunkType
    <2>5. /\ Lock(c, FALSE) = Delivered(Lock(c, FALSE))
          /\ RepLock(c, FALSE) = Delivered(RepLock(c, FALSE))
      BY <2>4, Zenon DEF Lock, RepLock, Delivered, MkChunk
    <2>6. /\ Lock(c, FALSE) \in ChunkType /\ (Removable = {} => Quiet(Lock(c, FALSE)))
          /\ RepLock(c, FALSE) \in ChunkType /\ (Removable = {} => Quiet(RepLock(c, FALSE)))
      BY <2>2, <2>3, <2>5, DeliveredOK, Zenon
    <2> QED BY <2>1, <2>6, Zenon DEF ChunkOK, Quiet
  <1>2. ConnectionsOK' /\ DisksOK' /\ ClientOK' /\ drops' \in 0 .. MaxDrops
    BY Zenon DEF Inv, ConnectionsOK, DisksOK, ClientOK, LockTimeout, ReplockTimeout, chunkservers, clients
  <1>3. JobsOK' /\ RepliesOK'
    BY Zenon DEF Inv, JobsOK, RepliesOK, LockTimeout, ReplockTimeout, chunkservers
  <1> QED BY <1>1, <1>2, <1>3 DEF Inv


\* A connection is closed: its jobs lose it, its answers are discarded.
LEMMA DisconnectionInv ==
  ASSUME Inv, NEW i \in Csids, chunk_server_disconnected(i)
  PROVE  Inv'
  <1> DEFINE H == IF i \in c.opchunks THEN chunk_remove_disconnected_chunks(c, up', Pending) ELSE {c}
             G == {SetOpChunks(e, e.opchunks \ {i}) : e \in H}
             J(L) == {j \in jobs : j.csid # i} \cup {Orphan(j) : j \in L}
  <1>0. /\ i \in up /\ drops < MaxDrops /\ drops' = drops + 1
        /\ up' = up \ {i} /\ registered' = registered \ {i}
        /\ replies' = {r \in replies : r.csid # i}
        /\ UNCHANGED <<host, dver, ddata, marked>>
    BY Zenon DEF chunk_server_disconnected
  <1>1. up' = up \ {i} /\ up' \in SUBSET Csids /\ Good(c, up')
    <2>1. up' = up \ {i} /\ up' \in SUBSET Csids
      BY <1>0 DEF Inv, ConnectionsOK
    <2>2. ChunkOK
      BY DEF Inv
    <2> QED BY <2>1, <2>2, ChunkIsGood
  <1>2. PICK L \in SUBSET jobs : Handle(G, up', J(L))
    BY Zenon DEF chunk_server_disconnected
  <1>3. \A e \in H : Good(e, up')
    BY <1>1, RemoveDisconnectedClean DEF Clean
  <1>4. \A e \in G : Good(e, up')
    <2>1. ASSUME NEW e \in H PROVE Good(SetOpChunks(e, e.opchunks \ {i}), up')
      <3>1. Good(e, up')
        BY <1>3
      <3>2. e.opchunks \ {i} \in SUBSET Csids
        BY <3>1 DEF Good, HandlerType
      <3> HIDE DEF H
      <3> QED BY <1>1, <3>1, <3>2, SettersGood, Zenon
    <2> QED BY <2>1, Zenon
  <1>5. J(L) \in SUBSET JobType
    <2>1. ASSUME NEW j \in L PROVE Orphan(j) \in JobType
      BY Zenon DEF Inv, JobsOK, JobType, Orphan
    <2> QED BY <2>1 DEF Inv, JobsOK
  <1>6. \A j \in J(L) : j.csid \in up' \cup {NoServer}
    <2>1. \A j \in jobs : j.csid \in up \cup {NoServer}
      BY DEF Inv, JobsOK
    <2>2. \A j \in L : Orphan(j).csid = NoServer
      BY DEF Orphan
    <2> HIDE DEF G, H
    <2> QED BY <1>0, <2>1, <2>2
  <1>7. \A k \in up' : host[k] \in Servers
    BY <1>1 DEF Inv, ConnectionsOK
  <1>8. ConnectionsOK /\ ClientOK
    BY DEF Inv
  <1>9. /\ ChunkOK' /\ ClientOK'
        /\ jobs' \subseteq JobType /\ \A j \in jobs' : j.csid \in up' \cup {NoServer}
    <2> HIDE DEF G, J
    <2> QED BY <1>1, <1>2, <1>4, <1>5, <1>6, <1>7, <1>8, HandleStep, Zenon
  <1>10. ConnectionsOK' /\ DisksOK' /\ drops' \in 0 .. MaxDrops
    <2>1. ConnectionsOK'
      BY <1>0 DEF Inv, ConnectionsOK
    <2>2. DisksOK'
      BY <1>0 DEF Inv, DisksOK
    <2>3. drops' \in 0 .. MaxDrops
      BY <1>0, BoundsAssumption DEF Inv
    <2> QED BY <2>1, <2>2, <2>3
  <1>11. JobsOK' /\ RepliesOK'
    BY <1>0, <1>9 DEF Inv, JobsOK, RepliesOK
  <1> QED BY <1>9, <1>10, <1>11 DEF Inv

\* A job ends: its answer goes to the open connection it came from.
LEMMA DoneInv ==
  ASSUME Inv, NEW j \in jobs, NEW status \in {"OK", "NOTDONE", "ERROR"},
         NEW version \in Versions \cup {NoFile}, NEW data \in SUBSET Writes, Done(j, status, version, data)
  PROVE  Inv'
  <1>1. j.srv \in Servers /\ j.cmd \in Commands /\ j.version \in Versions
    BY Zenon DEF Inv, JobsOK, JobType
  <1>2. RepliesOK'
    <2> DEFINE r == [csid |-> j.csid, cmd |-> j.cmd, version |-> j.version, status |-> status]
    <2>1. up' = up /\ replies' = IF j.csid \in up THEN replies \cup {r} ELSE replies
      BY Zenon DEF Done, Answer, master
    <2>2. j.csid \in up => r \in ReplyType /\ r.csid \in up
      BY <1>1, Zenon DEF Inv, ConnectionsOK, ReplyType
    <2>3. replies \subseteq ReplyType /\ \A q \in replies : q.csid \in up
      BY DEF Inv, RepliesOK
    <2> HIDE DEF r
    <2> QED BY <2>1, <2>2, <2>3 DEF RepliesOK
  <1>3. DisksOK'
    BY <1>1 DEF Inv, DisksOK, Done
  <1>4. ChunkOK' /\ ConnectionsOK' /\ ClientOK' /\ drops' \in 0 .. MaxDrops
    BY Zenon DEF Inv, ChunkOK, Quiet, ConnectionsOK, ClientOK, Done, master, clients
  <1>5. JobsOK'
    BY DEF Inv, JobsOK, Done, master
  <1> QED BY <1>2, <1>3, <1>4, <1>5 DEF Inv

\* Everything a chunkserver does with a job.
LEMMA JobsInv ==
  ASSUME Inv, NEW j \in jobs, Exec(j) \/ Overload(j) \/ DiskError(j)
  PROVE  Inv'
  <1>1. /\ j.srv \in Servers /\ j.version \in Versions /\ j.data \in SUBSET Writes
        /\ dver[j.srv] \in Versions \cup {NoFile} /\ ddata[j.srv] \in SUBSET Writes
    BY Zenon DEF Inv, JobsOK, JobType, DisksOK
  <1>a. /\ j.version \in Versions \cup {NoFile} /\ NoFile \in Versions \cup {NoFile}
        /\ {} \in SUBSET Writes /\ ddata[j.srv] \cup j.data \in SUBSET Writes
    BY <1>1, Zenon
  <1>2. ASSUME NEW status \in {"OK", "NOTDONE", "ERROR"}, Refused(j, status)
        PROVE  Inv'
    BY <1>1, <1>2, DoneInv DEF Refused
  <1>3. CASE hdd_int_create(j)
    <2>1. CASE Done(j, "OK", j.version, {})
      BY <1>a, <2>1, DoneInv, Zenon
    <2> QED BY <1>2, <1>3, <2>1, Zenon DEF hdd_int_create
  <1>4. CASE hdd_int_version(j)
    <2>1. CASE Done(j, "OK", j.version, ddata[j.srv] \cup j.data)
      BY <1>a, <2>1, DoneInv, Zenon
    <2> QED BY <1>2, <1>4, <2>1, Zenon DEF hdd_int_version
  <1>5. CASE hdd_int_delete(j)
    <2>1. CASE Done(j, "OK", NoFile, {})
      BY <1>a, <2>1, DoneInv, Zenon
    <2> QED BY <1>2, <1>5, <2>1, Zenon DEF hdd_int_delete
  <1>6. CASE ReplicateStart(j)
    <2>1. CASE /\ jobs' = (jobs \ {j}) \cup {Started(j, ddata[j.src])}
               /\ dver' = [dver EXCEPT ![j.srv] = 0]
               /\ UNCHANGED <<master, replies, ddata, marked, clients, drops>>
      <3>1. j.cmd = "REPLICATE" /\ 0 \in Versions
        <4>1. j.cmd = "REPLICATE"
          BY <1>6, Zenon DEF ReplicateStart
        <4>2. 0 \in Versions
          BY VersionAssumption DEF Versions
        <4> QED BY <4>1, <4>2
      <3>2. Started(j, ddata[j.src]) \in JobType
        BY <3>1, Zenon DEF Inv, JobsOK, JobType, DisksOK, Started
      <3>3. JobsOK'
        <4> DEFINE k == Started(j, ddata[j.src])
        <4>1. k.csid = j.csid
          BY DEF Started
        <4>2. jobs' \subseteq jobs \cup {k} /\ up' = up
          BY <2>1, Zenon DEF master
        <4> HIDE DEF k
        <4>3. jobs' \subseteq JobType
          BY <3>2, <4>2 DEF Inv, JobsOK, k
        <4> QED BY <4>1, <4>2, <4>3 DEF Inv, JobsOK
      <3>4. DisksOK'
        BY <1>1, <2>1, <3>1, Zenon DEF Inv, DisksOK
      <3>5. ChunkOK' /\ ConnectionsOK' /\ RepliesOK' /\ ClientOK' /\ drops' \in 0 .. MaxDrops
        BY <2>1 DEF Inv, ChunkOK, Quiet, ConnectionsOK, RepliesOK, ClientOK, master, clients
      <3> QED BY <3>3, <3>4, <3>5 DEF Inv
    <2> QED BY <1>2, <1>6, <2>1 DEF ReplicateStart
  <1>7. CASE ReplicateEnd(j)
    <2>1. CASE Done(j, "OK", j.version, j.data)
      BY <1>1, <1>a, <2>1, DoneInv, Zenon
    <2>2. CASE Done(j, "ERROR", IF dver[j.srv] = 0 THEN NoFile ELSE dver[j.srv],
                    IF dver[j.srv] = 0 THEN {} ELSE ddata[j.srv])
      <3>1. /\ (IF dver[j.srv] = 0 THEN NoFile ELSE dver[j.srv]) \in Versions \cup {NoFile}
            /\ (IF dver[j.srv] = 0 THEN {} ELSE ddata[j.srv]) \in SUBSET Writes
        BY <1>1
      <3> QED BY <2>2, <3>1, DoneInv, Zenon
    <2> QED BY <1>2, <1>7, <2>1, <2>2, Zenon DEF ReplicateEnd
  <1>8. CASE Overload(j)
    BY <1>2, <1>8 DEF Overload
  <1>9. CASE DiskError(j)
    <2>1. CASE Done(j, "ERROR", j.version, ddata[j.srv])
      BY <1>1, <1>a, <2>1, DoneInv, Zenon
    <2> QED BY <1>2, <1>9, <2>1, Zenon DEF DiskError
  <1> QED BY <1>3, <1>4, <1>5, <1>6, <1>7, <1>8, <1>9 DEF Exec


\* A request of the client is refused, granted or waits.
LEMMA AskInv ==
  ASSUME Inv, NEW H, \A e \in H : Clean(e, up), NEW w \in Writes,
         NEW state \in {"WRITING", "TRUNCATING"}, Ask(H, w, state)
  PROVE  Inv'
  <1>1. PICK e \in H :
          /\ writes' = IF e.told = "RETRY" THEN writes ELSE w
          /\ Apply(e, jobs)
          /\ \/ /\ e.told = "RETRY"
                /\ client' = IF client = "IDLE" THEN "IDLE" ELSE "RETRYING"
                /\ UNCHANGED <<chain, gver>>
             \/ e.told = "OK" /\ Grant(e)
             \/ e.told = "WAIT" /\ client' = state /\ UNCHANGED <<chain, gver>>
          /\ UNCHANGED <<up, host, registered, replies, dver, ddata, marked, acked, drops>>
    BY DEF Ask
  <1>2. Good(e, up) /\ e.version \in Versions
    BY ModVersion, Zenon DEF Clean, Good, HandlerType
  <1>3. writes' \in Writes
    BY <1>1 DEF Inv, ClientOK
  <1>4. /\ up \in SUBSET Csids /\ \A i \in up : host[i] \in Servers
        /\ jobs \in SUBSET JobType /\ \A j \in jobs : j.csid \in up \cup {NoServer}
    BY DEF Inv, ConnectionsOK, JobsOK
  <1>5. ChunkOK' /\ jobs' \subseteq JobType /\ \A j \in jobs' : j.csid \in up \cup {NoServer}
    BY <1>1, <1>2, <1>3, <1>4, ApplyStep, Zenon
  <1>6. ClientOK'
    <2>1. CASE Grant(e)
      BY <1>1, <1>2, <1>3, <2>1, GrantStep DEF Inv, ClientOK
    <2>2. CASE ~Grant(e)
      BY <1>1, <1>3, <2>2 DEF Inv, ClientOK
    <2> QED BY <2>1, <2>2
  <1>7. ConnectionsOK' /\ RepliesOK' /\ DisksOK' /\ JobsOK' /\ drops' \in 0 .. MaxDrops
    BY <1>1, <1>5, Zenon DEF Inv, ConnectionsOK, RepliesOK, DisksOK, JobsOK
  <1> QED BY <1>5, <1>6, <1>7 DEF Inv

\* Write, truncate and the repeated request.
LEMMA RequestsInv ==
  ASSUME Inv, WriteBegin \/ TruncateBegin \/ WriteAgain
  PROVE  Inv'
  <1> DEFINE M(b) == chunk_multi_modify(c, up, Pending, Registering, b)
             T == chunk_multi_truncate(c, up, Pending, Registering)
  <1>1. up \in SUBSET Csids /\ Good(c, up) /\ Registering \in BOOLEAN
    BY ChunkIsGood DEF Inv, ConnectionsOK, Registering
  <1>2. /\ \A e \in M(TRUE) : Clean(e, up)
        /\ \A e \in M(FALSE) : Clean(e, up)
        /\ \A e \in T : Clean(e, up)
    BY <1>1, MultiModifyClean, Zenon
  <1>3. writes \in Writes /\ (writes < MaxWrites => writes + 1 \in Writes)
    BY BoundsAssumption DEF Inv, ClientOK, Writes
  <1>4. \/ Ask(M(FALSE), writes + 1, "WRITING") /\ writes < MaxWrites
        \/ Ask(T, writes + 1, "TRUNCATING") /\ writes < MaxWrites
        \/ Ask(M(TRUE), writes, "WRITING")
    BY Zenon DEF WriteBegin, TruncateBegin, WriteAgain
  <1> HIDE DEF M, T
  <1> QED BY <1>2, <1>3, <1>4, AskInv, Zenon

\* The client writes, ends its write or disappears.
LEMMA ClientInv ==
  ASSUME Inv, WriteEnd \/ ClientDies \/ \E s \in Servers : WriteBlock(s)
  PROVE  Inv'
  <1>1. CASE WriteEnd
    <2>1. PICK f \in chunk_unlock(c, up, Pending) : Apply(f, jobs)
      BY <1>1 DEF WriteEnd
    <2>2. up \in SUBSET Csids /\ Good(c, up)
      BY ChunkIsGood DEF Inv, ConnectionsOK
    <2>3. Good(f, up)
      BY <2>2, UnlockGood
    <2>4. writes' \in Writes
      BY <1>1 DEF Inv, ClientOK, WriteEnd
    <2>5. /\ \A i \in up : host[i] \in Servers
          /\ jobs \in SUBSET JobType /\ \A j \in jobs : j.csid \in up \cup {NoServer}
      BY DEF Inv, ConnectionsOK, JobsOK
    <2>6. ChunkOK' /\ jobs' \subseteq JobType /\ \A j \in jobs' : j.csid \in up \cup {NoServer}
      BY <2>1, <2>2, <2>3, <2>4, <2>5, ApplyStep, Zenon
    <2>7. ConnectionsOK' /\ RepliesOK' /\ DisksOK' /\ JobsOK' /\ drops' \in 0 .. MaxDrops
      BY <1>1, <2>6, Zenon DEF Inv, ConnectionsOK, RepliesOK, DisksOK, JobsOK, WriteEnd
    <2>8. ClientOK'
      BY <1>1 DEF Inv, ClientOK, WriteEnd
    <2> QED BY <2>6, <2>7, <2>8 DEF Inv
  <1>2. CASE ClientDies
    <2>1. ChunkOK' /\ ConnectionsOK' /\ RepliesOK' /\ DisksOK' /\ JobsOK' /\ drops' \in 0 .. MaxDrops
      BY <1>2, Zenon DEF Inv, ChunkOK, Quiet, ConnectionsOK, RepliesOK, DisksOK, JobsOK, ClientDies, master,
                  chunkservers
    <2>2. ClientOK'
      BY <1>2 DEF Inv, ClientOK, ClientDies
    <2> QED BY <2>1, <2>2 DEF Inv
  <1>3. ASSUME NEW s \in Servers, WriteBlock(s) PROVE Inv'
    <2>1. ChunkOK' /\ ConnectionsOK' /\ RepliesOK' /\ JobsOK' /\ drops' \in 0 .. MaxDrops
      BY <1>3, Zenon DEF Inv, ChunkOK, Quiet, ConnectionsOK, RepliesOK, JobsOK, WriteBlock, master
    <2>2. ClientOK'
      BY <1>3 DEF Inv, ClientOK, WriteBlock
    <2>3. DisksOK'
      BY <1>3 DEF Inv, DisksOK, ClientOK, WriteBlock
    <2> QED BY <2>1, <2>2, <2>3 DEF Inv
  <1> QED BY <1>1, <1>2, <1>3

\* Nothing changes.
LEMMA StutterInv ==
  ASSUME Inv, UNCHANGED vars
  PROVE  Inv'
  <1>1. ChunkOK' /\ ConnectionsOK' /\ JobsOK' /\ RepliesOK'
    BY DEF Inv, ChunkOK, Quiet, ConnectionsOK, JobsOK, RepliesOK, vars, master, chunkservers
  <1>2. DisksOK' /\ ClientOK' /\ drops' \in 0 .. MaxDrops
    BY DEF Inv, DisksOK, ClientOK, vars, chunkservers, clients
  <1> QED BY <1>1, <1>2 DEF Inv

\* Every step keeps the invariant.
LEMMA NextInv == Inv /\ [Next]_vars => Inv'
  <1> SUFFICES ASSUME Inv, [Next]_vars PROVE Inv'
    OBVIOUS
  <1>1. CASE Master
    BY <1>1, AnswersInv, PeriodicInv, ReportsInv, FaultsInv, ConnectionInv, TimeoutsInv,
       DisconnectionInv DEF Master
  <1>2. CASE Chunkserver
    BY <1>2, JobsInv DEF Chunkserver
  <1>3. CASE Client
    BY <1>3, RequestsInv, ClientInv DEF Client
  <1> QED BY <1>1, <1>2, <1>3, StutterInv DEF Next

\* The invariant holds in every reachable state.
LEMMA InvAlways == Spec => []Inv
  BY InitInv, NextInv, PTL DEF Spec

\* Type correctness: the master, the chunkservers and the client only ever hold
\* values of the declared types.  In particular a version stays within its
\* width when chunk_operation_status sets a copy back by one, an open connection
\* belongs to a chunkserver, and every answer in flight belongs to an open
\* connection.
THEOREM TypeCorrect == Spec => []TypeOK
  <1>1. Inv => TypeOK
    BY DEF Inv, TypeOK, ChunkOK, ConnectionsOK, JobsOK, RepliesOK, DisksOK, ClientOK
  <1> QED BY <1>1, InvAlways, PTL

\* A chunk without an operation has no busy copy, in every system in which no
\* disk is marked for removal: what chunk_get_read_check and
\* chunk_prepare_to_modify take for an impossible state never happens.
THEOREM IdleNotBusyAlways ==
  ASSUME Removable = {}
  PROVE  Spec => []IdleNotBusy
  <1>1. Inv => IdleNotBusy
    BY DEF Inv, ChunkOK, Quiet, IdleNotBusy, CopiesIn, Busy, TD
  <1> QED BY <1>1, InvAlways, PTL

=============================================================================
