-------------------------- MODULE MasterFilesProofs --------------------------
(***************************************************************************)
(* PlainStartComplete for every number of changelogs, changes, starts and  *)
(* failed writes, in every mode of saving: a metadata.mfs on disk is never *)
(* older than the changes.                                                 *)
(*                                                                         *)
(* The first part is type correctness; the second, the inductive invariant *)
(* PlainInv: the order in which the master, its background writer and its  *)
(* saving processes end, and what the save of the exit has made so far.    *)
(***************************************************************************)
EXTENDS MasterFiles, WellFoundedInduction, TLAPS

\* A set of natural numbers that has a member has a least one.
LEMMA LeastNatural ==
  ASSUME NEW T \in SUBSET Nat, T # {}
  PROVE  \E x \in T : \A y \in T : x <= y
  <1>1. PICK x \in T : \A y \in T : ~(<<y, x>> \in OpToRel(<, Nat))
    BY NatLessThanWellFounded, WFMin, Zenon
  <1>2. \A y \in T : <<y, x>> \in OpToRel(<, Nat) <=> y < x
    BY DEF OpToRel
  <1>3. \A y \in T : ~(y < x)
    BY <1>1, <1>2, Zenon
  <1> QED BY <1>3

\* Max of a set of natural numbers with a bound.
LEMMA MaxBounded ==
  ASSUME NEW S \in SUBSET Nat, S # {}, NEW b \in Nat, \A x \in S : x <= b
  PROVE  Max(S) \in S /\ \A x \in S : x <= Max(S)
  <1> DEFINE T == {b - x : x \in S}
  <1>1. T \in SUBSET Nat
    OBVIOUS
  <1>0. T # {}
    BY Zenon
  <1>2. PICK d \in T : \A y \in T : d <= y
    BY <1>0, <1>1, LeastNatural, Zenon
  <1>3. PICK m \in S : d = b - m
    OBVIOUS
  <1>4. \A x \in S : m >= x
    BY <1>2, <1>3
  <1>5. \E m_1 \in S : \A x \in S : m_1 >= x
    BY <1>4
  <1> QED BY <1>5, Zenon DEF Max

(***************************************************************************)
(* Types.                                                                  *)
(***************************************************************************)
\* Metadata: changes up to the bound on their number.
Metadata == {h \in Seq(Nat) : Len(h) <= MaxVersion}

\* A line of a changelog, or a packet for the background writer.
Packet == [v : 0..MaxVersion, id : Nat]

Steps == {"none", "forked", "opened", "written", "kept", "renamed", "done", "failed", "killed"}
Saver == [st : Steps, h : Metadata, fg : BOOLEAN, hours : Nat]
MetaFile == [h : Metadata, ok : BOOLEAN, own : {"absent", "none", "saver", "orphan"}]
Log == [lines : Seq(Packet), sync : Nat]

TypeOK ==
  /\ run \in {"down", "up", "mayexit", "canexit", "term", "restore"}
  /\ life \in Nat /\ hist \in Metadata
  /\ queue \in Seq(Packet) /\ bg \in {"none", "idle", "open"}
  /\ saver \in Saver /\ orphan \in Saver
  /\ dir \in [Name -> MetaFile]
  /\ logs \in [0..BackLogs -> Log]

\* What is not yet used is well typed.
LEMMA Constants ==
  /\ << >> \in Metadata /\ Idle \in Saver /\ NoFile \in MetaFile /\ NoLog \in Log
  /\ ROTATELOG \in [v : {0}, id : Nat] /\ TERMINATE \in [v : {0}, id : Nat]
  /\ MaxVersion \in Nat /\ BackLogs \in Nat
  BY FilesAssumption DEF Metadata, Saver, Steps, MetaFile, Log, Idle, NoFile, NoLog, ROTATELOG, TERMINATE

\* The members of a sequence.
LEMMA ToSetType ==
  ASSUME NEW T, NEW s \in Seq(T)
  PROVE  ToSet(s) \subseteq T /\ \A i \in 1..Len(s) : s[i] \in ToSet(s)
  BY DEF ToSet

\* The packets without a line differ from each other and from those with one.
LEMMA Packets ==
  /\ ROTATELOG # TERMINATE
  /\ \A v \in Nat : v > 0 => Line(v) # TERMINATE /\ Line(v) # ROTATELOG
  BY DEF ROTATELOG, TERMINATE, Line

\* ReadLines takes lines of the file.
LEMMA ReadLinesSubset ==
  ASSUME NEW log \in Seq(Packet)
  PROVE  ReadLines(log) \subseteq Packet
  <1> DEFINE ok == {n \in 0..Len(log) : \A i \in 1..n - 1 : log[i].v < log[i + 1].v}
  <1>1. 0 \in ok /\ ok \in SUBSET Nat /\ (\A n \in ok : n <= Len(log)) /\ Len(log) \in Nat
    OBVIOUS
  <1> HIDE DEF ok
  <1>2. Max(ok) \in ok
    <2>1. ok # {}
      BY <1>1
    <2> QED BY <1>1, <2>1, MaxBounded, Zenon
  <1>4. Max(ok) \in 0..Len(log)
    BY <1>2 DEF ok
  <1>3. SubSeq(log, 1, Max(ok)) \in Seq(Packet)
    BY <1>4
  <1> QED BY <1>3, ToSetType, Zenon DEF ReadLines, ok

\* A replay gives metadata.
LEMMA RestoreType ==
  ASSUME NEW h \in Metadata, NEW lines \in SUBSET Packet
  PROVE  restore_file(h, lines) \subseteq Metadata
  <1> DEFINE whole == {l \in lines : l.id # 0}
             S == {Len(h)} \cup {l.v : l \in whole}
  <1>0. Len(h) \in 0..MaxVersion /\ \A l \in whole : l.v \in 0..MaxVersion
    BY Constants DEF Metadata, Packet
  <1>1. S \in SUBSET (0..MaxVersion) /\ S # {}
    BY <1>0
  <1>2. Max(S) \in 0..MaxVersion
    <2> HIDE DEF S
    <2>1. S \in SUBSET Nat /\ \A n \in S : n <= MaxVersion
      BY <1>1, Constants
    <2> QED BY <1>1, <2>1, MaxBounded, Constants, Zenon
  <1>3. ToSet(h) \cup {l.id : l \in whole} \subseteq Nat
    BY DEF ToSet, Metadata, Packet
  <1> DEFINE ids == ToSet(h) \cup {l.id : l \in whole}
             end == Max(S)
  <1>4. ASSUME NEW r \in [1..end -> ids] PROVE r \in Metadata
    <2>1. ids \subseteq Nat /\ end \in Nat /\ end <= MaxVersion
      BY <1>2, <1>3, Constants
    <2> HIDE DEF ids, end
    <2>2. r \in [1..end -> Nat]
      BY <2>1, Zenon
    <2>3. r \in Seq(Nat) /\ Len(r) = end
      BY <2>1, <2>2
    <2> QED BY <2>1, <2>3 DEF Metadata
  <1> QED BY <1>4 DEF restore_file

\* So does -a: what it may load is metadata.
LEMMA LoadedType == TypeOK => Loaded \subseteq Metadata
  <1> SUFFICES ASSUME TypeOK, NEW r \in Loaded PROVE r \in Metadata
    OBVIOUS
  <1> DEFINE L == {logs[i].lines : i \in 0..BackLogs}
  <1>1. L \subseteq Seq(Packet)
    BY DEF TypeOK, Log
  <1>2. PICK h \in Metas : r \in restore_file(h, UNION {ReadLines(l) : l \in UsedLogs(h, L)})
    BY Zenon DEF Loaded, meta_loadall
  <1>3. h \in Metadata
    BY DEF Metas, TypeOK, MetaFile
  <1>4. UNION {ReadLines(l) : l \in UsedLogs(h, L)} \subseteq Packet
    BY <1>1, ReadLinesSubset DEF UsedLogs
  <1> HIDE DEF L
  <1> QED BY <1>2, <1>3, <1>4, RestoreType

\* What happens to the files keeps their types.
LEMMA LogsType ==
  ASSUME TypeOK
  PROVE  /\ Synced \in [0..BackLogs -> Log]
         /\ \A sync \in BOOLEAN : Rotated(sync) \in [0..BackLogs -> Log]
         /\ \A line \in Packet, sync \in BOOLEAN : Logged(line, sync) \in [0..BackLogs -> Log]
  <1>1. 0 \in 0..BackLogs /\ logs \in [0..BackLogs -> Log] /\ logs[0].lines \in Seq(Packet)
        /\ logs[0].sync \in Nat
    BY Constants DEF TypeOK, Log
  <1>2. Synced \in [0..BackLogs -> Log]
    <2>1. [lines |-> logs[0].lines, sync |-> Len(logs[0].lines)] \in Log
      BY <1>1 DEF Log
    <2> QED BY <1>1, <2>1 DEF Synced
  <1>3. ASSUME NEW sync \in BOOLEAN PROVE Rotated(sync) \in [0..BackLogs -> Log]
    <2> DEFINE f == IF sync THEN Synced ELSE logs
    <2>1. f \in [0..BackLogs -> Log]
      BY <1>1, <1>2
    <2> HIDE DEF f
    <2>2. ASSUME NEW i \in 0..BackLogs
          PROVE  (CASE i = 0 -> NoLog
                    [] i = BackLogs /\ f[i - 1] = NoLog -> f[i]
                    [] OTHER -> f[i - 1]) \in Log
      BY <2>1, Constants
    <2> QED BY <2>2 DEF Rotated, f
  <1>4. ASSUME NEW line \in Packet, NEW sync \in BOOLEAN
        PROVE  Logged(line, sync) \in [0..BackLogs -> Log]
    <2> DEFINE new == Appended(logs[0].lines, line)
    <2>1. new \in Seq(Packet)
      BY <1>1 DEF Appended
    <2> HIDE DEF new
    <2>2. [lines |-> new, sync |-> IF sync THEN Len(new) ELSE logs[0].sync] \in Log
      BY <1>1, <2>1 DEF Log
    <2> QED BY <1>1, <2>2 DEF Logged, new
  <1> QED BY <1>2, <1>3, <1>4

\* Metadata files of a given content.
LEMMA FileType ==
  ASSUME TypeOK, NEW h \in Metadata, NEW ok \in BOOLEAN,
         NEW own \in {"absent", "none", "saver", "orphan"}
  PROVE  File(h, ok, own) \in MetaFile
  BY DEF File, MetaFile

LEMMA SaverType ==
  ASSUME NEW s \in Saver, NEW st \in Steps
  PROVE  At(s, st) \in Saver /\ Longer(s) \in Saver
  BY DEF At, Longer, Saver

LEMMA StartedType ==
  ASSUME NEW h \in Metadata, NEW fg \in BOOLEAN
  PROVE  Started(h, fg) \in Saver
  BY DEF Started, Saver, Steps

LEMMA AbandonedType ==
  ASSUME NEW d \in [Name -> MetaFile], NEW w
  PROVE  Abandoned(d, w) \in [Name -> MetaFile]
  <1>1. ASSUME NEW n \in Name
        PROVE  (IF d[n].own = w THEN File(d[n].h, d[n].ok, "none") ELSE d[n]) \in MetaFile
    BY DEF File, MetaFile
  <1> QED BY <1>1 DEF Abandoned

\* The steps of a save.
LEMMA StoreTypes ==
  ASSUME TypeOK, NEW w \in Writer, Store(w)
  PROVE  TypeOK'
  <1> USE Constants
  <1>1. Of(w) \in Saver
    BY DEF TypeOK, Of
  <1>2. Of(w).h \in Metadata
    BY <1>1 DEF Saver
  <1>3. ASSUME NEW st \in Steps, Becomes(w, st) PROVE saver' \in Saver /\ orphan' \in Saver
    BY <1>3, SaverType, Zenon DEF TypeOK, Becomes
  <1>4. {"opened", "written", "kept", "renamed", "done", "failed"} \subseteq Steps
    BY DEF Steps
  <1>5. UnchangedBySave => UNCHANGED <<run, life, hist, queue, bg, logs>>
    BY DEF UnchangedBySave
  <1>6. {"mfs", "back", "back1", "tmp", "emergency"} \subseteq Name
    BY DEF Name
  <1>7. File(Of(w).h, FALSE, w) \in MetaFile /\ File(Of(w).h, TRUE, "none") \in MetaFile
    BY <1>2, FileType, Zenon DEF Writer
  <1>8. \A n \in Name : dir[n] \in MetaFile /\ dir[n].h \in Metadata /\ dir[n].ok \in BOOLEAN
    BY DEF TypeOK, MetaFile
  <1>9. CASE StoreOpen(w)
    BY <1>9, <1>3, <1>4, <1>5, <1>6, <1>7, Zenon DEF StoreOpen, TypeOK
  <1>10. CASE StoreWrite(w)
    <2>1. \A n \in Name : File(dir[n].h, TRUE, w) \in MetaFile
      BY <1>8, FileType, Zenon DEF Writer
    <2>2. dir' \in [Name -> MetaFile]
      BY <1>10, <1>8, <2>1, Zenon DEF StoreWrite
    <2> QED BY <1>10, <1>3, <1>4, <1>5, <2>2, Zenon DEF StoreWrite, TypeOK
  <1>11. CASE StoreFailed(w)
    <2>1. dir' \in [Name -> MetaFile]
      BY <1>11, <1>6, <1>7, <1>8, Zenon DEF StoreFailed, TypeOK
    <2> QED BY <1>11, <1>3, <1>4, <1>5, <2>1, Zenon DEF StoreFailed, TypeOK
  <1>12. CASE StoreKeep(w)
    BY <1>12, <1>3, <1>4, <1>5, <1>6, <1>8 DEF StoreKeep, TypeOK
  <1>13. CASE StoreRename(w)
    BY <1>13, <1>3, <1>4, <1>5, <1>6, <1>8 DEF StoreRename, TypeOK
  <1>14. CASE StoreUnlink(w)
    <2>1. \A n \in Name : File(dir[n].h, dir[n].ok, "none") \in MetaFile
      BY <1>8, FileType
    <2>2. dir' \in [Name -> MetaFile]
      BY <1>14, <1>8, <2>1 DEF StoreUnlink
    <2> QED BY <1>14, <1>3, <1>4, <1>5, <2>2 DEF StoreUnlink, TypeOK
  <1> QED BY <1>9, <1>10, <1>11, <1>12, <1>13, <1>14 DEF Store

\* Changes, the background writer and the hourly task.
LEMMA RunningTypes ==
  ASSUME TypeOK,
         changelog \/ bgsaver_worker \/ bgsaver_hup \/ meta_store_task \/ meta_storeended
  PROVE  TypeOK'
  <1> USE Constants
  <1>0. ROTATELOG \in Packet /\ TERMINATE \in Packet
    BY DEF Packet
  <1>1. CASE changelog
    <2>1. hist' \in Metadata /\ Len(hist') \in 0..MaxVersion
      BY <1>1 DEF changelog, TypeOK, Metadata
    <2>2. Line(Len(hist')) \in Packet
      BY <2>1 DEF Line, TypeOK, Packet
    <2>3. logs' \in [0..BackLogs -> Log]
      <3>1. CASE mode = "BACKGROUND"
        BY <1>1, <3>1 DEF changelog, TypeOK
      <3>2. CASE mode # "BACKGROUND"
        <4>1. logs' = Logged(Line(Len(hist')), mode = "SYNC")
          BY <1>1, <3>2 DEF changelog
        <4> QED BY <4>1, <2>2, LogsType, Zenon
      <3> QED BY <3>1, <3>2
    <2>4. queue' \in Seq(Packet)
      <3>1. queue' = queue \/ queue' = Append(queue, Line(Len(hist')))
        BY <1>1 DEF changelog
      <3>2. queue \in Seq(Packet)
        BY DEF TypeOK
      <3> QED BY <3>1, <3>2, <2>2
    <2> QED BY <1>1, <2>1, <2>3, <2>4 DEF changelog, TypeOK
  <1>2. CASE bgsaver_worker
    <2>1. queue \in Seq(Packet) /\ queue # << >>
      BY <1>2 DEF bgsaver_worker, TypeOK
    <2>2. Head(queue) \in Packet /\ Tail(queue) \in Seq(Packet)
      BY <2>1
    <2>3. CASE Head(queue) = TERMINATE
      <3>1. bg' = "none" /\ queue' = << >> /\ (logs' = Synced \/ logs' = logs)
        BY <1>2, <2>3, Packets, Zenon DEF bgsaver_worker
      <3>2. logs' \in [0..BackLogs -> Log]
        BY <3>1, LogsType DEF TypeOK
      <3> QED BY <1>2, <3>1, <3>2 DEF bgsaver_worker, TypeOK
    <2>4. CASE Head(queue) # TERMINATE /\ Head(queue) = ROTATELOG
      <3>1. bg' = "idle" /\ queue' = Tail(queue) /\ logs' = Rotated(bg = "open")
        BY <1>2, <2>4 DEF bgsaver_worker
      <3>2. logs' \in [0..BackLogs -> Log]
        BY <3>1, LogsType
      <3> QED BY <1>2, <2>2, <3>1, <3>2 DEF bgsaver_worker, TypeOK
    <2>5. CASE Head(queue) # TERMINATE /\ Head(queue) # ROTATELOG
      <3>1. bg' = "open" /\ queue' = Tail(queue) /\ logs' = Logged(Head(queue), FALSE)
        BY <1>2, <2>5, Zenon DEF bgsaver_worker
      <3>2. logs' \in [0..BackLogs -> Log]
        BY <2>2, <3>1, LogsType
      <3> QED BY <1>2, <2>2, <3>1, <3>2 DEF bgsaver_worker, TypeOK
    <2> QED BY <2>3, <2>4, <2>5
  <1>3. CASE bgsaver_hup
    BY <1>3 DEF bgsaver_hup, TypeOK
  <1>4. CASE meta_store_task
    <2>1. queue' \in Seq(Packet)
      <3>1. queue' = queue \/ queue' = Append(queue, ROTATELOG)
        BY <1>4 DEF meta_store_task
      <3>2. queue \in Seq(Packet)
        BY DEF TypeOK
      <3> QED BY <3>1, <3>2, <1>0
    <2>2. logs' \in [0..BackLogs -> Log]
      <3>1. CASE logs' = logs
        BY <3>1 DEF TypeOK
      <3>2. CASE RotateHere
        BY <3>2, LogsType DEF RotateHere
      <3> QED BY <1>4, <3>1, <3>2 DEF meta_store_task
    <2>3. Longer(saver) \in Saver /\ Started(hist, FALSE) \in Saver /\ saver \in Saver
      BY SaverType, StartedType DEF TypeOK, Steps
    <2>4. saver' \in Saver
      BY <1>4, <2>3, Zenon DEF meta_store_task
    <2>5. run' \in {run, "mayexit"}
      BY <1>4, Zenon DEF meta_store_task
    <2> QED BY <1>4, <2>1, <2>2, <2>4, <2>5 DEF meta_store_task, TypeOK
  <1>5. CASE meta_storeended
    <2>1. dir' \in [Name -> MetaFile]
      BY <1>5, Zenon DEF meta_storeended, TypeOK
    <2> QED BY <1>5, <2>1 DEF meta_storeended, TypeOK
  <1> QED BY <1>1, <1>2, <1>3, <1>4, <1>5

\* Stopping.
LEMMA StoppingTypes ==
  ASSUME TypeOK,
         main_exit \/ meta_mayexit \/ bgsaver_termcheck \/ meta_term \/ StoreHereEnded \/ Killed
           \/ HostStops
  PROVE  TypeOK'
  <1> USE Constants
  <1>0. ROTATELOG \in Packet /\ TERMINATE \in Packet
    BY DEF Packet
  <1>1. CASE main_exit
    BY <1>1 DEF main_exit, TypeOK
  <1>2. CASE meta_mayexit
    <2>1. At(saver, "killed") \in Saver /\ Abandoned(dir, "saver") \in [Name -> MetaFile]
      BY SaverType, AbandonedType DEF TypeOK, Steps
    <2>2. CASE saver = Idle
      <3>1. run' = "canexit" /\ saver' = saver /\ dir' = dir
        <4>1. saver.st = "none"
          BY <2>2 DEF Idle
        <4> QED BY <1>2, <2>2, <4>1 DEF meta_mayexit
      <3> QED BY <1>2, <3>1 DEF meta_mayexit, TypeOK
    <2>3. CASE saver # Idle
      BY <1>2, <2>1, <2>3 DEF meta_mayexit, TypeOK
    <2> QED BY <2>2, <2>3
  <1>3. CASE bgsaver_termcheck
    BY <1>3, <1>0 DEF bgsaver_termcheck, TypeOK
  <1>4. CASE meta_term
    <2>1. logs' \in [0..BackLogs -> Log]
      BY <1>4, LogsType, Zenon DEF meta_term, RotateHere
    <2>2. Started(hist, TRUE) \in Saver
      BY StartedType DEF TypeOK
    <2> QED BY <1>4, <2>1, <2>2, Zenon DEF meta_term, TypeOK
  <1>5. CASE StoreHereEnded
    <2>1. Started(hist, TRUE) \in Saver
      BY StartedType DEF TypeOK
    <2>2. dir' \in [Name -> MetaFile]
      BY <1>5, Zenon DEF StoreHereEnded, TypeOK, Name
    <2> QED BY <1>5, <2>1, <2>2, Zenon DEF StoreHereEnded, TypeOK
  <1>6. CASE Killed
    <2>1. queue' \in Seq(Packet)
      BY <1>6 DEF Killed, TypeOK
    <2>2. Abandoned(dir, "saver") \in [Name -> MetaFile]
      BY AbandonedType DEF TypeOK
    <2>3. \A n \in Name : File(dir[n].h, dir[n].ok, "orphan") \in MetaFile
      BY FileType DEF TypeOK, MetaFile
    <2>4. [n \in Name |-> IF dir[n].own = "saver" THEN File(dir[n].h, dir[n].ok, "orphan")
                          ELSE dir[n]] \in [Name -> MetaFile]
      BY <2>3 DEF TypeOK
    <2>5. dir' \in [Name -> MetaFile]
      BY <1>6, <2>2, <2>4 DEF Killed
    <2>6. orphan' \in Saver /\ saver' \in Saver
      BY <1>6 DEF Killed, TypeOK
    <2> QED BY <1>6, <2>1, <2>5, <2>6 DEF Killed, TypeOK
  <1>7. CASE HostStops
    <2>1. dir' \in [Name -> MetaFile]
      <3>1. Abandoned(dir, "saver") \in [Name -> MetaFile]
        BY AbandonedType DEF TypeOK
      <3> QED BY <1>7, <3>1, AbandonedType DEF HostStops
    <2>0. PICK k \in 0..BackLogs :
            \E n \in logs[k].sync..Len(logs[k].lines) : \E l \in Cut(k, n) :
              logs' = [i \in 0..BackLogs |->
                         CASE i < k -> NoLog
                           [] i = k -> [lines |-> l, sync |-> Len(l)]
                           [] OTHER -> logs[i]]
      BY <1>7 DEF HostStops
    <2>2. PICK n \in logs[k].sync..Len(logs[k].lines) : \E l \in Cut(k, n) :
            logs' = [i \in 0..BackLogs |->
                       CASE i < k -> NoLog
                         [] i = k -> [lines |-> l, sync |-> Len(l)]
                         [] OTHER -> logs[i]]
      BY <2>0
    <2>3. logs[k] \in Log /\ logs[k].lines \in Seq(Packet) /\ logs[k].sync \in Nat
      BY DEF TypeOK, Log
    <2>4. n \in 0..Len(logs[k].lines)
      BY <2>3
    <2>5. ASSUME NEW l \in Cut(k, n) PROVE l \in Seq(Packet)
      <3>1. SubSeq(logs[k].lines, 1, n) \in Seq(Packet)
        BY <2>3, <2>4
      <3>2. n < Len(logs[k].lines) =>
              <<[v |-> logs[k].lines[n + 1].v, id |-> 0]>> \in Seq(Packet)
        <4> SUFFICES ASSUME n < Len(logs[k].lines)
                     PROVE  [v |-> logs[k].lines[n + 1].v, id |-> 0] \in Packet
          OBVIOUS
        <4>1. logs[k].lines[n + 1] \in Packet
          BY <2>3, <2>4
        <4> QED BY <4>1 DEF Packet
      <3>3. PICK t \in Seq(Packet) : l = SubSeq(logs[k].lines, 1, n) \o t
        <4> DEFINE torn == IF n < Len(logs[k].lines)
                           THEN {<<[v |-> logs[k].lines[n + 1].v, id |-> 0]>>} ELSE {}
        <4>1. torn \subseteq Seq(Packet)
          BY <3>2, Zenon
        <4>2. ({<< >>} \cup (IF "torn" \in Cases THEN torn ELSE {})) \subseteq Seq(Packet)
          <5>1. << >> \in Seq(Packet)
            OBVIOUS
          <5> HIDE DEF torn
          <5> QED BY <4>1, <5>1, Zenon
        <4> QED BY <4>2 DEF Cut
      <3> QED BY <3>1, <3>3
    <2>6. logs' \in [0..BackLogs -> Log]
      <3>1. PICK l \in Cut(k, n) :
              logs' = [i \in 0..BackLogs |->
                         CASE i < k -> NoLog
                           [] i = k -> [lines |-> l, sync |-> Len(l)]
                           [] OTHER -> logs[i]]
        BY <2>2
      <3>2. [lines |-> l, sync |-> Len(l)] \in Log
        BY <2>5 DEF Log
      <3>3. \A i \in 0..BackLogs : (CASE i < k -> NoLog
                                      [] i = k -> [lines |-> l, sync |-> Len(l)]
                                      [] OTHER -> logs[i]) \in Log
        BY <3>2 DEF TypeOK
      <3> QED BY <3>1, <3>3
    <2>7. /\ run' = "down" /\ queue' = << >> /\ bg' = "none" /\ saver' = Idle /\ orphan' = Idle
          /\ UNCHANGED <<mode, life, hist, unsaved, faults>>
      BY <1>7, Zenon DEF HostStops
    <2> QED BY <2>1, <2>6, <2>7 DEF TypeOK
  <1> QED BY <1>1, <1>2, <1>3, <1>4, <1>5, <1>6, <1>7

\* Starting.
LEMMA StartingTypes ==
  ASSUME TypeOK, meta_init \/ meta_init_a \/ meta_restore
  PROVE  TypeOK'
  <1> USE Constants
  <1>0. \A n \in Name : dir[n] \in MetaFile /\ dir[n].h \in Metadata
    BY DEF TypeOK, MetaFile
  <1>1. AfterRestore \in [Name -> MetaFile]
    BY <1>0 DEF AfterRestore, TypeOK, Name
  <1>2. Launched => /\ run' \in {"up"} /\ life' \in Nat /\ bg' \in {"idle"} /\ queue' \in Seq(Packet)
                    /\ UNCHANGED <<saver, orphan, logs>>
    BY DEF Launched, TypeOK
  <1>3. CASE meta_init
    BY <1>3, <1>0, <1>2, Zenon DEF meta_init, TypeOK, Name
  <1>4. CASE meta_init_a
    BY <1>4, <1>1, <1>2, LoadedType DEF meta_init_a, TypeOK
  <1>5. CASE meta_restore
    <2>1. hist' \in Metadata
      BY <1>5, LoadedType DEF meta_restore
    <2>2. Started(hist', TRUE) \in Saver
      BY <2>1, StartedType, Zenon
    <2> QED BY <1>5, <1>1, <2>1, <2>2, Zenon DEF meta_restore, TypeOK
  <1> QED BY <1>3, <1>4, <1>5

\* Every step keeps the types: the numbers of changes stay within their bound in
\* memory, in the changelogs and in the metadata files.
LEMMA TypeCorrect == Spec => []TypeOK
  <1>1. Init => TypeOK
    <2> SUFFICES ASSUME Init PROVE TypeOK
      OBVIOUS
    <2>1. File(<< >>, TRUE, "none") \in MetaFile
      BY Constants DEF File, MetaFile
    <2>2. dir \in [Name -> MetaFile]
      BY <2>1, Constants, Zenon DEF Init
    <2>3. logs \in [0..BackLogs -> Log]
      BY Constants DEF Init
    <2>4. queue \in Seq(Packet) /\ hist \in Metadata /\ saver \in Saver /\ orphan \in Saver
      BY Constants DEF Init
    <2> QED BY <2>2, <2>3, <2>4, Zenon DEF Init, TypeOK
  <1>2. TypeOK /\ [Next]_vars => TypeOK'
    <2> SUFFICES ASSUME TypeOK, [Next]_vars PROVE TypeOK'
      OBVIOUS
    <2>1. CASE UNCHANGED vars
      BY <2>1 DEF vars, TypeOK
    <2>2. CASE Next
      BY <2>2, StoreTypes, RunningTypes, StoppingTypes, StartingTypes DEF Next
    <2> QED BY <2>1, <2>2
  <1> QED BY <1>1, <1>2, PTL DEF Spec

(***************************************************************************)
(* A plain start.                                                          *)
(*                                                                         *)
(* metadata.mfs is the mark of an orderly stop: there is none while the    *)
(* master runs, and the only step that makes one is the end of the save in *)
(* meta_term or meta_restore, which nothing else disturbs.  That rests on  *)
(* the order of the exit: the background writer is gone before meta_term,  *)
(* a saver whose master was killed keeps the writer alive, and so neither  *)
(* a start nor meta_term happens beside such a saver.                      *)
(***************************************************************************)
\* The background writer and the order of the exit.
WriterInv ==
  /\ bg = "none" => queue = << >>
  /\ run \in {"up", "mayexit"} => bg # "none" /\ TERMINATE \notin ToSet(queue)
  /\ run \in {"term", "restore"} => bg = "none"

\* The savers: none that is left over, none beside the save of the exit.
SaversInv ==
  /\ orphan # Idle => run = "down" /\ bg # "none" /\ TERMINATE \notin ToSet(queue)
  /\ run \in {"canexit", "down"} => saver = Idle
  /\ run \in {"term", "restore"} <=> saver.fg

\* The save of the exit: what is written, renamed and will be metadata.mfs.
ExitSaveInv ==
  /\ saver.fg => saver.h = hist
  /\ saver.fg /\ saver.st \in {"opened", "written", "kept"} =>
       Exists("tmp") /\ dir["tmp"].own = "saver" /\ dir["tmp"].h = hist
  /\ saver.fg /\ saver.st \in {"renamed", "done"} => Exists("back") /\ dir["back"].h = hist

\* metadata.mfs.
MarkInv == dir["mfs"] = NoFile \/ (run = "down" /\ orphan = Idle /\ dir["mfs"].h = hist)

PlainInv == WriterInv /\ SaversInv /\ ExitSaveInv /\ MarkInv

\* Queues.
LEMMA QueueSets ==
  ASSUME NEW q \in Seq(Packet), NEW p \in Packet
  PROVE  /\ ToSet(Append(q, p)) = ToSet(q) \cup {p}
         /\ q # << >> => ToSet(Tail(q)) \subseteq ToSet(q) /\ Head(q) \in ToSet(q)
         /\ \A n \in 0..Len(q) : ToSet(SubSeq(q, 1, n)) \subseteq ToSet(q)
         /\ ToSet(<< >>) = {}
  <1>1. ToSet(Append(q, p)) = ToSet(q) \cup {p}
    <2>1. Len(Append(q, p)) = Len(q) + 1 /\ DOMAIN Append(q, p) = 1..Len(q) + 1
      OBVIOUS
    <2>2. Append(q, p)[Len(q) + 1] = p /\ \A i \in 1..Len(q) : Append(q, p)[i] = q[i]
      OBVIOUS
    <2>3. ASSUME NEW x \in ToSet(q) PROVE x \in ToSet(Append(q, p))
      BY <2>1, <2>2 DEF ToSet
    <2>4. p \in ToSet(Append(q, p))
      BY <2>1, <2>2 DEF ToSet
    <2>5. ASSUME NEW x \in ToSet(Append(q, p)) PROVE x \in ToSet(q) \cup {p}
      <3>1. PICK i \in 1..Len(q) + 1 : x = Append(q, p)[i]
        BY <2>1 DEF ToSet
      <3>2. CASE i = Len(q) + 1
        BY <3>1, <3>2, <2>2
      <3>3. CASE i \in 1..Len(q)
        BY <3>1, <3>3, <2>2 DEF ToSet
      <3> QED BY <3>2, <3>3
    <2> QED BY <2>3, <2>4, <2>5
  <1>2. q # << >> => ToSet(Tail(q)) \subseteq ToSet(q) /\ Head(q) \in ToSet(q)
    BY DEF ToSet
  <1>3. \A n \in 0..Len(q) : ToSet(SubSeq(q, 1, n)) \subseteq ToSet(q)
    BY DEF ToSet
  <1>4. ToSet(<< >>) = {}
    BY DEF ToSet
  <1> QED BY <1>1, <1>2, <1>3, <1>4

LEMMA InitPlain == Init => PlainInv
  <1> SUFFICES ASSUME Init PROVE PlainInv
    OBVIOUS
  <1>1. WriterInv /\ SaversInv /\ ExitSaveInv
    BY DEF Init, WriterInv, SaversInv, ExitSaveInv, Idle
  <1>2. dir["mfs"].h = << >>
    BY DEF Init, File, Name
  <1> QED BY <1>1, <1>2, Zenon DEF Init, PlainInv, MarkInv

\* A save does not make metadata.mfs.
LEMMA StoreNoMark ==
  ASSUME TypeOK, NEW w \in Writer, Store(w), dir["mfs"] = NoFile
  PROVE  dir'["mfs"] = NoFile
  <1>1. NoFile.own # w
    BY DEF NoFile, Writer
  <1>2. dir \in [Name -> MetaFile] /\ "mfs" \in Name
    BY DEF TypeOK, Name
  <1>3. CASE StoreOpen(w)
    BY <1>2, <1>3 DEF StoreOpen
  <1>4. CASE StoreWrite(w)
    BY <1>1, <1>2, <1>4, Zenon DEF StoreWrite
  <1>5. CASE StoreFailed(w)
    BY <1>2, <1>5 DEF StoreFailed
  <1>6. CASE StoreKeep(w)
    BY <1>2, <1>6 DEF StoreKeep
  <1>7. CASE StoreRename(w)
    BY <1>2, <1>7 DEF StoreRename
  <1>8. CASE StoreUnlink(w)
    BY <1>2, <1>8 DEF StoreUnlink
  <1> QED BY <1>3, <1>4, <1>5, <1>6, <1>7, <1>8 DEF Store

\* The save of the exit goes through its stages undisturbed.
LEMMA ExitSaveStep ==
  ASSUME TypeOK, ExitSaveInv, Store("saver"), saver.fg, hist' = hist
  PROVE  ExitSaveInv'
  <1>1. dir \in [Name -> MetaFile] /\ "tmp" \in Name /\ "back" \in Name
    BY DEF TypeOK, Name
  <1>2. saver.h = hist /\ Of("saver") = saver
    BY DEF ExitSaveInv, Of
  <1>3. ASSUME NEW st, Becomes("saver", st)
        PROVE  saver'.fg = saver.fg /\ saver'.h = hist' /\ saver'.st = st
    <2>1. saver' = At(saver, st)
      BY <1>3 DEF Becomes
    <2> QED BY <1>2, <2>1 DEF At
  <1>4. \A n \in Name : File(hist, FALSE, "saver").h = hist /\ File(hist, FALSE, "saver").own = "saver"
          /\ File(dir[n].h, TRUE, "saver").h = dir[n].h /\ File(dir[n].h, TRUE, "saver").own = "saver"
          /\ File(dir[n].h, dir[n].ok, "none").h = dir[n].h
          /\ File(dir[n].h, dir[n].ok, "none").own = "none"
    BY DEF File
  <1>5. CASE StoreOpen("saver")
    <2>1. saver'.st = "opened" /\ saver'.h = hist' /\ dir' = [dir EXCEPT !["tmp"] = File(hist, FALSE, "saver")]
      BY <1>2, <1>3, <1>5, Zenon DEF StoreOpen
    <2> QED BY <1>1, <1>4, <2>1, Zenon DEF ExitSaveInv, Exists
  <1>6. CASE StoreWrite("saver")
    <2>1. saver.st = "opened" /\ saver'.st = "written" /\ saver'.h = hist'
          /\ dir'["tmp"] = File(dir["tmp"].h, TRUE, "saver")
      BY <1>1, <1>2, <1>3, <1>6, Zenon DEF StoreWrite, ExitSaveInv
    <2> QED BY <1>1, <1>4, <2>1, Zenon DEF ExitSaveInv, Exists
  <1>7. CASE StoreFailed("saver")
    <2>1. saver'.st = "failed" /\ saver'.h = hist'
      BY <1>3, <1>7, Zenon DEF StoreFailed
    <2> QED BY <2>1 DEF ExitSaveInv
  <1>8. CASE StoreKeep("saver")
    <2>1. saver.st = "written" /\ saver'.st = "kept" /\ saver'.h = hist' /\ dir'["tmp"] = dir["tmp"]
      BY <1>1, <1>2, <1>3, <1>8, Zenon DEF StoreKeep
    <2> QED BY <2>1 DEF ExitSaveInv, Exists
  <1>9. CASE StoreRename("saver")
    <2>1. saver.st = "kept" /\ saver'.st = "renamed" /\ saver'.h = hist' /\ dir'["back"] = dir["tmp"]
      BY <1>1, <1>2, <1>3, <1>9, Zenon DEF StoreRename, ExitSaveInv
    <2> QED BY <2>1 DEF ExitSaveInv, Exists
  <1>10. CASE StoreUnlink("saver")
    <2>1. saver.st = "renamed" /\ saver'.st = "done" /\ saver'.h = hist'
          /\ dir'["back"] \in {dir["back"], File(dir["back"].h, dir["back"].ok, "none")}
      BY <1>1, <1>2, <1>3, <1>10, Zenon DEF StoreUnlink
    <2> QED BY <1>1, <1>4, <2>1, Zenon DEF ExitSaveInv, Exists
  <1> QED BY <1>5, <1>6, <1>7, <1>8, <1>9, <1>10 DEF Store

\* A step of any save.
LEMMA StorePlain ==
  ASSUME TypeOK, PlainInv, NEW w \in Writer, Store(w)
  PROVE  PlainInv'
  <1>1. UNCHANGED <<run, hist, queue, bg>>
    BY Zenon DEF Store, StoreOpen, StoreWrite, StoreFailed, StoreKeep, StoreRename, StoreUnlink,
           UnchangedBySave
  <1>2. Of(w).st \in {"forked", "opened", "written", "kept", "renamed"}
    BY Zenon DEF Store, StoreOpen, StoreWrite, StoreFailed, StoreKeep, StoreRename, StoreUnlink
  <1>3. Idle.st = "none" /\ Idle.fg = FALSE
    BY DEF Idle
  <1>4. PICK st \in Steps : Becomes(w, st)
    BY Zenon DEF Store, StoreOpen, StoreWrite, StoreFailed, StoreKeep, StoreRename, StoreUnlink, Steps
  <1>5. WriterInv'
    BY <1>1 DEF PlainInv, WriterInv, TERMINATE
  <1>6. CASE w = "saver"
    <2>1. saver' = At(saver, st) /\ orphan' = orphan /\ Of(w) = saver
      BY <1>4, <1>6 DEF Becomes, Of
    <2>2. saver'.fg = saver.fg /\ saver'.h = saver.h /\ saver'.st = st
      BY <2>1 DEF At
    <2>3. saver # Idle /\ run \notin {"canexit", "down"}
      BY <1>2, <1>3, <2>1 DEF PlainInv, SaversInv
    <2>4. orphan = Idle /\ orphan' = Idle
      BY <2>1, <2>3 DEF PlainInv, SaversInv
    <2>5. SaversInv'
      BY <1>1, <2>2, <2>3, <2>4 DEF PlainInv, SaversInv
    <2>6. dir'["mfs"] = NoFile
      BY <2>3, StoreNoMark DEF PlainInv, MarkInv
    <2>7. ExitSaveInv'
      <3>1. CASE saver.fg
        BY <1>1, <1>6, <3>1, ExitSaveStep DEF PlainInv
      <3>2. CASE ~saver.fg
        BY <2>2, <3>2 DEF ExitSaveInv
      <3> QED BY <3>1, <3>2
    <2> QED BY <1>5, <2>5, <2>6, <2>7 DEF PlainInv, MarkInv
  <1>7. CASE w = "orphan"
    <2>1. saver' = saver /\ Of(w) = orphan /\ orphan # Idle
      BY <1>2, <1>3, <1>4, <1>7 DEF Becomes, Of
    <2>2. run = "down" /\ bg # "none" /\ TERMINATE \notin ToSet(queue) /\ saver = Idle
      BY <2>1 DEF PlainInv, SaversInv
    <2>3. dir'["mfs"] = NoFile
      BY <2>1, StoreNoMark DEF PlainInv, MarkInv
    <2>4. SaversInv'
      BY <1>1, <1>3, <2>1, <2>2 DEF SaversInv, TERMINATE
    <2>5. ExitSaveInv'
      BY <1>3, <2>1, <2>2 DEF ExitSaveInv
    <2> QED BY <1>5, <2>3, <2>4, <2>5 DEF PlainInv, MarkInv
  <1> QED BY <1>6, <1>7 DEF Writer

\* Changes, the background writer and the hourly task.
LEMMA RunningPlain ==
  ASSUME ~LateStore, TypeOK, PlainInv,
         changelog \/ bgsaver_worker \/ bgsaver_hup \/ meta_store_task \/ meta_storeended
  PROVE  PlainInv'
  <1> USE DEF PlainInv
  <1>0. /\ queue \in Seq(Packet) /\ ROTATELOG \in Packet /\ TERMINATE \in Packet
        /\ Idle.fg = FALSE /\ Idle.st = "none" /\ ToSet(<< >>) = {}
    BY Constants DEF TypeOK, Packet, Idle, ToSet
  <1>1. CASE changelog
    <2>1. /\ run \in {"up", "mayexit", "canexit"} /\ ~saver.fg /\ orphan = Idle /\ dir["mfs"] = NoFile
          /\ UNCHANGED <<run, bg, saver, orphan, dir>>
      BY <1>1 DEF changelog, SaversInv, MarkInv
    <2>2. Len(hist') \in Nat /\ Len(hist') > 0 /\ Line(Len(hist')) \in Packet
      BY <1>1, Constants DEF changelog, TypeOK, Metadata, Line, Packet
    <2>3. Line(Len(hist')) # TERMINATE
      BY <2>2, Packets
    <2>4. \/ queue' = queue
          \/ bg # "none" /\ queue' = Append(queue, Line(Len(hist')))
      BY <1>1 DEF changelog
    <2>5. ToSet(queue') \subseteq ToSet(queue) \cup {Line(Len(hist'))}
      <3>1. ToSet(Append(queue, Line(Len(hist')))) = ToSet(queue) \cup {Line(Len(hist'))}
        BY <1>0, <2>2, QueueSets
      <3> QED BY <2>4, <3>1, Zenon
    <2>6. WriterInv'
      BY <2>1, <2>3, <2>4, <2>5 DEF WriterInv, TERMINATE
    <2> QED BY <2>1, <2>6 DEF SaversInv, ExitSaveInv, MarkInv
  <1>2. CASE bgsaver_worker
    <2>1. queue # << >> /\ bg # "none" /\ UNCHANGED <<run, hist, saver, orphan, dir>>
      BY <1>2 DEF bgsaver_worker
    <2>2. Head(queue) \in ToSet(queue) /\ ToSet(Tail(queue)) \subseteq ToSet(queue)
      BY <1>0, <2>1, QueueSets
    <2>3. ExitSaveInv' /\ MarkInv'
      BY <2>1 DEF ExitSaveInv, MarkInv, Exists
    <2>4. CASE Head(queue) = TERMINATE
      <3>1. bg' = "none" /\ queue' = << >>
        BY <1>2, <2>4, Packets, Zenon DEF bgsaver_worker
      <3>2. run \notin {"up", "mayexit"} /\ orphan = Idle
        BY <2>2, <2>4 DEF WriterInv, SaversInv
      <3> QED BY <2>1, <2>3, <3>1, <3>2 DEF WriterInv, SaversInv
    <2>5. CASE Head(queue) # TERMINATE
      <3>1. bg' # "none" /\ queue' = Tail(queue)
        BY <1>2, <2>5, Zenon DEF bgsaver_worker
      <3> QED BY <2>1, <2>2, <2>3, <3>1 DEF WriterInv, SaversInv, TERMINATE
    <2> QED BY <2>4, <2>5
  <1>3. CASE bgsaver_hup
    BY <1>0, <1>3 DEF bgsaver_hup, WriterInv, SaversInv, ExitSaveInv, MarkInv, Exists
  <1>4. CASE meta_store_task
    <2>1. /\ run = "up" /\ run' \in {"up", "mayexit"} /\ ~saver.fg /\ bg' = bg /\ bg # "none"
          /\ orphan' = orphan /\ orphan = Idle /\ dir' = dir /\ dir["mfs"] = NoFile
      BY <1>4, Zenon DEF meta_store_task, WriterInv, SaversInv, MarkInv
    <2>2. saver' \in {Longer(saver), saver, Started(hist, FALSE)}
      BY <1>4, Zenon DEF meta_store_task
    <2>3. ~saver'.fg
      BY <2>1, <2>2 DEF Longer, Started
    <2>4. queue' = queue \/ queue' = Append(queue, ROTATELOG)
      BY <1>4 DEF meta_store_task
    <2>5. ToSet(queue') \subseteq ToSet(queue) \cup {ROTATELOG}
      <3>1. ToSet(Append(queue, ROTATELOG)) = ToSet(queue) \cup {ROTATELOG}
        BY <1>0, QueueSets
      <3> QED BY <2>4, <3>1, Zenon
    <2>6. TERMINATE \notin ToSet(queue')
      BY <2>1, <2>5, Packets DEF WriterInv
    <2> QED BY <2>1, <2>3, <2>6 DEF WriterInv, SaversInv, ExitSaveInv, MarkInv, TERMINATE
  <1>5. CASE meta_storeended
    <2>1. /\ run \in {"up", "mayexit", "canexit"} /\ saver' = Idle
          /\ (run' = run \/ (run = "up" /\ run' = "mayexit"))
          /\ UNCHANGED <<queue, bg, orphan>>
      BY <1>5 DEF meta_storeended
    <2>2. dir'["mfs"] = NoFile /\ orphan = Idle
      BY <1>5, <2>1 DEF meta_storeended, MarkInv, SaversInv, TypeOK, Name
    <2> QED BY <1>0, <2>1, <2>2 DEF WriterInv, SaversInv, ExitSaveInv, MarkInv, TERMINATE
  <1> QED BY <1>1, <1>2, <1>3, <1>4, <1>5

\* A stop leaves metadata.mfs as it is.
LEMMA AbandonedMark ==
  ASSUME NEW d \in [Name -> MetaFile], NEW w \in Writer
  PROVE  /\ d["mfs"] = NoFile => Abandoned(d, w)["mfs"] = NoFile
         /\ Abandoned(d, w)["mfs"].h = d["mfs"].h
  <1>1. "mfs" \in Name /\ NoFile.own # w
    BY DEF Name, NoFile, Writer
  <1>2. Abandoned(d, w)["mfs"] = IF d["mfs"].own = w THEN File(d["mfs"].h, d["mfs"].ok, "none")
                                 ELSE d["mfs"]
    BY <1>1 DEF Abandoned
  <1>3. File(d["mfs"].h, d["mfs"].ok, "none").h = d["mfs"].h
    BY DEF File
  <1> QED BY <1>1, <1>2, <1>3

\* The exit.
LEMMA ExitPlain ==
  ASSUME TypeOK, PlainInv,
         main_exit \/ meta_mayexit \/ bgsaver_termcheck \/ meta_term \/ StoreHereEnded
  PROVE  PlainInv'
  <1> USE DEF PlainInv
  <1>0. /\ queue \in Seq(Packet) /\ dir \in [Name -> MetaFile] /\ "mfs" \in Name /\ "back" \in Name
        /\ Idle.fg = FALSE /\ Idle.st = "none"
    BY DEF TypeOK, Idle, Name
  <1>1. CASE main_exit
    BY <1>1, Zenon DEF main_exit, WriterInv, SaversInv, ExitSaveInv, MarkInv, Exists, TERMINATE
  <1>2. CASE meta_mayexit
    <2>1. /\ run = "mayexit" /\ ~saver.fg /\ orphan = Idle /\ dir["mfs"] = NoFile
          /\ UNCHANGED <<hist, queue, bg, orphan>>
      BY <1>2 DEF meta_mayexit, SaversInv, MarkInv
    <2>2. CASE saver = Idle
      <3>1. run' = "canexit" /\ saver' = saver /\ dir' = dir
        BY <1>0, <1>2, <2>2 DEF meta_mayexit
      <3> QED BY <2>1, <2>2, <3>1 DEF WriterInv, SaversInv, ExitSaveInv, MarkInv, TERMINATE
    <2>3. CASE saver # Idle
      <3>1. saver' = At(saver, "killed") /\ dir' = Abandoned(dir, "saver") /\ run' = run
        BY <1>2, <2>3 DEF meta_mayexit
      <3>2. ~saver'.fg
        BY <2>1, <3>1 DEF At
      <3>3. dir'["mfs"] = NoFile
        BY <1>0, <2>1, <3>1, AbandonedMark DEF Writer
      <3> QED BY <2>1, <3>1, <3>2, <3>3 DEF WriterInv, SaversInv, ExitSaveInv, MarkInv, TERMINATE
    <2> QED BY <2>2, <2>3
  <1>3. CASE bgsaver_termcheck
    <2>1. /\ run = "canexit" /\ bg # "none" /\ orphan = Idle
          /\ UNCHANGED <<run, hist, bg, saver, orphan, dir>>
      BY <1>3 DEF bgsaver_termcheck, SaversInv
    <2> QED BY <2>1 DEF WriterInv, SaversInv, ExitSaveInv, MarkInv, Exists
  <1>4. CASE meta_term
    <2>1. /\ run = "canexit" /\ run' = "term" /\ bg = "none" /\ saver = Idle /\ orphan = Idle
          /\ dir["mfs"] = NoFile /\ saver' = Started(hist, TRUE)
          /\ UNCHANGED <<hist, queue, bg, orphan, dir>>
      BY <1>4 DEF meta_term, SaversInv, MarkInv
    <2>2. saver'.fg /\ saver'.h = hist' /\ saver'.st = "forked"
      BY <2>1 DEF Started
    <2> QED BY <2>1, <2>2, Zenon DEF WriterInv, SaversInv, ExitSaveInv, MarkInv
  <1>5. CASE StoreHereEnded
    <2>1. /\ run \in {"term", "restore"} /\ saver.fg /\ saver.st \in {"done", "failed"}
          /\ bg = "none" /\ orphan = Idle /\ dir["mfs"] = NoFile /\ queue = << >>
          /\ UNCHANGED <<hist, queue, bg, orphan>>
      BY <1>5 DEF StoreHereEnded, WriterInv, SaversInv, MarkInv
    <2>2. CASE saver.st = "done"
      <3>1. Exists("back") /\ dir["back"].h = hist
        BY <2>1, <2>2 DEF ExitSaveInv
      <3>2. run' = "down" /\ saver' = Idle
            /\ dir' = [dir EXCEPT !["mfs"] = dir["back"], !["back"] = NoFile]
        BY <1>5, <2>2, <3>1 DEF StoreHereEnded
      <3>3. dir'["mfs"].h = hist'
        BY <1>0, <2>1, <3>1, <3>2
      <3> QED BY <1>0, <2>1, <3>2, <3>3 DEF WriterInv, SaversInv, ExitSaveInv, MarkInv
    <2>3. CASE saver.st = "failed"
      <3>1. /\ dir' = dir
            /\ \/ run' = "term" /\ saver' = Started(hist, TRUE)
               \/ run' = "down" /\ saver' = Idle
        BY <1>5, <2>1, <2>3, Zenon DEF StoreHereEnded
      <3>2. Started(hist, TRUE).fg /\ Started(hist, TRUE).h = hist /\ Started(hist, TRUE).st = "forked"
        BY DEF Started
      <3> QED BY <1>0, <2>1, <3>1, <3>2, Zenon DEF WriterInv, SaversInv, ExitSaveInv, MarkInv
    <2> QED BY <2>1, <2>2, <2>3
  <1> QED BY <1>1, <1>2, <1>3, <1>4, <1>5

\* A kill, a stop of the host, and the three ways to start.
LEMMA RestartPlain ==
  ASSUME TypeOK, PlainInv, Killed \/ HostStops \/ meta_init \/ meta_init_a \/ meta_restore
  PROVE  PlainInv'
  <1> USE DEF PlainInv
  <1>0. /\ queue \in Seq(Packet) /\ dir \in [Name -> MetaFile] /\ "mfs" \in Name /\ ToSet(<< >>) = {}
        /\ Idle.fg = FALSE /\ Idle.st = "none"
    BY DEF TypeOK, Idle, Name, ToSet
  <1>1. CASE Killed
    <2>1. /\ run # "down" /\ run' = "down" /\ saver' = Idle /\ orphan = Idle /\ dir["mfs"] = NoFile
          /\ UNCHANGED <<hist, bg>>
      BY <1>1 DEF Killed, SaversInv, MarkInv
    <2>2. ToSet(queue') \subseteq ToSet(queue) /\ (queue = << >> => queue' = << >>)
      <3>1. PICK n \in 0..Len(queue) : queue' = SubSeq(queue, 1, n)
        BY <1>1, Zenon DEF Killed
      <3>2. TERMINATE \in Packet
        BY Constants DEF Packet
      <3>3. ToSet(SubSeq(queue, 1, n)) \subseteq ToSet(queue)
        BY <1>0, <3>2, QueueSets
      <3>4. queue = << >> => SubSeq(queue, 1, n) = << >>
        BY <1>0
      <3> QED BY <3>1, <3>3, <3>4
    <2>3. CASE saver.fg \/ saver.st \in {"none", "done", "failed", "killed"}
      <3>1. dir' = Abandoned(dir, "saver") /\ orphan' = Idle
        BY <1>1, <2>1, <2>3 DEF Killed
      <3>2. dir'["mfs"] = NoFile
        BY <1>0, <2>1, <3>1, AbandonedMark DEF Writer
      <3> QED BY <1>0, <2>1, <2>2, <3>1, <3>2, Zenon DEF WriterInv, SaversInv, ExitSaveInv, MarkInv
    <2>4. CASE ~(saver.fg \/ saver.st \in {"none", "done", "failed", "killed"})
      <3>1. dir' = [n \in Name |-> IF dir[n].own = "saver" THEN File(dir[n].h, dir[n].ok, "orphan")
                                   ELSE dir[n]]
        BY <1>1, <2>4 DEF Killed
      <3>2. dir'["mfs"] = NoFile
        <4>1. dir["mfs"].own # "saver"
          BY <2>1 DEF NoFile
        <4> QED BY <1>0, <2>1, <3>1, <4>1
      <3>3. saver # Idle
        BY <1>0, <2>4
      <3>4. run \in {"up", "mayexit"}
        BY <2>1, <2>4, <3>3 DEF SaversInv, TypeOK
      <3>5. bg # "none" /\ TERMINATE \notin ToSet(queue')
        BY <2>2, <3>4 DEF WriterInv
      <3> QED BY <1>0, <2>1, <2>2, <3>2, <3>5 DEF WriterInv, SaversInv, ExitSaveInv, MarkInv, TERMINATE
    <2> QED BY <2>3, <2>4
  <1>2. CASE HostStops
    <2>1. /\ run' = "down" /\ queue' = << >> /\ bg' = "none" /\ saver' = Idle /\ orphan' = Idle
          /\ dir' = Abandoned(Abandoned(dir, "saver"), "orphan") /\ hist' = hist
      BY <1>2 DEF HostStops
    <2>2. /\ dir["mfs"] = NoFile => dir'["mfs"] = NoFile
          /\ dir'["mfs"].h = dir["mfs"].h
      <3>1. Abandoned(dir, "saver") \in [Name -> MetaFile]
        BY <1>0, AbandonedType
      <3> QED BY <1>0, <2>1, <3>1, AbandonedMark DEF Writer
    <2> QED BY <1>0, <2>1, <2>2 DEF WriterInv, SaversInv, ExitSaveInv, MarkInv
  <1>3. AfterRestore["mfs"] = NoFile
    BY <1>0 DEF AfterRestore
  <1>4. ASSUME run = "down", bg = "none" PROVE orphan = Idle /\ saver = Idle /\ queue = << >>
    BY <1>4 DEF WriterInv, SaversInv
  <1>5. CASE meta_init \/ meta_init_a
    <2>1. /\ run = "down" /\ bg = "none" /\ run' = "up" /\ bg' = "idle" /\ queue' = << >>
          /\ UNCHANGED <<saver, orphan>>
      BY <1>5 DEF meta_init, meta_init_a, Launched, bgsaver_init
    <2>2. dir'["mfs"] = NoFile
      BY <1>0, <1>3, <1>5 DEF meta_init, meta_init_a
    <2> QED BY <1>0, <1>4, <2>1, <2>2 DEF WriterInv, SaversInv, ExitSaveInv, MarkInv
  <1>6. CASE meta_restore
    <2>1. /\ run = "down" /\ bg = "none" /\ run' = "restore" /\ saver' = Started(hist', TRUE)
          /\ dir' = AfterRestore /\ UNCHANGED <<queue, bg, orphan>>
      BY <1>6 DEF meta_restore
    <2>2. saver'.fg /\ saver'.h = hist' /\ saver'.st = "forked"
      BY <2>1 DEF Started
    <2> QED BY <1>3, <1>4, <2>1, <2>2, Zenon DEF WriterInv, SaversInv, ExitSaveInv, MarkInv
  <1> QED BY <1>1, <1>2, <1>5, <1>6

\* The master can be started without -a only after it was stopped, or restored,
\* in an orderly way: metadata.mfs then holds every change, so that a plain start
\* (meta_loadall, the second branch) never drops changes silently.  For any number
\* of changelogs, changes, starts and failed writes, in every save mode, wherever
\* the master is killed or its host stops, whatever lines of the changelogs that
\* loses or cuts, provided the full hour does not come while the master exits.
THEOREM PlainStartCompleteAlways ==
  ASSUME ~LateStore
  PROVE  Spec => []PlainStartComplete
  <1>1. TypeOK /\ PlainInv /\ [Next]_vars => PlainInv'
    <2> SUFFICES ASSUME TypeOK, PlainInv, [Next]_vars PROVE PlainInv'
      OBVIOUS
    <2>1. CASE Next
      BY <2>1, StorePlain, RunningPlain, ExitPlain, RestartPlain DEF Next
    <2>2. CASE UNCHANGED vars
      BY <2>2 DEF vars, PlainInv, WriterInv, SaversInv, ExitSaveInv, MarkInv, Exists, TERMINATE
    <2> QED BY <2>1, <2>2
  <1>2. TypeOK /\ PlainInv => PlainStartComplete
    <2> SUFFICES ASSUME TypeOK, PlainInv, meta_check_metadatafile PROVE dir["mfs"].h = hist
      BY DEF PlainStartComplete
    <2>1. dir["mfs"] # NoFile
      BY DEF meta_check_metadatafile, NoFile
    <2> QED BY <2>1 DEF PlainInv, MarkInv
  <1> QED BY <1>1, <1>2, InitPlain, TypeCorrect, PTL DEF Spec
=============================================================================
