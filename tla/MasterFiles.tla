---------------------------- MODULE MasterFiles ----------------------------
(***************************************************************************)
(* How the master keeps its metadata on disk (mfsmaster: metadata.c,       *)
(* changelog.c, bgsaver.c, restore.c, merger.c; main loop in main.c).      *)
(*                                                                         *)
(* Four kinds of processes touch the data directory: the master itself, the*)
(* background writer (bgsaver) that appends the changelog lines it gets    *)
(* through a pipe, the metadata saver forked every hour, and, after the    *)
(* master was killed, a saver that outlived it (here `orphan').            *)
(***************************************************************************)
EXTENDS ChangelogReplay

CONSTANTS BackLogs,     \* BACK_LOGS
          SaveModes,    \* the values of CHANGELOG_SAVE_MODE considered
          StoreTimeout, \* hours a save may take (STORE_TIMEOUT)
          MaxVersion,   \* bound on the number of changes
          MaxStarts,    \* bound on the number of starts of the master
          MaxFaults,    \* bound on failed writes of a metadata file
          Cases,        \* what a stop may hit: "power": the whole host may stop;
                        \* "torn": that may cut a changelog line; "unrenamed": a
                        \* stop may come between the end of a save and the rename
                        \* of the file; "lag": it may lose lines of changes that
                        \* the metadata being saved already contains
          LateStore     \* TRUE: the full hour may come while the master exits

\* BACK_LOGS, 50 by default, is above the rotations one save may take.
ASSUME FilesAssumption ==
  /\ BackLogs \in Nat /\ StoreTimeout \in Nat /\ BackLogs > StoreTimeout
  /\ SaveModes \subseteq {"BACKGROUND", "ASYNC", "SYNC"}
  /\ MaxVersion \in Nat /\ MaxStarts \in Nat /\ MaxFaults \in Nat
  /\ Cases \subseteq {"power", "torn", "unrenamed", "lag"} /\ LateStore \in BOOLEAN

VARIABLES
  run,     \* the master: down, up, mayexit, canexit (t = 1, 2 in mainloop),
           \* term (meta_term) or restore (mfsmaster restore)
  mode,    \* ChangelogSaveMode
  life,    \* how many times the master was started
  hist,    \* its metadata; once it is down, what it was when it stopped
  queue,   \* packets for the background writer: lines, ROTATELOG, TERMINATE
  bg,      \* the background writer: none, idle, open (changelog.0 is open)
  saver,   \* the process (or, in meta_term, the call) that writes metadata
  orphan,  \* a saver whose master was killed
  unsaved, \* rotations of the logs since the newest saved metadata was current
  dir,     \* the metadata files by name
  logs,    \* the changelog files: logs[i] is changelog.i.mfs, its lines and
           \* how many of them have surely reached the disk
  faults   \* failed writes so far

vars == <<run, mode, life, hist, queue, bg, saver, orphan, unsaved, dir, logs,
          faults>>

Writer == {"saver", "orphan"}
Name   == {"mfs", "back", "back1", "tmp", "emergency", "other"}
NoFile == [h |-> << >>, ok |-> FALSE, own |-> "absent"]
File(h, ok, own) == [h |-> h, ok |-> ok, own |-> own]
NoLog  == [lines |-> << >>, sync |-> 0]
Idle   == [st |-> "none", h |-> << >>, fg |-> FALSE, hours |-> 0]
Started(h, fg) == [st |-> "forked", h |-> h, fg |-> fg, hours |-> 0]
At(s, st) == [st |-> st, h |-> s.h, fg |-> s.fg, hours |-> s.hours]
Longer(s) == [st |-> s.st, h |-> s.h, fg |-> s.fg, hours |-> s.hours + 1]
ROTATELOG == [v |-> 0, id |-> 1]
TERMINATE == [v |-> 0, id |-> 2]
Line(v) == [v |-> v, id |-> life]
Exists(n) == dir[n].own # "absent"

\* What the directory holds for `mfsmaster -a' and what it gives.
Metas  == {dir[n].h : n \in {x \in Name : dir[x].ok}}
Loaded == meta_loadall(Metas, {logs[i].lines : i \in 0..BackLogs})

\* A new file system: metadata.mfs is a copy of metadata.mfs.empty.
Init ==
  /\ run = "down" /\ mode \in SaveModes /\ life = 0 /\ hist = << >>
  /\ queue = << >> /\ bg = "none" /\ saver = Idle /\ orphan = Idle
  /\ unsaved = 0 /\ faults = 0
  /\ dir = [n \in Name |-> IF n = "mfs" THEN File(<< >>, TRUE, "none") ELSE NoFile]
  /\ logs = [i \in 0..BackLogs |-> NoLog]

-----------------------------------------------------------------------------
\* Changelog lines.

\* A line cut short has no newline: what is appended next runs into it.
Appended(log, line) ==
  IF log # << >> /\ Last(log).id = 0 THEN log ELSE Append(log, line)

\* The line is written to changelog.0.mfs, and synced if `sync'.
Logged(line, sync) ==
  LET new == Appended(logs[0].lines, line)
  IN  [logs EXCEPT ![0] = [lines |-> new,
                           sync  |-> IF sync THEN Len(new) ELSE logs[0].sync]]

\* changelog.0.mfs is synced.
Synced ==
  [logs EXCEPT ![0] = [lines |-> logs[0].lines, sync |-> Len(logs[0].lines)]]

\* The renames of changelog_rotate and of BGSAVER_ROTATELOG, oldest file first,
\* after changelog.0.mfs was synced if `sync'.  A missing file is not renamed.
Rotated(sync) ==
  LET f == IF sync THEN Synced ELSE logs
  IN  [i \in 0..BackLogs |->
         CASE i = 0 -> NoLog
           [] i = BackLogs /\ f[i - 1] = NoLog -> f[i]
           [] OTHER -> f[i - 1]]

\* changelog_rotate in the foreground.
RotateHere == logs' = Rotated(mode = "SYNC")

\* changelog() called for a change of the metadata: the change gets the next
\* number, and in BACKGROUND mode the line is only queued for the writer.  While
\* the master exits it still makes changes; a line queued behind TERMINATE, or
\* when the writer has gone, is lost.
changelog ==
  /\ run \in {"up", "mayexit", "canexit"}
  /\ Len(hist) < MaxVersion
  /\ hist' = Append(hist, life)
  /\ IF mode = "BACKGROUND"
     THEN /\ queue' = IF bg # "none" THEN Append(queue, Line(Len(hist'))) ELSE queue
          /\ UNCHANGED logs
     ELSE logs' = Logged(Line(Len(hist')), mode = "SYNC") /\ UNCHANGED queue
  /\ UNCHANGED <<run, mode, life, bg, saver, orphan, unsaved, dir, faults>>

\* One packet handled by bgsaver_worker.
bgsaver_worker ==
  /\ bg # "none" /\ queue # << >>
  /\ CASE Head(queue) = TERMINATE ->
            /\ bg' = "none" /\ queue' = << >>
            /\ logs' = IF bg = "open" THEN Synced ELSE logs
       [] Head(queue) = ROTATELOG ->
            bg' = "idle" /\ queue' = Tail(queue) /\ logs' = Rotated(bg = "open")
       [] OTHER ->
            bg' = "open" /\ queue' = Tail(queue) /\ logs' = Logged(Head(queue), FALSE)
  /\ UNCHANGED <<run, mode, life, hist, saver, orphan, unsaved, dir, faults>>

\* The changes whose lines are lost are in no metadata saved or being saved,
\* unless "lag" is considered.
Losable(lines) ==
  LET saved == Metas \cup {saver.h, orphan.h}
  IN  "lag" \in Cases \/ \A l \in ToSet(lines), h \in saved : l.v = 0 \/ l.v > Len(h)

\* The pipe has no writer left: bgsaver_worker leaves, and drops what it has
\* not read.  The metadata saver was forked with the writing end open, so the
\* background writer stays for as long as a saver lives.
bgsaver_hup ==
  /\ bg # "none" /\ run = "down" /\ orphan = Idle
  /\ Losable(queue)
  /\ bg' = "none" /\ queue' = << >>
  /\ UNCHANGED <<run, mode, life, hist, saver, orphan, unsaved, dir, logs, faults>>

-----------------------------------------------------------------------------
\* Saving the metadata: meta_storeall, step by step.  The same steps are taken
\* by the forked saver, by one that outlived the master and by the master
\* itself in meta_term and meta_restore.

\* lockf(F_TEST) on metadata.mfs.back.tmp: another process still writes it.
Locked(w) == dir["tmp"].own \in Writer \ {w}

\* A bound that stands for BACK_LOGS being 50: between two saved metadata
\* files, failed saves and restarts in between, the logs are not rotated so
\* often that the oldest one still needed is dropped.  (Another bound: the
\* background writer is less than an hour behind.)
LogsReach == unsaved + 1 < BackLogs

\* meta_store_task at a full hour.  A save in progress is left alone until it
\* has lasted StoreTimeout hours; then, or when the file is locked,
\* meta_storeall refuses and the master exits.
meta_store_task ==
  /\ LogsReach /\ ROTATELOG \notin ToSet(queue)
  /\ run = "up" \/ (LateStore /\ run \in {"mayexit", "canexit"})
  /\ IF mode = "BACKGROUND" /\ bg # "none"
     THEN queue' = Append(queue, ROTATELOG) /\ UNCHANGED logs
     ELSE RotateHere /\ UNCHANGED queue
  /\ unsaved' = unsaved + 1
  /\ IF saver # Idle /\ saver.hours + 1 < StoreTimeout
     THEN saver' = Longer(saver) /\ UNCHANGED run
     ELSE IF saver # Idle \/ Locked("saver")
     THEN run' = (IF run = "up" THEN "mayexit" ELSE run) /\ UNCHANGED saver
     ELSE saver' = Started(hist, FALSE) /\ UNCHANGED run
  /\ UNCHANGED <<mode, life, hist, bg, orphan, dir, faults>>

\* The state of writer w, and its next value.
Of(w) == IF w = "saver" THEN saver ELSE orphan
Becomes(w, st) ==
  IF w = "saver" THEN saver' = At(saver, st) /\ UNCHANGED orphan
  ELSE orphan' = (IF st \in {"done", "failed"} THEN Idle ELSE At(orphan, st))
       /\ UNCHANGED saver
UnchangedBySave == UNCHANGED <<run, mode, life, hist, queue, bg, logs>>


\* metadata.mfs.back.tmp is opened, truncated and locked.
StoreOpen(w) ==
  /\ Of(w).st = "forked" /\ ~Locked(w)
  /\ dir' = [dir EXCEPT !["tmp"] = File(Of(w).h, FALSE, w)]
  /\ Becomes(w, "opened")
  /\ UnchangedBySave /\ UNCHANGED <<unsaved, faults>>

\* meta_store and bio_sync: the file this process has open is complete, under
\* whatever name it has by now.
StoreWrite(w) ==
  /\ Of(w).st = "opened"
  /\ dir' = [n \in Name |-> IF dir[n].own = w THEN File(dir[n].h, TRUE, w) ELSE dir[n]]
  /\ Becomes(w, "written")
  /\ UnchangedBySave /\ UNCHANGED <<unsaved, faults>>

\* The write fails: the file is removed and the metadata is saved elsewhere if
\* that can be done (meta_emergency_saves).
StoreFailed(w) ==
  /\ Of(w).st = "opened" /\ faults < MaxFaults
  /\ faults' = faults + 1
  /\ \E saved \in BOOLEAN :
       dir' = [dir EXCEPT !["tmp"] = NoFile,
                          !["emergency"] = IF saved THEN File(Of(w).h, TRUE, "none") ELSE @]
  /\ Becomes(w, "failed")
  /\ UnchangedBySave /\ UNCHANGED unsaved

\* metadata.mfs.back -> metadata.mfs.back.1
StoreKeep(w) ==
  /\ Of(w).st = "written"
  /\ dir' = IF Exists("back") THEN [dir EXCEPT !["back1"] = dir["back"], !["back"] = NoFile]
            ELSE dir
  /\ Becomes(w, "kept")
  /\ UnchangedBySave /\ UNCHANGED <<unsaved, faults>>

\* metadata.mfs.back.tmp -> metadata.mfs.back
StoreRename(w) ==
  /\ Of(w).st = "kept"
  /\ dir' = IF Exists("tmp") THEN [dir EXCEPT !["back"] = dir["tmp"], !["tmp"] = NoFile]
            ELSE dir
  /\ unsaved' = Of(w).hours
  /\ Becomes(w, "renamed")
  /\ UnchangedBySave /\ UNCHANGED faults

\* metadata.mfs is removed, and the process ends.
StoreUnlink(w) ==
  /\ Of(w).st = "renamed"
  /\ dir' = [n \in Name |->
               IF n = "mfs" THEN NoFile
               ELSE IF dir[n].own = w THEN File(dir[n].h, dir[n].ok, "none") ELSE dir[n]]
  /\ Becomes(w, "done")
  /\ UnchangedBySave /\ UNCHANGED <<unsaved, faults>>

Store(w) == StoreOpen(w) \/ StoreWrite(w) \/ StoreFailed(w) \/ StoreKeep(w)
              \/ StoreRename(w) \/ StoreUnlink(w)

\* meta_storeended, when the main loop has noticed the end of the saver: after
\* a failure the master exits; a killed saver's file is removed.
meta_storeended ==
  /\ run \in {"up", "mayexit", "canexit"}
  /\ saver.st \in {"done", "failed", "killed"}
  /\ saver' = Idle
  /\ run' = IF saver.st = "failed" /\ run = "up" THEN "mayexit" ELSE run
  /\ dir' = IF saver.st = "killed" THEN [dir EXCEPT !["tmp"] = NoFile] ELSE dir
  /\ UNCHANGED <<mode, life, hist, queue, bg, orphan, unsaved, logs, faults>>

-----------------------------------------------------------------------------
\* Stopping the master.

\* The locks of writer w are gone; what it left behind stays.
Abandoned(d, w) == [n \in Name |-> IF d[n].own = w THEN File(d[n].h, d[n].ok, "none") ELSE d[n]]

\* A termination signal, or main_exit from anywhere.
main_exit ==
  /\ run = "up" /\ run' = "mayexit"
  /\ UNCHANGED <<mode, life, hist, queue, bg, saver, orphan, unsaved, dir, logs, faults>>

\* meta_mayexit: a running saver is killed, and the master waits for its end.
meta_mayexit ==
  /\ run = "mayexit"
  /\ CASE saver = Idle -> run' = "canexit" /\ UNCHANGED <<saver, dir>>
       [] saver.st \in {"forked", "opened", "written", "kept", "renamed"} ->
            /\ saver' = At(saver, "killed")
            /\ dir' = Abandoned(dir, "saver") /\ UNCHANGED run
       [] OTHER -> FALSE
  /\ UNCHANGED <<mode, life, hist, queue, bg, orphan, unsaved, logs, faults>>

\* bgsaver_termcheck, seconds later: the writer is told to finish.
bgsaver_termcheck ==
  /\ run = "canexit" /\ bg # "none" /\ TERMINATE \notin ToSet(queue)
  /\ queue' = Append(queue, TERMINATE)
  /\ UNCHANGED <<run, mode, life, hist, bg, saver, orphan, unsaved, dir, logs, faults>>

\* bgsaver_canexit holds, the loop ends and meta_term is called: the logs are
\* rotated and the metadata is saved by the master itself.  A saver that is
\* still on the books makes meta_storeall refuse, now and on every retry.
meta_term ==
  /\ run = "canexit" /\ bg = "none"
  /\ run' = "term"
  /\ RotateHere /\ unsaved' = unsaved + 1
  /\ saver' = IF saver = Idle THEN Started(hist, TRUE) ELSE saver
  /\ UNCHANGED <<mode, life, hist, queue, bg, orphan, dir, faults>>

\* The save by the master itself has ended: metadata.mfs.back becomes
\* metadata.mfs and the process ends; meta_term tries again after a failure,
\* meta_restore gives up.
StoreHereEnded ==
  /\ run \in {"term", "restore"} /\ saver.fg /\ saver.st \in {"done", "failed"}
  /\ IF saver.st = "done"
     THEN /\ run' = "down" /\ saver' = Idle
          /\ dir' = IF Exists("back")
                    THEN [dir EXCEPT !["mfs"] = dir["back"], !["back"] = NoFile] ELSE dir
     ELSE /\ run' = IF run = "term" THEN run ELSE "down"
          /\ saver' = IF run = "term" THEN Started(hist, TRUE) ELSE Idle
          /\ UNCHANGED dir
  /\ UNCHANGED <<mode, life, hist, queue, bg, orphan, unsaved, logs, faults>>

\* The master is killed.  A forked saver goes on; of the packets on their way
\* to the writer those already in the pipe may still be read.
Killed ==
  /\ run # "down" /\ run' = "down"
  /\ \E n \in 0..Len(queue) :
       queue' = SubSeq(queue, 1, n) /\ Losable(SubSeq(queue, n + 1, Len(queue)))
  /\ \/ "unrenamed" \in Cases \/ ~dir["tmp"].ok
     \/ saver.st \in {"written", "kept"} /\ ~saver.fg
  /\ saver' = Idle
  /\ IF saver.fg \/ saver.st \in {"none", "done", "failed", "killed"}
     THEN dir' = Abandoned(dir, "saver") /\ UNCHANGED orphan
     ELSE /\ orphan = Idle /\ orphan' = saver
          /\ dir' = [n \in Name |-> IF dir[n].own = "saver"
                                    THEN File(dir[n].h, dir[n].ok, "orphan") ELSE dir[n]]
  /\ UNCHANGED <<mode, life, hist, bg, unsaved, logs, faults>>

\* What a power loss leaves of changelog k when n of its lines were written.
Cut(k, n) ==
  LET l    == logs[k].lines
      torn == IF n < Len(l) THEN {<<[v |-> l[n + 1].v, id |-> 0]>>} ELSE {}
  IN  {SubSeq(l, 1, n) \o t : t \in {<< >>} \cup (IF "torn" \in Cases THEN torn ELSE {})}

\* The host stops.  Lines not yet synced are lost from some point on; the
\* system writes them in their order, and renames survive.
HostStops ==
  /\ "power" \in Cases /\ (dir["tmp"].ok => "unrenamed" \in Cases)
  /\ Losable(queue) /\ (run # "down" \/ bg # "none" \/ orphan # Idle)
  /\ \E k \in 0..BackLogs : \E n \in logs[k].sync..Len(logs[k].lines) :
       /\ \A i \in 0..k - 1 : logs[i].sync = 0 /\ Losable(logs[i].lines)
       /\ Losable(SubSeq(logs[k].lines, n + 1, Len(logs[k].lines)))
       /\ \E l \in Cut(k, n) :
            logs' = [i \in 0..BackLogs |->
                       CASE i < k -> NoLog
                         [] i = k -> [lines |-> l, sync |-> Len(l)]
                         [] OTHER -> logs[i]]
  /\ run' = "down" /\ queue' = << >> /\ bg' = "none" /\ saver' = Idle /\ orphan' = Idle
  /\ dir' = Abandoned(Abandoned(dir, "saver"), "orphan")
  /\ UNCHANGED <<mode, life, hist, unsaved, faults>>

-----------------------------------------------------------------------------
\* Starting it again.

\* bgsaver_init refuses while another background writer holds its lock.
bgsaver_init == bg = "none"

\* meta_loadall without -a: metadata.mfs, unless the backup is newer.
meta_check_metadatafile ==
  dir["mfs"].ok /\ ~(dir["back"].ok /\ Len(dir["back"].h) > Len(dir["mfs"].h))

\* What meta_loadall does to the directory with -a.
AfterRestore ==
  [dir EXCEPT !["tmp"]   = NoFile,
              !["mfs"]   = NoFile,
              !["back"]  = IF Exists("mfs") /\ ~Exists("back") THEN dir["mfs"] ELSE @,
              !["other"] = IF Exists("mfs") /\ Exists("back") THEN dir["mfs"] ELSE @]

Launched ==
  /\ run = "down" /\ life < MaxStarts /\ bgsaver_init /\ LogsReach
  /\ run' = "up" /\ life' = life + 1 /\ bg' = "idle" /\ queue' = << >>
  /\ UNCHANGED <<mode, saver, orphan, unsaved, logs, faults>>

meta_init_KeepsName ==
  /\ Launched
  /\ meta_check_metadatafile
  /\ hist' = dir["mfs"].h
  /\ dir' = [dir EXCEPT !["tmp"] = NoFile]

meta_init ==
  /\ Launched
  /\ meta_check_metadatafile
  /\ hist' = dir["mfs"].h
  /\ dir' = [dir EXCEPT !["back"] = dir["mfs"], !["mfs"] = NoFile, !["tmp"] = NoFile]

meta_init_a ==
  /\ Launched
  /\ hist' \in Loaded
  /\ dir' = AfterRestore

\* mfsmaster restore: loaded as with -a and saved as metadata.mfs.  The command
\* does not look at the writer's lock; the operator lets the writer finish.
meta_restore ==
  /\ run = "down" /\ bg = "none" /\ life < MaxStarts
  /\ hist' \in Loaded
  /\ dir' = AfterRestore
  /\ run' = "restore" /\ saver' = Started(hist', TRUE)
  /\ UNCHANGED <<mode, life, queue, bg, orphan, unsaved, logs, faults>>

Next ==
  \/ changelog \/ bgsaver_worker \/ bgsaver_hup
  \/ meta_store_task \/ meta_storeended \/ \E w \in Writer : Store(w)
  \/ main_exit \/ meta_mayexit \/ bgsaver_termcheck \/ meta_term \/ StoreHereEnded
  \/ Killed \/ HostStops
  \/ meta_init \/ meta_init_a \/ meta_restore

\* The processes run: the main loop, the writer and the savers get their turns.
Fairness ==
  /\ WF_vars(bgsaver_worker) /\ WF_vars(meta_storeended)
  /\ \A w \in Writer : WF_vars(Store(w))
  /\ WF_vars(meta_mayexit) /\ WF_vars(bgsaver_termcheck)
  /\ WF_vars(meta_term) /\ WF_vars(StoreHereEnded)

Spec == Init /\ [][Next]_vars /\ Fairness
-----------------------------------------------------------------------------
\* The last change that is on the disk, in a complete file or a whole line.
OnDisk ==
  Max({0} \cup {Len(h) : h \in Metas}
        \cup {l.v : l \in {x \in UNION {ToSet(logs[i].lines) : i \in 0..BackLogs} : x.id # 0}})


\* The master can be started without -a only after it was stopped, or restored,
\* in an orderly way: metadata.mfs then holds every change, so that a plain
\* start (meta_loadall, the second branch) never drops changes silently.
PlainStartComplete == run = "down" /\ meta_check_metadatafile => dir["mfs"].h = hist

=============================================================================
