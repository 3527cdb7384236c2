-------------------------- MODULE ChangelogReplay --------------------------
(***************************************************************************)
(* How `mfsmaster -a' rebuilds the metadata (meta_loadall in metadata.c,   *)
(* changelog.c, merger.c, restore.c): the newest complete metadata file is *)
(* loaded and the lines of the changelog files are merged in the order of  *)
(* their numbers and applied on top of it.                                 *)
(*                                                                         *)
(* The metadata is abstracted to the sequence of changes it is the result  *)
(* of; a change is a number that tells in which life of the master it was  *)
(* made.  meta_version is then Len + 1, and the line of change number v is *)
(* [v |-> v, id |-> life].  A line whose id is 0 is cut short: the text    *)
(* ends, or runs into the next line, before the change does.               *)
(***************************************************************************)
EXTENDS Integers, Sequences, FiniteSets, FiniteSetsExt, SequencesExt

\* changelog_findlastversion: 0 for a file that is empty or does not end with
\* a whole line ("garbage at the end of file").
changelog_findlastversion(log) ==
  IF log = << >> \/ Last(log).id = 0 THEN 0 ELSE Last(log).v

\* The files meta_loadall does not skip: the last change in them is not in the
\* metadata yet.
UsedLogs(h, logs) == {l \in logs : changelog_findlastversion(l) > Len(h)}

\* merger_nextentry: a file is read as long as its numbers grow; a line that
\* goes back ends the file ("found garbage at the end of file").
ReadLines(log) ==
  LET ok == {n \in 0..Len(log) : \A i \in 1..n - 1 : log[i].v < log[i + 1].v}
  IN  ToSet(SubSeq(log, 1, Max(ok)))

\* merger_loop and restore_file over the merged lines.  A line already in the
\* metadata is passed over; a number that occurs in several files is applied
\* once, from whichever file comes first; a line that cannot be parsed is
\* ignored; a number that does not follow the previous one stops the replay with
\* an error.  The loop ends with the last line: what it has built is then h and
\* one whole line for each number after h up to the last one, which alone may
\* be missing for being cut short, and the first of the numbers applied follows
\* a line that was passed over or is the first of all.  The result is the set of
\* metadata the replay can end with: empty when it fails.
restore_file(h, lines) ==
  LET whole   == {l \in lines : l.id # 0}
      last    == Max({Len(h)} \cup {l.v : l \in lines})
      end     == Max({Len(h)} \cup {l.v : l \in whole})
      follows == (\E l \in lines : l.v = Len(h)) \/ (\A l \in lines : l.v > Len(h))
      ids     == ToSet(h) \cup {l.id : l \in whole}
  IN  {r \in [1..end -> ids] :
         /\ last = Len(h) \/ (follows /\ last <= end + 1)
         /\ IsPrefix(h, r)
         /\ \A v \in Len(h) + 1..end : [v |-> v, id |-> r[v]] \in whole}

\* meta_loadall with -a: `metas' are the complete metadata files found in the
\* data directory, `logs' the changelog files.
meta_loadall(metas, logs) ==
  UNION {restore_file(h, UNION {ReadLines(l) : l \in UsedLogs(h, logs)}) :
           h \in {x \in metas : \A y \in metas : Len(y) <= Len(x)}}
=============================================================================
