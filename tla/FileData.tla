------------------------------ MODULE FileData ------------------------------
(***************************************************************************)
(* The chunks of files in the master: chunk tables and lengths             *)
(* (mfsmaster/filesystem.c), the files a chunk belongs to, its lock and    *)
(* its operation (mfsmaster/chunks.c), and the client requests that wait   *)
(* for a locked chunk or for the end of an operation                       *)
(* (mfsmaster/matoclserv.c), with the replay of the change log beside it.  *)
(*                                                                         *)
(* The master runs one handler at a time; a handler is one step on m, the  *)
(* requests it retries and the lines it logs included.  What chunkservers  *)
(* do during an operation is in ChunkSystem; here an operation ends with   *)
(* some outcome.  A chunk is two units long, so that an odd length ends    *)
(* inside a chunk.  The contents of a chunk are a tag: Zero, the client    *)
(* that wrote last, Cut after a truncation, Lost when no copy exists.      *)
(*                                                                         *)
(* Three parts of the state are there for the properties only: val, what a *)
(* file should hold at each index if copies of files were made at once;    *)
(* tie, the indices the unfinished write or truncation of a chunk may      *)
(* change; quiet, set when a chunk becomes free without a word to those    *)
(* who wait for it.                                                        *)
(***************************************************************************)
EXTENDS Integers, Sequences, FiniteSets, FiniteSetsExt, SequencesExt

CONSTANTS
  File,          \* inodes
  Client,        \* client connections
  Class,         \* storage classes
  HashSize,      \* CHUNKHASHSIZE
  Family,        \* the sets of disturbances a behaviour may be subject to
  MaxIndex,      \* bound on the number of chunks of a file
  MaxChunk,      \* bound on the chunk numbers
  MaxRequests,   \* bound on the requests of clients for chunks
  MaxShares,     \* bound on snapshots, appends and changes of class
  MaxEvents      \* bound on the events of the chunkservers

ASSUME DataAssumption ==
  /\ {MaxIndex, HashSize} \subseteq Nat \ {0}
  /\ {MaxChunk, MaxRequests, MaxShares, MaxEvents} \subseteq Nat
  /\ Family \subseteq SUBSET {"fail", "drop", "danger", "overlap", "late"}

VARIABLES
  m,        \* the master: file, chunk, next, lw, sw, cl, log, val, and its replica rep
  faults,   \* the disturbances of this behaviour
  used      \* how much of the three bounds is used up

vars == <<m, faults, used>>

Zero == "zero"
Cut  == "cut"
Lost == "lost"

NoSource == <<0, 0, Zero>>

Chunks(length) == (length + 1) \div 2

Padded(s, n) == s \o SubSeq([k \in 1 .. n |-> 0], 1, n - Len(s))

-----------------------------------------------------------------------------
\* The files of a chunk (chunk_add_file and the like).  A count below zero
\* stands for the assertion the code stops with.

Uses(d, c) == MapThenSumSet(LAMBDA k : d.chunk[c].files[k], Class)

chunk_add_file(d, c, k) ==
  IF c \in DOMAIN d.chunk THEN [d EXCEPT !.chunk[c].files[k] = @ + 1] ELSE d

chunk_delete_file(d, c, k) ==
  IF c \in DOMAIN d.chunk /\ Uses(d, c) # 0
  THEN [d EXCEPT !.chunk[c].files[k] = @ - 1]
  ELSE d

chunk_change_file(d, c, k, new) ==
  chunk_add_file(chunk_delete_file(d, c, k), c, new)

ForEach(d, ids, Op(_, _)) ==
  FoldLeft(LAMBDA e, c : IF c = 0 THEN e ELSE Op(e, c), d, ids)

chunk_new(d, op, k, data, src) ==
  [d EXCEPT
     !.next = @ + 1,
     !.chunk = (d.next :> [ver |-> 1, files |-> [x \in Class |-> IF x = k THEN 1 ELSE 0],
                           locked |-> TRUE, op |-> op, needver |-> TRUE,
                           quiet |-> FALSE, data |-> data, src |-> src,
                           tie |-> {}]) @@ @]

-----------------------------------------------------------------------------
\* Changes of a file that the running master and the replay have in common.

fsnodes_setlength(d, f, length) ==
  LET p == d.file[f]
      n == Min({Chunks(length), Len(p.tab)})
      e == ForEach(d, SubSeq(p.tab, n + 1, Len(p.tab)),
                   LAMBDA x, c : chunk_delete_file(x, c, p.class))
  IN  [e EXCEPT !.file[f].tab = SubSeq(@, 1, n), !.file[f].length = length]

fsnodes_append_slice_of_chunks(d, f, src, from, to) ==
  LET p   == d.file[f]
      q   == d.file[src]
      n   == Chunks(p.length)
      e   == ForEach(d, SubSeq(p.tab, n + 1, Len(p.tab)),
                     LAMBDA x, c : chunk_delete_file(x, c, p.class))
      ids == SubSeq(Padded(q.tab, to), from, to)
  IN  [ForEach(e, ids, LAMBDA x, c : chunk_add_file(x, c, p.class)) EXCEPT
         !.file[f].tab = SubSeq(Padded(@, n), 1, n) \o ids,
         !.file[f].length = IF to >= Chunks(q.length)
                            THEN 2 * n + q.length - 2 * (from - 1)
                            ELSE 2 * (n + Len(ids))]

fsnodes_snapshot(d, f, src) ==
  LET q == d.file[src]
  IN  [ForEach(d, q.tab, LAMBDA x, c : chunk_add_file(x, c, q.class)) EXCEPT
         !.file[f] = q]

fsnodes_changefilesclassid(d, f, k) ==
  LET p == d.file[f]
  IN  [ForEach(d, p.tab, LAMBDA x, c : chunk_change_file(x, c, p.class, k)) EXCEPT
         !.file[f].class = k]

fsnodes_remove_node(d, f) ==
  [fsnodes_setlength(d, f, 0) EXCEPT !.file[f].state = "gone"]

CanRollback(d, f, i) == d.file[f].state = "on" /\ i <= Len(d.file[f].tab)

\* Mutant: the table goes back, the chunks are not told.
fs_univ_rollback_Uncounted(d, f, i, prev, c) ==
  IF prev = c THEN d ELSE [d EXCEPT !.file[f].tab[i] = prev]

fs_univ_rollback(d, f, i, prev, c) ==
  IF prev = c
  THEN d
  ELSE LET k == d.file[f].class
       IN  [chunk_delete_file(chunk_add_file(d, prev, k), c, k) EXCEPT
              !.file[f].tab[i] = prev]

-----------------------------------------------------------------------------
\* The replay of a line of the change log (restore.c, fs_mr_*, chunk_mr_*).

Refused(r) == [r EXCEPT !.ok = FALSE]

\* chunk_mr_multi_modify and chunk_mr_multi_truncate: the chunk of index i of f
\* becomes c, its version grows if bump.
mr_multi_modify(r, f, i, c, bump) ==
  LET old == r.file[f].tab[i]
      k   == r.file[f].class
      new == [chunk_new(chunk_delete_file(r, old, k), "NONE", k, Zero, NoSource) EXCEPT
                !.file[f].tab[i] = c]
  IN  CASE old = 0 -> IF c = r.next THEN new ELSE Refused(r)
        [] old # 0 /\ old \notin DOMAIN r.chunk -> Refused(r)
        [] old \in DOMAIN r.chunk /\ Uses(r, old) = 1 ->
             IF c # old THEN Refused(r)
             ELSE [r EXCEPT !.chunk[c].locked = TRUE,
                            !.chunk[c].ver = IF bump THEN @ + 1 ELSE @]
        [] OTHER -> IF c = r.next /\ Uses(r, old) > 1 THEN new ELSE Refused(r)

fs_mr_write(r, l) ==
  LET p == r.file[l.f]
      t == [r EXCEPT !.file[l.f].tab = Padded(@, l.i),
                     !.file[l.f].length = Max({@, 2 * (l.i - 1)})]
  IN  IF p.state = "on" THEN mr_multi_modify(t, l.f, l.i, l.c, l.bump) ELSE Refused(r)

fs_mr_trunc(r, l) ==
  IF CanRollback(r, l.f, l.i) /\ r.file[l.f].tab[l.i] # 0
  THEN mr_multi_modify(r, l.f, l.i, l.c, TRUE)
  ELSE Refused(r)

chunk_mr_unlock(r, c) ==
  IF c \in DOMAIN r.chunk THEN [r EXCEPT !.chunk[c].locked = FALSE] ELSE Refused(r)

\* Mutant: the replay of a rollback leaves the chunk locked.
fs_mr_rollback_StaysLocked(r, l) ==
  IF CanRollback(r, l.f, l.i) THEN fs_univ_rollback(r, l.f, l.i, l.prev, l.c) ELSE Refused(r)

fs_mr_rollback(r, l) ==
  IF CanRollback(r, l.f, l.i)
  THEN LET t == fs_univ_rollback(r, l.f, l.i, l.prev, l.c)
       IN  IF l.c \in DOMAIN t.chunk THEN chunk_mr_unlock(t, l.c) ELSE t
  ELSE Refused(r)

chunk_mr_chunkdel(r, l) ==
  IF /\ l.c \in DOMAIN r.chunk
     /\ r.chunk[l.c].ver = l.ver
     /\ Uses(r, l.c) = 0
     /\ ~r.chunk[l.c].locked
  THEN [r EXCEPT !.chunk = Restrict(@, DOMAIN @ \ {l.c})]
  ELSE Refused(r)

chunk_mr_set_version(r, l) ==
  IF l.c \in DOMAIN r.chunk THEN [r EXCEPT !.chunk[l.c].ver = l.ver] ELSE Refused(r)

fs_mr_length(r, l) ==
  IF r.file[l.f].state = "on" THEN fsnodes_setlength(r, l.f, l.length) ELSE Refused(r)

Replay(r, l) ==
  CASE l.op = "WRITE"      -> fs_mr_write(r, l)
    [] l.op = "TRUNC"      -> fs_mr_trunc(r, l)
    [] l.op = "ROLLBACK"   -> fs_mr_rollback(r, l)
    [] l.op = "UNLOCK"     -> chunk_mr_unlock(r, l.c)
    [] l.op = "CHUNKDEL"   -> chunk_mr_chunkdel(r, l)
    [] l.op = "SETVERSION" -> chunk_mr_set_version(r, l)
    [] l.op = "LENGTH"     -> fs_mr_length(r, l)
    [] l.op = "APPEND"     -> fsnodes_append_slice_of_chunks(r, l.f, l.src, l.from, l.to)
    [] l.op = "SNAPSHOT"   -> fsnodes_snapshot(r, l.f, l.src)
    [] l.op = "SETSCLASS"  -> fsnodes_changefilesclassid(r, l.f, l.class)
    [] l.op = "PURGE"      -> fsnodes_remove_node(r, l.f)

changelog(s, l) == [s EXCEPT !.log = Append(@, l)]

\* The lines of a step are replayed when it is over.
Logged(s) == [s EXCEPT !.rep = FoldLeft(Replay, @, s.log), !.log = <<>>]

-----------------------------------------------------------------------------
\* The running master.

At(d, slot) ==
  LET tab == d.file[slot[1]].tab IN IF slot[2] <= Len(tab) THEN tab[slot[2]] ELSE 0

Slot == File \X (1 .. MaxIndex)

\* Indices that left a table are no longer expected to hold anything.
Tidy(s) ==
  [s EXCEPT
     !.val = [x \in Slot |-> IF At(s, x) = 0 THEN Zero ELSE @[x]],
     !.chunk = [c \in DOMAIN @ |-> [@[c] EXCEPT !.tie = {x \in @ : At(s, x) = c}]]]

\* The expected contents and the unfinished writes go with a copy of chunks.
Copied(s, From(_), to) ==
  [s EXCEPT
     !.val = [x \in Slot |-> IF x \in to THEN @[From(x)] ELSE @[x]],
     !.chunk = [c \in DOMAIN @ |->
                  [@[c] EXCEPT !.tie = @ \cup {x \in to : From(x) \in @}]]]

Store(s, slots, data) ==
  [s EXCEPT !.val = [x \in Slot |-> IF x \in slots THEN data ELSE @[x]]]

Idle == [st |-> "idle", chunk |-> 0, f |-> CHOOSE f \in File : TRUE, i |-> 1]

Reply(s, c, answer) ==
  [s EXCEPT !.cl[c] = IF @.st = "asked" THEN answer ELSE [@ EXCEPT !.st = "twice"]]

Answer(s, q) == Reply(s, q.client, Idle)

Grant(s, q, c) ==
  Reply(s, q.client, [st |-> "granted", chunk |-> c, f |-> q.f, i |-> q.i])

Done(s) == [s |-> s, wait |-> FALSE]

Wait(s, q, c) == [s EXCEPT !.lw = Append(@, [q EXCEPT !.chunk = c])]

Bucket(c) == c % HashSize

Await(s, q, prev, c) ==
  [s EXCEPT !.sw[Bucket(c)] = <<[q EXCEPT !.chunk = c, !.prev = prev]>> \o @]

\* chunk_univ_multi_modify and chunk_univ_multi_truncate up to the change, with
\* chunk_prepare_to_modify; "replicate" makes a missing copy first.
MayModify(s, c, cont, how) ==
  IF c = 0 THEN IF how = "refuse" THEN "ERROR" ELSE "OK"
  ELSE IF c \notin DOMAIN s.chunk THEN "ERROR"
  ELSE LET k == s.chunk[c] IN
    IF ~cont /\ (k.locked \/ k.op = "REPLICATE") THEN "WAIT"
    ELSE IF Uses(s, c) = 0 THEN "ERROR"
    ELSE IF k.op # "NONE" THEN "WAIT"
    ELSE IF k.data = Lost \/ how = "refuse" THEN "ERROR"
    ELSE IF how = "replicate" THEN "COPY" ELSE "OK"

\* The rest of the two functions: the chunk old of index i of f is locked and,
\* when it belongs to other files too, replaced by a copy.
InPlace(s, f, i, c, op) ==
  [s EXCEPT !.chunk[c] =
     [@ EXCEPT !.locked = TRUE, !.quiet = FALSE, !.op = op, !.tie = {<<f, i>>},
               !.ver = IF op = "NONE" THEN @ ELSE @ + 1]]

Replaced(s, f, i) ==
  Tidy([s EXCEPT !.file[f].tab[i] = s.next - 1, !.chunk[s.next - 1].tie = {<<f, i>>}])

\* Mutant: a chunk of two files is changed in place.
Modified_SharedInPlace(s, f, i, old, trunc) ==
  IF old = 0
  THEN Replaced(chunk_new(s, "CREATE", s.file[f].class, Zero, NoSource), f, i)
  ELSE InPlace(s, f, i, old, IF trunc THEN "TRUNCATE"
                             ELSE IF s.chunk[old].needver THEN "SET_VERSION" ELSE "NONE")

Modified(s, f, i, old, trunc) ==
  IF old = 0
  THEN Replaced(chunk_new(s, "CREATE", s.file[f].class, Zero, NoSource), f, i)
  ELSE IF Uses(s, old) = 1
  THEN InPlace(s, f, i, old, IF trunc THEN "TRUNCATE"
                             ELSE IF s.chunk[old].needver THEN "SET_VERSION" ELSE "NONE")
  ELSE Replaced(chunk_new(chunk_delete_file(s, old, s.file[f].class),
                          IF trunc THEN "DUPTRUNC" ELSE "DUPLICATE",
                          s.file[f].class, s.chunk[old].data,
                          <<old, s.chunk[old].ver, s.chunk[old].data>>), f, i)

\* The ends of a request that asks to change the chunk c of its file.
Change(s, q, c, answer, changed) ==
  CASE answer = "OK"    -> Done(changed)
    [] answer = "WAIT"  -> [s |-> Wait(s, q, c), wait |-> TRUE]
    [] answer = "COPY"  -> [s |-> Wait([s EXCEPT !.chunk[c].op = "REPLICATE"], q, c), wait |-> TRUE]
    [] answer = "ERROR" -> Done(Answer(s, q))

Written(s, q, old, c) ==
  LET l == [op |-> "WRITE", f |-> q.f, i |-> q.i, c |-> c, bump |-> s.chunk[c].op # "NONE"]
  IN  IF l.bump THEN Await(changelog(s, l), q, old, c) ELSE Grant(changelog(s, l), q, c)

\* fs_writechunk makes the table long enough before anything is known of the
\* chunk.
fs_writechunk(s, q, old, how) ==
  LET u == [Modified(s, q.f, q.i, old, FALSE) EXCEPT
              !.file[q.f].length = Max({@, 2 * (q.i - 1)})]
  IN  Change(s, q, old, MayModify(s, old, q.cont, how), Written(u, q, old, At(u, <<q.f, q.i>>)))

write_chunk_common(s, q, how) ==
  IF s.file[q.f].state = "on"
  THEN fs_writechunk([s EXCEPT !.file[q.f].tab = Padded(@, q.i)], q, At(s, <<q.f, q.i>>), how)
  ELSE Done(Answer(s, q))

\* matoclserv_fuse_read_chunk_common with fs_readchunk.
read_chunk_common(s, q) ==
  LET c == At(s, <<q.f, q.i>>)
  IN  IF /\ s.file[q.f].state = "on"
         /\ c \in DOMAIN s.chunk
         /\ s.chunk[c].locked \/ s.chunk[c].op # "NONE"
      THEN [s |-> Wait(s, q, c), wait |-> TRUE]
      ELSE Done(Answer(s, q))

fs_do_setlength(s, f, length) ==
  IF s.file[f].state = "on"
  THEN changelog(Tidy(fsnodes_setlength(s, f, length)),
                 [op |-> "LENGTH", f |-> f, length |-> length])
  ELSE s

Truncated(s, q, old, c) ==
  Await(changelog(s, [op |-> "TRUNC", f |-> q.f, i |-> q.i, c |-> c]), q, old, c)

fs_try_setlength(s, q, old, how) ==
  LET u == Modified(s, q.f, q.i, old, TRUE)
  IN  Change(s, q, old, MayModify(s, old, q.cont, how), Truncated(u, q, old, At(u, <<q.f, q.i>>)))

\* matoclserv_fuse_truncate_common: only a length inside an existing chunk has to
\* wait for that chunk.
truncate_common(s, q, how) ==
  LET old == At(s, <<q.f, q.i>>)
  IN  IF /\ s.file[q.f].state = "on"
         /\ q.length # s.file[q.f].length
         /\ q.length % 2 = 1
         /\ old # 0
      THEN fs_try_setlength(s, q, old, how)
      ELSE Done(Answer(fs_do_setlength(s, q.f, q.length), q))

Serve(s, q, how) ==
  CASE q.type = "WRITE"    -> write_chunk_common(s, q, how)
    [] q.type = "READ"     -> read_chunk_common(s, q)
    [] q.type = "TRUNCATE" -> truncate_common(s, q, how)

chunk_locked_or_busy(s, c) ==
  c \in DOMAIN s.chunk /\ (s.chunk[c].locked \/ s.chunk[c].op # "NONE")

\* The requests that wait for c are served again, in the order of the list from
\* position n on, until one of them has to wait or the chunk is taken.
RECURSIVE matoclserv_chunk_unlocked(_, _, _, _)
matoclserv_chunk_unlocked(s, c, how, n) ==
  IF n > Len(s.lw) THEN s
  ELSE IF s.lw[n].chunk = c /\ s.cl[s.lw[n].client].st # "off"
  THEN LET Retried(r) ==
             IF r.wait \/ chunk_locked_or_busy(r.s, c)
             THEN [r.s EXCEPT !.lw = RemoveAt(@, n)]
             ELSE matoclserv_chunk_unlocked([r.s EXCEPT !.lw = RemoveAt(@, n)], c, how, n)
       IN  Retried(Serve(s, s.lw[n], how))
  ELSE matoclserv_chunk_unlocked(s, c, how, n + 1)


\* A chunk on the danger list is looked after first; nobody is told that it is
\* free ("quiet"), or a missing copy is made ("replicate").
chunk_unlock(s, c, how) ==
  IF c \notin DOMAIN s.chunk THEN s
  ELSE LET t == [s EXCEPT !.chunk[c].locked = FALSE]
           free == t.chunk[c].op = "NONE"
       IN  CASE how = "quiet" -> [t EXCEPT !.chunk[c].quiet = free]
             [] how = "replicate" -> IF free THEN [t EXCEPT !.chunk[c].op = "REPLICATE"] ELSE t
             [] OTHER -> matoclserv_chunk_unlocked(t, c, how, 1)

fs_rollback(s, f, i, prev, c, how) ==
  LET u == IF prev = c \/ c \notin DOMAIN s.chunk THEN s
           ELSE Store(s, {<<f, i>>}, s.chunk[c].src[3])
  IN  IF CanRollback(s, f, i)
      THEN chunk_unlock(changelog(Tidy(fs_univ_rollback(u, f, i, prev, c)),
                                  [op |-> "ROLLBACK", f |-> f, i |-> i, prev |-> prev, c |-> c]),
                        c, how)
      ELSE s

\* The request q that waited for the end of the operation of c.
Ended(s, q, c, ok, how) ==
  CASE ~ok -> fs_rollback(Answer(s, q), q.f, q.i, q.prev, c, how)
    [] ok /\ q.type = "WRITE" -> Grant(s, q, c)
    [] ok /\ q.type = "TRUNCATE" ->
         Answer(fs_do_setlength(chunk_unlock(changelog(s, [op |-> "UNLOCK", c |-> c]), c, how),
                                q.f, q.length), q)

\* Mutant: the entry stays in its list.
matoclserv_chunk_status_Kept(s, c, ok, how) ==
  LET mine == {n \in DOMAIN s.sw[Bucket(c)] : s.sw[Bucket(c)][n].chunk = c}
  IN  IF mine = {} THEN s ELSE Ended(s, s.sw[Bucket(c)][Min(mine)], c, ok, how)

matoclserv_chunk_status(s, c, ok, how) ==
  LET mine == {n \in DOMAIN s.sw[Bucket(c)] : s.sw[Bucket(c)][n].chunk = c}
      Take(n) == Ended([s EXCEPT !.sw[Bucket(c)] = RemoveAt(@, n)], s.sw[Bucket(c)][n], c, ok, how)
  IN  IF mine = {} THEN s ELSE Take(Min(mine))

-----------------------------------------------------------------------------
\* Steps.

\* What may happen inside a handler besides the normal course.
How == {"ok"} \cup (IF "danger" \in faults THEN {"replicate", "quiet"} ELSE {})
              \cup (IF "fail" \in faults THEN {"refuse"} ELSE {})

Count(field, n) ==
  /\ used[field] + n <= CASE field = "requests" -> MaxRequests
                          [] field = "shares"   -> MaxShares
                          [] field = "events"   -> MaxEvents
  /\ used' = [used EXCEPT ![field] = @ + n]

Handle(how) == how \in How /\ Count("events", IF how = "ok" THEN 0 ELSE 1)

Fault(kind, how) == kind \in faults /\ how \in How /\ Count("events", 1)

Request(c, type, f, i, length, cont) ==
  [client |-> c, type |-> type, f |-> f, i |-> i, length |-> length, cont |-> cont,
   chunk |-> 0, prev |-> 0]

Ask(q, how) ==
  /\ how \in How \ {"quiet"}
  /\ used.events + (IF how = "ok" THEN 0 ELSE 1) <= MaxEvents
  /\ used.requests < MaxRequests
  /\ used' = [used EXCEPT !.requests = @ + 1, !.events = IF how = "ok" THEN @ ELSE @ + 1]
  /\ m' = Logged(Serve([m EXCEPT !.cl[q.client] = [Idle EXCEPT !.st = "asked"]], q, how).s)

fuse_write_chunk(c, f, i, how) ==
  /\ m.cl[c].st = "idle"
  /\ m.file[f].state # "none"
  /\ Ask(Request(c, "WRITE", f, i, 0, FALSE), how)

\* CHUNKOPFLAG_CONTINUEOP: the client of a broken write asks for its chunk again.
fuse_write_chunk_again(c, how) ==
  /\ m.cl[c].st = "granted"
  /\ Ask(Request(c, "WRITE", m.cl[c].f, m.cl[c].i, 0, TRUE), how)

fuse_read_chunk(c, f, i) ==
  /\ m.cl[c].st = "idle"
  /\ m.file[f].state # "none"
  /\ Ask(Request(c, "READ", f, i, 0, FALSE), "ok")

fuse_truncate(c, f, length, how) ==
  /\ m.cl[c].st = "idle"
  /\ m.file[f].state # "none"
  /\ Ask(Request(c, "TRUNCATE", f, Max({Chunks(length), 1}), length, FALSE), how)

\* A client with a grant writes to the copies of its chunk.
WriteData(c) ==
  /\ m.cl[c].st = "granted"
  /\ m.cl[c].chunk \in DOMAIN m.chunk
  /\ LET k == m.cl[c].chunk
     IN  m' = Store([m EXCEPT !.chunk[k].data = c], m.chunk[k].tie, c)
  /\ UNCHANGED used

\* matoclserv_fuse_write_chunk_end with fs_writeend: the chunk of a file that is
\* gone is left to its timeout.
fuse_write_chunk_end(c, length, how) ==
  LET g == m.cl[c]
      t == [m EXCEPT !.cl[c] = Idle]
  IN  /\ g.st = "granted"
      /\ Handle(how)
      /\ m' = IF length > 0 /\ m.file[g.f].state # "on"
              THEN t
              ELSE Logged(chunk_unlock(changelog(IF length > m.file[g.f].length
                                                 THEN fs_do_setlength(t, g.f, length)
                                                 ELSE t,
                                                 [op |-> "UNLOCK", c |-> g.chunk]),
                                       g.chunk, how))

\* fs_opencheck with OPEN_TRUNCATE: no chunk is asked whether it is locked.
fs_opencheck(f) ==
  /\ m.file[f].state = "on"
  /\ Count("shares", 1)
  /\ m' = Logged(fs_do_setlength(m, f, 0))

fs_append_slice(f, src, from, to) ==
  LET n == Chunks(m.file[f].length)
      new == {<<f, n + k>> : k \in 1 .. (to - from) + 1}
      t == Tidy(fsnodes_append_slice_of_chunks(m, f, src, from, to))
      From(x) == <<src, x[2] - n + from - 1>>
  IN  /\ f # src
      /\ m.file[f].state = "on" /\ m.file[src].state = "on"
      /\ from <= to /\ to <= Chunks(m.file[src].length)
      /\ n + (to - from) + 1 <= MaxIndex
      /\ Count("shares", 1)
      /\ m' = Logged(changelog(Copied(t, From, new),
                               [op |-> "APPEND", f |-> f, src |-> src, from |-> from, to |-> to]))

\* fsnodes_snapshot of a file to a new name.
fs_snapshot(f, src) ==
  LET From(x) == <<src, x[2]>>
  IN  /\ m.file[f].state = "none" /\ m.file[src].state = "on"
      /\ Count("shares", 1)
      /\ m' = Logged(changelog(Copied(fsnodes_snapshot(m, f, src), From, {x \in Slot : x[1] = f}),
                               [op |-> "SNAPSHOT", f |-> f, src |-> src]))

fs_setsclass(f, k) ==
  /\ m.file[f].state = "on"
  /\ k # m.file[f].class
  /\ Count("shares", 1)
  /\ m' = Logged(changelog(fsnodes_changefilesclassid(m, f, k),
                           [op |-> "SETSCLASS", f |-> f, class |-> k]))

fs_purge(f) ==
  /\ m.file[f].state = "on"
  /\ Count("shares", 1)
  /\ m' = Logged(changelog(Tidy(fsnodes_remove_node(m, f)), [op |-> "PURGE", f |-> f]))

-----------------------------------------------------------------------------
\* Ends of operations, time and connections.

Truncates(op) == op \in {"TRUNCATE", "DUPTRUNC"}

\* What a copy of c holds: the contents of its source when the copy was asked
\* for, or "late" those when the chunkservers are done with it.
Duplicated(c) ==
  LET src == m.chunk[c].src
  IN  IF /\ "late" \in faults /\ m.chunk[c].op = "DUPLICATE"
         /\ src[1] \in DOMAIN m.chunk /\ m.chunk[src[1]].ver = src[2]
      THEN m.chunk[src[1]].data
      ELSE m.chunk[c].data

\* chunk_operation_status when the last answer has come.
chunk_operation_ok(c, how) ==
  LET k == m.chunk[c]
      t == [m EXCEPT !.chunk[c].op = "NONE", !.chunk[c].needver = FALSE,
                     !.chunk[c].data = IF Truncates(k.op) THEN Cut ELSE Duplicated(c)]
      Woken(u) == IF chunk_locked_or_busy(u, c) THEN u ELSE matoclserv_chunk_unlocked(u, c, how, 1)
  IN  /\ k.op \notin {"NONE", "REPLICATE"}
      /\ Handle(how)
      /\ m' = Logged(Woken(matoclserv_chunk_status(
                             Store(t, IF Truncates(k.op) THEN k.tie ELSE {}, Cut), c, TRUE, how)))

\* Part of the copies went away: chunk_emergency_increase_version.
chunk_operation_interrupted(c) ==
  LET k == m.chunk[c]
      t == [m EXCEPT !.chunk[c].op = "SET_VERSION", !.chunk[c].ver = @ + 1,
                     !.chunk[c].data = IF Truncates(k.op) THEN Cut ELSE @]
  IN  /\ k.op \notin {"NONE", "REPLICATE"}
      /\ Count("events", 1)
      /\ m' = Logged(changelog(Store(t, IF Truncates(k.op) THEN k.tie ELSE {}, Cut),
                               [op |-> "SETVERSION", c |-> c, ver |-> k.ver + 1]))

\* No copy was changed.  The old version is taken back if copies still have it.
chunk_operation_failed(c, fixed, how) ==
  LET k == m.chunk[c]
      t == [m EXCEPT !.chunk[c].op = "NONE",
                     !.chunk[c].data = IF k.op \in {"CREATE", "DUPLICATE", "DUPTRUNC"}
                                       THEN Lost ELSE @]
      u == IF fixed
           THEN changelog([t EXCEPT !.chunk[c].ver = @ - 1],
                          [op |-> "SETVERSION", c |-> c, ver |-> k.ver - 1])
           ELSE t
  IN  /\ Fault("fail", how)
      /\ k.op \notin {"NONE", "REPLICATE"}
      /\ fixed => k.op \in {"SET_VERSION", "TRUNCATE"}
      /\ m' = Logged(matoclserv_chunk_status(u, c, FALSE, how))

\* A copy is lost with its server; a missing copy is made in the background.
chunk_lost_copy(c) ==
  /\ ~m.chunk[c].needver
  /\ Count("events", 1)
  /\ m' = [m EXCEPT !.chunk[c].needver = TRUE]

StartReplication(c) ==
  /\ "danger" \in faults
  /\ m.chunk[c].op = "NONE" /\ ~m.chunk[c].locked
  /\ Count("events", 1)
  /\ m' = [m EXCEPT !.chunk[c].op = "REPLICATE"]

chunk_got_replicate_status(c, how) ==
  LET t == [m EXCEPT !.chunk[c].op = "NONE"]
  IN  /\ m.chunk[c].op = "REPLICATE"
      /\ how \in How \ {"quiet"}
      /\ Handle(how)
      /\ m' = IF t.chunk[c].locked THEN t ELSE Logged(matoclserv_chunk_unlocked(t, c, how, 1))

\* chunk_jobs_main: a chunk of no file is forgotten.
chunk_delete(c) ==
  /\ ~m.chunk[c].locked /\ m.chunk[c].op = "NONE" /\ Uses(m, c) = 0
  /\ m' = Logged(changelog([m EXCEPT !.chunk = Restrict(@, DOMAIN @ \ {c})],
                           [op |-> "CHUNKDEL", c |-> c, ver |-> m.chunk[c].ver]))
  /\ UNCHANGED used

\* lockedto passes; a client whose connection holds has ended its write by then.
LockExpires(c) ==
  /\ m.chunk[c].locked /\ m.chunk[c].op = "NONE"
  /\ \A x \in Client : m.cl[x].st = "granted" => m.cl[x].chunk # c
  /\ m' = [m EXCEPT !.chunk[c].locked = FALSE, !.chunk[c].quiet = TRUE,
                    !.rep.chunk[c].locked = FALSE]
  /\ UNCHANGED used

matoclserv_timeout_waiting_ops(n) ==
  /\ n <= Len(m.lw)
  /\ m' = Answer([m EXCEPT !.lw = RemoveAt(@, n)], m.lw[n])
  /\ UNCHANGED used

\* An entry is taken out of its list by the pointer that led to it before the
\* rollback: if that was the head of the list, entries added in between are
\* cut off.
matoclserv_beforedisconnect(c, how) ==
  LET t    == [m EXCEPT !.cl[c] = [Idle EXCEPT !.st = "off"]]
      mine == {x \in (DOMAIN m.sw) \X (1 .. Cardinality(Client)) :
                 x[2] \in DOMAIN m.sw[x[1]] /\ m.sw[x[1]][x[2]].client = c}
      Unlinked(u, b, n) ==
        LET ins == Len(u.sw[b]) - Len(t.sw[b])
        IN  [u EXCEPT !.sw[b] = IF n = 1 THEN SubSeq(@, ins + 2, Len(@)) ELSE RemoveAt(@, ins + n)]
      Gone(b, n, q) == Unlinked(fs_rollback(t, q.f, q.i, q.prev, q.chunk, how), b, n)
      First(x) == Gone(x[1], x[2], m.sw[x[1]][x[2]])
      Left(u)  == [u EXCEPT !.lw = SelectSeq(@, LAMBDA q : q.client # c)]
  IN  /\ Fault("drop", how)
      /\ m.cl[c].st \in {"asked", "granted"}
      /\ m' = Logged(Left(IF mine = {} THEN t ELSE First(CHOOSE x \in mine : TRUE)))

Reconnect(c) ==
  /\ m.cl[c].st = "off"
  /\ used.requests < MaxRequests
  /\ m' = [m EXCEPT !.cl[c] = Idle]
  /\ UNCHANGED used

-----------------------------------------------------------------------------

Entries(s) == UNION {ToSet(s.sw[b]) : b \in DOMAIN s.sw}

\* Nothing has touched an index while the operation of its chunk is under way,
\* nor the chunk a rollback would go back to.
Undisturbed(s) ==
  \A q \in Entries(s) :
    /\ At(s, <<q.f, q.i>>) = q.chunk
    /\ Uses(s, q.chunk) = 1
    /\ q.prev \notin {0, q.chunk} =>
         q.prev \in DOMAIN s.chunk /\ ~s.chunk[q.prev].locked

Init ==
  \E on \in SUBSET File, needver \in BOOLEAN, x \in Family :
    LET first == CHOOSE f \in File : TRUE
        k     == CHOOSE y \in Class : TRUE
        start == [state |-> "on", tab |-> <<1>>, length |-> 2, class |-> k]
        none  == [state |-> "none", tab |-> <<>>, length |-> 0, class |-> k]
        d0    == [next |-> 1, chunk |-> <<>>,
                  file |-> [f \in File |-> IF f \in on THEN start ELSE none]]
        d     == [chunk_new(d0, "NONE", k, Zero, NoSource) EXCEPT
                    !.chunk[1].files[k] = Cardinality(on), !.chunk[1].locked = FALSE]
    IN  /\ first \in on
        /\ on = File \/ needver
        /\ faults = x
        /\ used = [requests |-> 0, shares |-> 0, events |-> 0]
        /\ m = [next |-> 2, file |-> d.file,
                chunk |-> [d.chunk EXCEPT ![1].needver = needver],
                log |-> <<>>, lw |-> <<>>, sw |-> [b \in 0 .. HashSize - 1 |-> <<>>],
                cl |-> [c \in Client |-> Idle],
                val |-> [y \in Slot |-> Zero],
                rep |-> [next |-> 2, file |-> d.file, chunk |-> d.chunk, ok |-> TRUE]]

Requests(c) ==
  \/ \E f \in File, i \in 1 .. MaxIndex, how \in How : fuse_write_chunk(c, f, i, how)
  \/ \E how \in How : fuse_write_chunk_again(c, how)
  \/ \E f \in File, i \in 1 .. MaxIndex : fuse_read_chunk(c, f, i)
  \/ \E f \in File, length \in {0} \cup {2 * n - 1 : n \in 1 .. MaxIndex}, how \in How :
       fuse_truncate(c, f, length, how)
  \/ WriteData(c)
  \/ \E length \in {0, 2 * m.cl[c].i}, how \in How : fuse_write_chunk_end(c, length, how)
  \/ \E how \in How : matoclserv_beforedisconnect(c, how)
  \/ Reconnect(c)

Shares(f) ==
  \/ fs_opencheck(f)
  \/ \E src \in File, from, to \in 1 .. MaxIndex : fs_append_slice(f, src, from, to)
  \/ \E src \in File : fs_snapshot(f, src)
  \/ \E k \in Class : fs_setsclass(f, k)
  \/ fs_purge(f)

ChunkSteps(c) ==
  \/ \E how \in How : chunk_operation_ok(c, how)
  \/ chunk_operation_interrupted(c)
  \/ \E fixed \in BOOLEAN, how \in How : chunk_operation_failed(c, fixed, how)
  \/ chunk_lost_copy(c)
  \/ StartReplication(c)
  \/ \E how \in How : chunk_got_replicate_status(c, how)
  \/ chunk_delete(c)
  \/ LockExpires(c)

Step ==
  \/ \E c \in Client : Requests(c)
  \/ \E f \in File : Shares(f)
  \/ \E c \in DOMAIN m.chunk : ChunkSteps(c)
  \/ \E n \in 1 .. Cardinality(Client) : matoclserv_timeout_waiting_ops(n)

Next ==
  /\ Step
  /\ m'.next <= MaxChunk + 1
  /\ "overlap" \in faults \/ Undisturbed(m')
  /\ UNCHANGED faults

Spec == Init /\ [][Next]_vars

-----------------------------------------------------------------------------
\* Properties.

\* A chunk counts, per storage class, exactly the places in chunk tables that
\* hold it, and every place holds a chunk that exists: chunk_add_file,
\* chunk_delete_file and chunk_change_file are called once for each change of a
\* table, also when an operation is rolled back.
ChunkRefs ==
  /\ \A x \in Slot : At(m, x) \in DOMAIN m.chunk \cup {0}
  /\ \A c \in DOMAIN m.chunk, k \in Class :
       m.chunk[c].files[k] =
         Cardinality({x \in Slot : At(m, x) = c /\ m.file[x[1]].class = k})

\* Lazy copies behave like copies made at once: what a client writes after a
\* snapshot or an append shows in the file it writes and in no other, whether
\* the shared chunk is copied for it, the copy fails and is rolled back, or the
\* other file is removed meanwhile.
CopiesApart == \A x \in Slot : At(m, x) # 0 => m.chunk[At(m, x)].data = m.val[x]

\* A request is answered once: while its client waits it has one entry, in the
\* list of those who wait for a chunk or of those who wait for an operation
\* that is really under way.
RequestTracked ==
  /\ \A c \in Client :
       Cardinality({n \in DOMAIN m.lw : m.lw[n].client = c})
         + Cardinality({q \in Entries(m) : q.client = c})
           = IF m.cl[c].st = "asked" THEN 1 ELSE 0
  /\ \A c \in Client : m.cl[c].st # "twice"
  /\ \A q \in Entries(m) : m.chunk[q.chunk].op \notin {"NONE", "REPLICATE"}


\* A replay of the change log accepts every line and rebuilds tables, lengths,
\* classes, and the version, lock and file counts of every chunk.
ReplayMatches ==
  LET View(d) ==
        [next  |-> d.next,
         slots |-> [x \in Slot |-> At(d, x)],
         files |-> [f \in File |-> <<d.file[f].state, d.file[f].length, d.file[f].class>>],
         chunk |-> [c \in DOMAIN d.chunk |->
                      <<d.chunk[c].ver, d.chunk[c].files, d.chunk[c].locked>>]]
  IN  m.rep.ok /\ View(m) = View(m.rep)
=============================================================================
