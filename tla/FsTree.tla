------------------------------- MODULE FsTree -------------------------------
(***************************************************************************)
(* The metadata tree of the master (mfsmaster/filesystem.c): nodes, named  *)
(* edges, directory statistics, hard inode quota, trash and sustained      *)
(* files, snapshots, and the list of freed inode numbers, with the replay  *)
(* of the change log (restore.c, the METARESTORE branches) beside it.      *)
(*                                                                         *)
(* The master runs one request at a time, so every operation is one step   *)
(* on fs; the line it logs is applied to replica in the same step.  A      *)
(* file's contents are one tag, 0 for an empty file.  Access rights, times *)
(* and patterns are left out: a caller may do everything, a file in the    *)
(* trash may expire at any moment.                                         *)
(***************************************************************************)
EXTENDS Integers, Sequences, FiniteSets, FiniteSetsExt, SequencesExt

CONSTANTS
  Inode,                    \* inode numbers, Root the first of them
  Name,                     \* names in a directory, in the order of its list
  Data,                     \* contents a file may be given
  Limit,                    \* hard inode limits a quota may set
  KeepEmptyFilesInTrash,    \* the option of mfsmaster.cfg
  MaxOpen,                  \* bound on the inodes held open
  MaxRare                   \* bound on the requests that Rare counts

ASSUME TreeAssumption ==
  /\ Inode = 1 .. Cardinality(Inode)
  /\ Data \subseteq Nat \ {0}
  /\ Limit \subseteq Nat
  /\ KeepEmptyFilesInTrash \in BOOLEAN
  /\ {MaxOpen, MaxRare} \subseteq Nat

VARIABLES
  fs,         \* the metadata of the running master
  replica,    \* the metadata a replay of its change log has built
  accepted,   \* the replay has accepted every line so far
  rare        \* how many of the requests that Rare counts so far

vars == <<fs, replica, accepted, rare>>

Root == 1
NoQuota == -1

-----------------------------------------------------------------------------
\* Nodes and edges.

NewNode(type, keep) ==
  [type |-> type, data |-> 0, keep |-> keep, snap |-> FALSE, path |-> <<>>,
   inodes |-> 0, length |-> 0, hard |-> NoQuota]

Is(s, i, type) == i \in DOMAIN s.node /\ s.node[i].type = type

EdgesTo(s, i) == {e \in s.edge : e.c = i}

lookup(s, p, n) == {e \in s.edge : e.p = p /\ e.n = n}

nameisused(s, p, n) == lookup(s, p, n) # {}

Child(s, p, n) == (CHOOSE e \in lookup(s, p, n) : TRUE).c

\* The edges of a directory's list, in the order the list has.
Children(s, d) ==
  LET named == SelectSeq(Name, LAMBDA n : nameisused(s, d, n))
  IN  [k \in 1 .. Len(named) |-> CHOOSE e \in lookup(s, d, named[k]) : TRUE]

RECURSIVE Up(_, _)
Up(s, D) ==
  LET E == D \cup {e.p : e \in {f \in s.edge : f.c \in D}}
  IN  IF E = D THEN D ELSE Up(s, E)

isancestor(s, f, p) == Is(s, f, "dir") /\ f \in Up(s, {e.p : e \in EdgesTo(s, p)})

RECURSIVE getpath(_, _)
getpath(s, e) ==
  IF e.p = Root
  THEN <<e.n>>
  ELSE Append(getpath(s, CHOOSE f \in EdgesTo(s, e.p) : TRUE), e.n)

-----------------------------------------------------------------------------
\* Statistics and quota.

LengthOf(data) == IF data = 0 THEN 0 ELSE 1

get_stats(s, i) ==
  IF s.node[i].type = "dir"
  THEN [inodes |-> s.node[i].inodes + 1, length |-> s.node[i].length]
  ELSE [inodes |-> 1, length |-> LengthOf(s.node[i].data)]

add_stats(s, p, inodes, length) ==
  LET above == Up(s, {p})
      nodes == s.node
  IN  [s EXCEPT !.node =
         [i \in DOMAIN nodes |->
            IF i \in above
            THEN [nodes[i] EXCEPT !.inodes = @ + inodes, !.length = @ + length]
            ELSE nodes[i]]]

Exceeds(s, d, inodes) ==
  /\ inodes > 0
  /\ s.node[d].hard # NoQuota
  /\ s.node[d].inodes + inodes > s.node[d].hard

test_quota(s, p, inodes) == \E d \in Up(s, {p}) : Exceeds(s, d, inodes)

QuotaAbove(s, p) == {d \in Up(s, {p}) : s.node[d].hard # NoQuota}

test_quota_for_uncommon_nodes(s, dst, src, inodes) ==
  /\ dst # src
  /\ \E d \in QuotaAbove(s, dst) \ QuotaAbove(s, src) : test_quota(s, d, inodes)

Above(a, b) == IF a > b THEN a - b ELSE 0

-----------------------------------------------------------------------------
\* The steps the operations are made of.

get_next_id(s) == Min(Inode \ s.used)

CanCreate(s, k) == Cardinality(Inode \ s.used) >= k

remove_edge(s, e) ==
  LET sr == get_stats(s, e.c)
      t  == add_stats(s, e.p, -sr.inodes, -sr.length)
  IN  [t EXCEPT !.edge = @ \ {e}, !.node[e.p].snap = FALSE]

link(s, p, n, c) ==
  LET sr == get_stats(s, c)
      t  == [s EXCEPT !.edge = @ \cup {[p |-> p, n |-> n, c |-> c]},
                      !.node[p].snap = FALSE]
  IN  add_stats(t, p, sr.inodes, sr.length)

create_node(s, p, n, type) ==
  LET i == get_next_id(s)
      t == [s EXCEPT !.used = @ \cup {i},
                     !.node = (i :> NewNode(type, s.node[p].keep)) @@ @]
  IN  link(t, p, n, i)

remove_node(s, i) ==
  [s EXCEPT !.node = Restrict(@, DOMAIN @ \ {i}), !.free = Append(@, i)]

Space(s, type, data, sign) ==
  IF type \in {"trash", "sustained"}
  THEN [s EXCEPT !.space[type] = @ + sign * LengthOf(data)]
  ELSE s

setlength_OneParent(s, i, data) ==
  LET old  == s.node[i]
      diff == LengthOf(data) - LengthOf(old.data)
      t    == Space(Space(s, old.type, old.data, -1), old.type, data, 1)
      u    == [t EXCEPT !.node[i].data = data, !.node[i].snap = FALSE]
  IN  IF EdgesTo(s, i) = {} THEN u
      ELSE add_stats(u, (CHOOSE e \in EdgesTo(s, i) : TRUE).p, 0, diff)

setlength(s, i, data) ==
  LET old  == s.node[i]
      diff == LengthOf(data) - LengthOf(old.data)
      t    == Space(Space(s, old.type, old.data, -1), old.type, data, 1)
      u    == [t EXCEPT !.node[i].data = data, !.node[i].snap = FALSE]
  IN  FoldSet(LAMBDA e, acc : add_stats(acc, e.p, 0, diff), u, EdgesTo(s, i))

Detached(s, i, type, path) ==
  Space([s EXCEPT !.node[i].type = type, !.node[i].path = path],
        type, s.node[i].data, 1)

unlink(s, e) ==
  LET child     == s.node[e.c]
      isopen    == e.c \in s.open
      gototrash == /\ child.keep
                   /\ child.data # 0 \/ KeepEmptyFilesInTrash \/ isopen
      t         == remove_edge(s, e)
  IN  CASE EdgesTo(t, e.c) # {}              -> t
        [] EdgesTo(t, e.c) = {} /\ child.type = "file" /\ gototrash
             -> Detached(t, e.c, "trash", getpath(s, e))
        [] EdgesTo(t, e.c) = {} /\ child.type = "file" /\ ~gototrash /\ isopen
             -> Detached(t, e.c, "sustained", getpath(s, e))
        [] OTHER                             -> remove_node(t, e.c)

purge_NotAsked(s, i) == remove_node(Space(s, s.node[i].type, s.node[i].data, -1), i)

purge(s, i) ==
  LET nd == s.node[i]
      t  == Space(s, nd.type, nd.data, -1)
  IN  IF nd.type = "trash" /\ i \in s.open
      THEN Detached(t, i, "sustained", nd.path)
      ELSE remove_node(t, i)

\* A file leaves the trash for a place in the tree.
Recovered(s, p, n, i) ==
  LET t == Space(s, "trash", s.node[i].data, -1)
  IN  link([t EXCEPT !.node[i].type = "file", !.node[i].path = <<>>], p, n, i)

-----------------------------------------------------------------------------
\* The operations: each has the test that lets it through, mr for a replay,
\* and the state it leaves.

create_ok(s, mr, p, n) ==
  /\ Is(s, p, "dir")
  /\ ~nameisused(s, p, n)
  /\ mr \/ ~test_quota(s, p, 1)
  /\ CanCreate(s, 1)

unlink_ok(s, p, n) ==
  /\ Is(s, p, "dir")
  /\ nameisused(s, p, n)
  /\ \A e \in s.edge : e.p # Child(s, p, n)

link_ok(s, mr, i, p, n) ==
  /\ Is(s, i, "file")
  /\ Is(s, p, "dir")
  /\ ~nameisused(s, p, n)
  /\ mr \/ ~test_quota(s, p, 1)

\* The inodes the destination's name gives up.
Replaced(s, dp, dn) == IF nameisused(s, dp, dn) THEN get_stats(s, Child(s, dp, dn)).inodes ELSE 0


move_ok(s, mr, sp, sn, dp, dn, rmode) ==
  /\ Is(s, sp, "dir") /\ Is(s, dp, "dir")
  /\ nameisused(s, sp, sn)
  /\ ~isancestor(s, Child(s, sp, sn), dp)
  /\ IF nameisused(s, dp, dn)
     THEN /\ rmode # "NOREPLACE"
          /\ IF rmode = "EXCHANGE"
             THEN ~isancestor(s, Child(s, dp, dn), sp)
             ELSE \A e \in s.edge : e.p # Child(s, dp, dn)
     ELSE rmode # "EXCHANGE"
  /\ mr \/ LET ssr == get_stats(s, Child(s, sp, sn)).inodes
               dsr == Replaced(s, dp, dn)
           IN  /\ ~test_quota_for_uncommon_nodes(s, dp, sp, Above(ssr, dsr))
               /\ rmode = "EXCHANGE"
                    => ~test_quota_for_uncommon_nodes(s, sp, dp, Above(dsr, ssr))

move(s, sp, sn, dp, dn, rmode) ==
  LET se  == CHOOSE e \in lookup(s, sp, sn) : TRUE
      des == lookup(s, dp, dn)
      de  == CHOOSE e \in des : TRUE
      t   == IF des = {} THEN s ELSE unlink(s, de)
  IN  IF rmode = "EXCHANGE"
      THEN link(link(remove_edge(remove_edge(s, se), de), dp, dn, se.c), sp, sn, de.c)
      ELSE link(remove_edge(t, se), dp, dn, se.c)

\* What undel does from directory p on with the rest of the path: the state it
\* leaves, or no state at all when the path cannot be made.
RECURSIVE undel(_, _, _, _)
undel(s, p, path, i) ==
  LET n == Head(path)
  IN  CASE Len(path) = 1 ->
             IF nameisused(s, p, n) THEN {} ELSE {Recovered(s, p, n, i)}
        [] Len(path) > 1 /\ nameisused(s, p, n) ->
             IF Is(s, Child(s, p, n), "dir")
             THEN undel(s, Child(s, p, n), Tail(path), i)
             ELSE {}
        [] OTHER ->
             IF CanCreate(s, 1)
             THEN undel(create_node(s, p, n, "dir"), get_next_id(s), Tail(path), i)
             ELSE {}

\* The names the directory has not in use, the one to take first.
find_uniqname(s, p) == SelectSeq(Name, LAMBDA n : ~nameisused(s, p, n))

\* The same for trash_recover, which takes another name where undel gives up;
\* the result carries the path it used.
RECURSIVE trash_recover(_, _, _, _, _, _)
trash_recover(s, mr, p, path, i, done) ==
  LET n     == Head(path)
      last  == Len(path) = 1
      used  == nameisused(s, p, n)
      funiq == used /\ \/ last
                       \/ ~Is(s, Child(s, p, n), "dir")
                       \/ ~mr /\ test_quota(s, p, 1)
      uniq  == find_uniqname(s, p)
      m     == IF funiq THEN Head(uniq) ELSE n
  IN  CASE funiq /\ uniq = <<>> -> {}
        [] last -> {[s |-> Recovered(s, p, m, i), path |-> Append(done, m)]}
        [] ~last /\ used /\ ~funiq ->
             trash_recover(s, mr, Child(s, p, n), Tail(path), i, Append(done, m))
        [] OTHER ->
             IF CanCreate(s, 1)
             THEN trash_recover(create_node(s, p, m, "dir"), mr, get_next_id(s),
                                Tail(path), i, Append(done, m))
             ELSE {}

freeinodes_KeptLost(s, k, check) ==
  LET due  == ToSet(SubSeq(s.free, 1, k))
  IN  [s EXCEPT !.used = @ \ {i \in due : ~(check /\ i \in s.open)},
                !.free = SubSeq(@, k + 1, Len(@))]

freeinodes(s, k, check) ==
  LET due  == SubSeq(s.free, 1, k)
      kept == SelectSeq(due, LAMBDA i : check /\ i \in s.open)
  IN  [s EXCEPT !.used = @ \ (ToSet(due) \ ToSet(kept)),
                !.free = SubSeq(@, k + 1, Len(@)) \o kept]

SomeOpen(s, k) == \E j \in 1 .. k : s.free[j] \in s.open

-----------------------------------------------------------------------------
\* Snapshots.  A result carries the tree and what the log line reports of it:
\* the inodes removed and made, and the number of objects of each kind.

NoCounts == [chk |-> {}, removed |-> 0, same |-> 0, existing |-> 0, new |-> 0]

Xor(A, B) == (A \ B) \cup (B \ A)

RECURSIVE snapshot_test(_, _, _, _, _)
snapshot_test(s, orig, src, p, n) ==
  nameisused(s, p, n) =>
    LET dst == Child(s, p, n)
    IN  /\ dst # orig
        /\ s.node[dst].type = s.node[src].type
        /\ \A e \in {f \in s.edge : f.p = src} : snapshot_test(s, orig, e.c, dst, e.n)

\* The inodes the destination has already, counted against quota.
RECURSIVE Common(_, _, _, _)
Common(s, src, p, n) ==
  IF ~nameisused(s, p, n)
  THEN 0
  ELSE 1 + (IF Is(s, Child(s, p, n), "dir")
            THEN FoldSet(LAMBDA e, acc : acc + Common(s, e.c, Child(s, p, n), e.n),
                         0, {f \in s.edge : f.p = src})
            ELSE 0)

RECURSIVE snapshot_recursive_test_quota(_, _, _, _)
snapshot_recursive_test_quota(s, src, p, n) ==
  /\ nameisused(s, p, n)
  /\ Is(s, Child(s, p, n), "dir")
  /\ LET dst    == Child(s, p, n)
         kids   == {f \in s.edge : f.p = src}
         common == FoldSet(LAMBDA e, acc : acc + Common(s, e.c, dst, e.n), 0, kids)
     IN  \/ \E e \in kids : snapshot_recursive_test_quota(s, e.c, dst, e.n)
         \/ Exceeds(s, dst, Above(get_stats(s, src).inodes, common))

CopyOf(a, src, p, n) ==
  LET t == create_node(a.s, p, n, a.s.node[src].type)
      i == get_next_id(a.s)
      u == [t EXCEPT !.node[i].keep = a.s.node[src].keep]
  IN  [a EXCEPT !.s   = IF Is(a.s, src, "file") THEN setlength(u, i, a.s.node[src].data) ELSE u,
                !.chk = Xor(@, {i})]

RECURSIVE snapshot(_, _, _, _, _)
snapshot(a, src, p, n, new) ==
  LET exists == ~new /\ nameisused(a.s, p, n)
      dst    == IF exists THEN Child(a.s, p, n) ELSE get_next_id(a.s)
      isdir  == Is(a.s, src, "dir")
      kids   == Children(a.s, src)
      same   == exists /\ ~isdir /\ a.s.node[dst].data = a.s.node[src].data
      Into(b) == FoldLeft(LAMBDA acc, e : snapshot(acc, e.c, dst, e.n, ~exists), b, kids)
      gone   == [a EXCEPT !.s   = unlink(@, CHOOSE e \in lookup(a.s, p, n) : TRUE),
                          !.chk = Xor(@, {dst})]
      over   == get_next_id(gone.s)
      Flagged(b, i) == [b EXCEPT !.s.node[i].snap = TRUE]
  IN  CASE exists /\ isdir -> Flagged(Into([a EXCEPT !.existing = @ + 1]), dst)
        [] same            -> Flagged([a EXCEPT !.same = @ + 1], dst)
        [] exists /\ ~isdir /\ ~same ->
             Flagged([CopyOf(gone, src, p, n) EXCEPT !.existing = @ + 1], over)
        [] OTHER ->
             Flagged(Into([CopyOf(a, src, p, n) EXCEPT !.new = @ + 1]), dst)

snapshot_ok(s, mr, src, p, n) ==
  /\ Is(s, src, "dir") \/ Is(s, src, "file")
  /\ Is(s, p, "dir")
  /\ Is(s, src, "dir") => src # p /\ ~isancestor(s, src, p)
  /\ snapshot_test(s, src, src, p, n)
  /\ \/ mr
     \/ /\ ~snapshot_recursive_test_quota(s, src, p, n)
        /\ ~test_quota(s, p, Above(get_stats(s, src).inodes, Common(s, src, p, n)))

Counts(a) == <<a.chk, a.removed, a.same, a.existing, a.new>>

RECURSIVE remove_snapshot_test(_, _)
remove_snapshot_test(s, i) ==
  /\ s.node[i].snap
  /\ \A e \in {f \in s.edge : f.p = i} : remove_snapshot_test(s, e.c)

RECURSIVE remove_snapshot(_, _)
remove_snapshot(a, e) ==
  LET b == FoldLeft(LAMBDA acc, f : remove_snapshot(acc, f), a, Children(a.s, e.c))
  IN  CASE \E f \in b.s.edge : f.p = e.c -> b
        [] a.s.node[e.c].snap /\ ~\E f \in b.s.edge : f.p = e.c ->
             [b EXCEPT !.s       = unlink([@ EXCEPT !.node[e.c].keep = FALSE], e),
                       !.chk     = Xor(@, {e.c}),
                       !.removed = @ + 1]
        [] OTHER -> b

-----------------------------------------------------------------------------
\* The actions: a request or a periodic task of the master.  It takes effect
\* and is logged when ok; the replay applies the line, and stops for good when
\* okR, its own test or what the line reports, fails.

Logged(ok, new, okR, newR) ==
  /\ ok
  /\ fs' = new
  /\ accepted' = (accepted /\ okR)
  /\ replica' = IF accepted /\ okR THEN newR ELSE replica

Rare ==
  /\ rare < MaxRare
  /\ rare' = rare + 1

Names == ToSet(Name)

Dirs == {i \in DOMAIN fs.node : Is(fs, i, "dir")}

fs_univ_create ==
  \E p \in Dirs, n \in Names, type \in {"file", "dir"} :
    Logged(create_ok(fs, FALSE, p, n), create_node(fs, p, n, type),
           create_ok(replica, TRUE, p, n) /\ get_next_id(replica) = get_next_id(fs),
           create_node(replica, p, n, type))

fs_univ_unlink ==
  \E p \in Dirs, n \in Names :
    Logged(unlink_ok(fs, p, n), unlink(fs, CHOOSE e \in lookup(fs, p, n) : TRUE),
           unlink_ok(replica, p, n) /\ Child(replica, p, n) = Child(fs, p, n),
           unlink(replica, CHOOSE e \in lookup(replica, p, n) : TRUE))

fs_univ_link ==
  \E i \in DOMAIN fs.node, p \in Dirs, n \in Names :
    Logged(link_ok(fs, FALSE, i, p, n), link(fs, p, n, i),
           link_ok(replica, TRUE, i, p, n), link(replica, p, n, i))

\* A request the kernel's own checks let through: it is not a move to the same
\* name, nor of a directory into itself, which the master would not refuse.
Plausible(sp, sn, dp, dn) ==
  /\ <<sp, sn>> # <<dp, dn>>
  /\ \A e \in lookup(fs, sp, sn) : e.c # dp
  /\ \A e \in lookup(fs, dp, dn) : e.c # sp

fs_univ_move ==
  \E sp, dp \in Dirs, sn, dn \in Names, rmode \in {"DEFAULT", "NOREPLACE", "EXCHANGE"} :
    /\ Plausible(sp, sn, dp, dn)
    /\ Logged(move_ok(fs, FALSE, sp, sn, dp, dn, rmode), move(fs, sp, sn, dp, dn, rmode),
              /\ move_ok(replica, TRUE, sp, sn, dp, dn, rmode)
              /\ rmode = "EXCHANGE" \/ Child(replica, sp, sn) = Child(fs, sp, sn),
              move(replica, sp, sn, dp, dn, rmode))

\* A client may still name a file that is gone: of_sync takes its whole list.
of_acquire ==
  \E i \in (DOMAIN fs.node \ Dirs) \cup ToSet(fs.free) :
    Logged(i \notin fs.open /\ Cardinality(fs.open) < MaxOpen, [fs EXCEPT !.open = @ \cup {i}],
           i \notin replica.open, [replica EXCEPT !.open = @ \cup {i}])

of_release ==
  \E i \in fs.open :
    Logged(TRUE, [fs EXCEPT !.open = @ \ {i}],
           i \in replica.open, [replica EXCEPT !.open = @ \ {i}])

\* Data written to a file are not those of any other file.
fs_setlength ==
  \E i \in DOMAIN fs.node \ Dirs :
    \E data \in {0} \cup (Data \ {fs.node[j].data : j \in DOMAIN fs.node}) :
      Logged(fs.node[i].data # data, setlength(fs, i, data),
             i \in DOMAIN replica.node, setlength(replica, i, data))

fs_univ_settrashretention ==
  \E i \in DOMAIN fs.node :
    LET keep == ~fs.node[i].keep
    IN  Logged(TRUE, [fs EXCEPT !.node[i].keep = keep],
               i \in DOMAIN replica.node, [replica EXCEPT !.node[i].keep = keep])

fs_quotacontrol ==
  \E i \in Dirs, hard \in Limit \cup {NoQuota} :
    Logged(fs.node[i].hard # hard, [fs EXCEPT !.node[i].hard = hard],
           Is(replica, i, "dir"), [replica EXCEPT !.node[i].hard = hard])

fs_univ_setpath ==
  \E i \in DOMAIN fs.node, path \in Names \X Names :
    Logged(Is(fs, i, "trash") /\ fs.node[i].path # path, [fs EXCEPT !.node[i].path = path],
           Is(replica, i, "trash"), [replica EXCEPT !.node[i].path = path])

fs_univ_undel ==
  \E i \in DOMAIN fs.node :
    /\ Is(fs, i, "trash")
    /\ \E t \in undel(fs, Root, fs.node[i].path, i) :
         Logged(TRUE, t,
                /\ Is(replica, i, "trash")
                /\ undel(replica, Root, replica.node[i].path, i) # {},
                CHOOSE u \in undel(replica, Root, replica.node[i].path, i) : TRUE)

\* A session asks for a file of the trash below one of its directories.
fs_univ_trash_recover ==
  \E i \in DOMAIN fs.node, p \in Dirs :
    /\ Is(fs, i, "trash")
    /\ ~test_quota(fs, p, 1)
    /\ \E a \in trash_recover(fs, FALSE, p, fs.node[i].path, i, <<>>) :
         LET again == trash_recover(replica, TRUE, p, fs.node[i].path, i, <<>>)
         IN  Logged(TRUE, a.s,
                    Is(replica, i, "trash") /\ \E b \in again : b.path = a.path,
                    (CHOOSE b \in again : TRUE).s)

\* PURGE, TRASH_REMOVE, and EMPTYTRASH for a file that has expired.
fs_univ_purge ==
  \E i \in DOMAIN fs.node :
    Logged(Is(fs, i, "trash"), purge(fs, i),
           Is(replica, i, "trash") /\ (i \in replica.open <=> i \in fs.open),
           purge(replica, i))

fs_univ_emptysustained ==
  \E i \in DOMAIN fs.node \ fs.open :
    Logged(Is(fs, i, "sustained"), purge(fs, i),
           Is(replica, i, "sustained") /\ i \notin replica.open, purge(replica, i))


fs_univ_freeinodes ==
  \E k \in 1 .. Len(fs.free) :
    LET new == freeinodes(fs, k, TRUE)
        rep == freeinodes(replica, k, SomeOpen(fs, k))
    IN  Logged(TRUE, new,
               SubSeq(replica.free, 1, k) = SubSeq(fs.free, 1, k) /\ rep.used = new.used,
               rep)

fs_univ_snapshot ==
  \E src \in DOMAIN fs.node, p \in Dirs, n \in Names :
    LET a == snapshot([s |-> fs] @@ NoCounts, src, p, n, FALSE)
        b == snapshot([s |-> replica] @@ NoCounts, src, p, n, FALSE)
    IN  /\ snapshot_ok(fs, FALSE, src, p, n)
        /\ CanCreate(fs, get_stats(fs, src).inodes)
        /\ Logged(TRUE, a.s,
                  snapshot_ok(replica, TRUE, src, p, n) /\ Counts(b) = Counts(a), b.s)

\* The same call in its mode SNAPSHOT_MODE_DELETE, forced or not.
fs_snapshot_delete ==
  \E p \in Dirs, n \in Names, force \in BOOLEAN :
    /\ nameisused(fs, p, n)
    /\ force \/ remove_snapshot_test(fs, Child(fs, p, n))
    /\ LET a == remove_snapshot([s |-> fs] @@ NoCounts,
                                CHOOSE e \in lookup(fs, p, n) : TRUE)
           b == remove_snapshot([s |-> replica] @@ NoCounts,
                                CHOOSE e \in lookup(replica, p, n) : TRUE)
       IN  Logged(a.s # fs, a.s, nameisused(replica, p, n) /\ Counts(b) = Counts(a), b.s)

Empty ==
  [node  |-> (Root :> NewNode("dir", TRUE)), edge |-> {}, free |-> <<>>, used |-> {Root},
   open  |-> {}, space |-> [trash |-> 0, sustained |-> 0]]

Init ==
  /\ fs = Empty
  /\ replica = fs
  /\ accepted = TRUE
  /\ rare = 0

Next ==
  \/ /\ UNCHANGED rare
     /\ \/ fs_univ_create
        \/ fs_univ_unlink
        \/ fs_univ_link
        \/ fs_univ_move
        \/ of_acquire
        \/ of_release
        \/ fs_univ_undel
        \/ fs_univ_trash_recover
        \/ fs_univ_purge
        \/ fs_univ_emptysustained
        \/ fs_snapshot_delete
  \/ /\ Rare
     /\ \/ fs_setlength
        \/ fs_univ_freeinodes
        \/ fs_univ_snapshot
        \/ fs_quotacontrol
        \/ fs_univ_settrashretention
        \/ fs_univ_setpath

Spec == Init /\ [][Next]_vars

-----------------------------------------------------------------------------
\* Properties.


\* The counters kept by fsnodes_add_stats and fsnodes_sub_stats on the way to the
\* root are those of a fresh count: a directory's are the sums over its names, a
\* hard link counted at each of them, and the space of trash and sustained files
\* is that of the files there.
StatsExact ==
  /\ \A d \in Dirs :
       LET kids == {e \in fs.edge : e.p = d}
           Sum(f(_)) == FoldSet(LAMBDA e, acc : acc + f(get_stats(fs, e.c)), 0, kids)
       IN  /\ fs.node[d].inodes = Sum(LAMBDA sr : sr.inodes)
           /\ fs.node[d].length = Sum(LAMBDA sr : sr.length)
  /\ \A type \in {"trash", "sustained"} :
       fs.space[type] =
         FoldSet(LAMBDA i, acc : acc + LengthOf(fs.node[i].data), 0,
                 {i \in DOMAIN fs.node : Is(fs, i, type)})

\* Every inode number marked in freebitmask belongs to exactly one node or one
\* place in the list of freed numbers (fsnodes_free_id, fs_univ_freeinodes): no
\* number is lost and none is given out twice.
InodesAccounted ==
  /\ fs.used = DOMAIN fs.node \cup ToSet(fs.free)
  /\ DOMAIN fs.node \cap ToSet(fs.free) = {}
  /\ IsInjective(fs.free)

\* While a client holds an inode open, the inode does not disappear under it
\* (fsnodes_unlink, fsnodes_purge, emptysustained keep the file), and a number
\* whose file is gone is not given to a new one (fs_univ_freeinodes).
OpenInodeStable ==
  [][\A i \in fs.open \cap fs'.open : i \in DOMAIN fs.node <=> i \in DOMAIN fs'.node]_vars

\* A replay of the change log accepts every line of the master and arrives at
\* the master's own metadata, although it skips the tests of quota and reads
\* open files and expiry from its own state (the METARESTORE branches).
ReplayMatches == accepted /\ replica = fs

=============================================================================
