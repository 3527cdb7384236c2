------------------------------- MODULE FileLocks -------------------------------
(***************************************************************************)
(* The locks of one file on the master: flock locks (flocklocks.c), POSIX  *)
(* record locks (posixlocks.c), the table of open files they depend on     *)
(* (openfiles.c) and what ends a session (sessions.c), with the changelog  *)
(* they write and the state a replica gets by replaying it (restore.c).    *)
(*                                                                         *)
(* The master is one thread, so a command is one step.  A command that has *)
(* to wait is answered later; an owner may have several threads waiting.   *)
(* The two kinds of locks have nothing in common but the open files:       *)
(* "family" says which of them the clients of a behaviour use.             *)
(***************************************************************************)
EXTENDS Integers, Sequences, FiniteSets, SequencesExt

CONSTANTS
    Owner,       \* lock owners
    PosixOwner,  \* those of them that use POSIX locks
    Session,     \* sessions
    sessionOf,   \* the session of each owner
    Req,         \* requests an owner may have at a time
    MaxQueue,    \* bound: locks that wait
    Length,      \* bytes of the file that can be locked
    MODE,        \* the values of FLOCK_MODE looked at
    Beyond       \* whether the replica is followed when clean is FALSE

ASSUME LockAssumption ==
    /\ sessionOf \in [Owner -> Session] /\ Length \in Nat /\ MaxQueue \in Nat /\ MODE \subseteq {"CORRECT", "BSD", "LINUX"}
    /\ PosixOwner \subseteq Owner /\ Beyond \in BOOLEAN

VARIABLES
    family,      \* the locks used: "flock" or "posix"
    FlocksMode,
    files,       \* the sessions that have the file open (ofrelation)
    conn,        \* the sessions with a connection
    locks,       \* active and waiting locks of the file
    pend,        \* the requests the clients wait for
    held,        \* what each owner has of each byte, by the meaning of the calls
    replica,     \* what replaying the changelog gives
    clean        \* FALSE after a change of an active flock by a TRY command, or
                 \* the end of a session for whose POSIX locks another one waits

vars == <<family, FlocksMode, files, conn, locks, pend, held, replica, clean>>

\* Locks in memory: flock locks are a set with one type each, POSIX locks a list
\* of ranges per owner.  log and wake collect what a command writes and answers.
Empty == [act |-> {}, ranges |-> [o \in Owner |-> <<>>], wait |-> <<>>]
Begin == [act |-> locks.act, ranges |-> locks.ranges, wait |-> locks.wait, log |-> <<>>, wake |-> {}]

Logged(F, e) == [F EXCEPT !.log = Append(@, e)]
Waiting(F, i, s) == [F EXCEPT !.wait = RemoveAt(@, i), !.wake = @ \cup s]

-------------------------------------------------------------------------------
\* flock

\* A reader that does not wait behind those who wait already.
flock_check_Barging(F, t) ==
    IF t = "R" THEN \E l \in F.act : l.t = "W" ELSE F.act # {}

\* Whether a new lock of type t has to wait.
flock_check(F, t) ==
    IF t = "R"
    THEN (\E l \in F.act : l.t = "W") \/ (FlocksMode = "CORRECT" /\ F.wait # <<>>)
    ELSE F.act # {}

\* The lock becomes active, which is logged, and its requests are answered.
flock_lock_inode_attach(F, o, t) ==
    Logged([F EXCEPT !.act = @ \cup {[own |-> o, t |-> t]}], <<"FLOCK", o, t>>)

Activate(F, i) ==
    LET l == F.wait[i] IN
    flock_lock_inode_attach(Waiting(F, i, {<<l.own, r>> : r \in l.reqs}), l.own, l.t)

FirstReader(F) == SelectInSeq(F.wait, LAMBDA l : l.t = "R")

\* Readers from the queue: in LINUX mode all of them, else those at its head.
RECURSIVE ActivateReaders(_)
ActivateReaders(F) ==
    LET i == FirstReader(F) IN
    IF i = 0 \/ (FlocksMode # "LINUX" /\ i > 1) THEN F ELSE ActivateReaders(Activate(F, i))

\* The readers behind the writer that was just activated.
flock_lock_check_waiting_NotRead(F) ==
    IF F.wait = <<>> THEN F
    ELSE ActivateReaders(IF F.act = {} /\ F.wait[1].t = "W" THEN Activate(F, 1) ELSE F)

flock_lock_check_waiting(F) ==
    IF F.wait = <<>> THEN F
    ELSE LET G == IF F.act = {} /\ F.wait[1].t = "W" THEN Activate(F, 1) ELSE F
         IN  IF \A l \in G.act : l.t = "R" THEN ActivateReaders(G) ELSE G

\* A lock that is removed without an entry in the changelog.
flock_lock_remove_NotLogged(F, o) == [F EXCEPT !.act = {l \in @ : l.own # o}]

flock_lock_remove(F, o) ==
    Logged([F EXCEPT !.act = {l \in @ : l.own # o}], <<"FLOCK", o, "U">>)

flock_lock_unlock(F, o) ==
    LET G == flock_lock_remove(F, o) IN
    IF G.act = {} /\ G.wait # <<>> THEN flock_lock_check_waiting(G) ELSE G

flock_lock_new(F, o, t, r) ==
    IF flock_check(F, t)
    THEN [F EXCEPT !.wait = Append(@, [own |-> o, t |-> t, reqs |-> {r}])]
    ELSE Logged([F EXCEPT !.act = @ \cup {[own |-> o, t |-> t]}, !.wake = @ \cup {<<o, r>>}], <<"FLOCK", o, t>>)

ActiveType(o) == {l.t : l \in {k \in locks.act : k.own = o}}
WaitPos(o) == SelectInSeq(locks.wait, LAMBDA l : l.own = o)
Answered(F, o, r) == [F EXCEPT !.wake = @ \cup {<<o, r>>}]

\* The locks of an owner changed in place by a TRY command are not logged.
SetType(F, o, t) == [F EXCEPT !.act = {l \in @ : l.own # o} \cup {[own |-> o, t |-> t]}]

\* A command of an owner with an active lock ...
flock_active(o, r, op) ==
    LET F == Answered(Begin, o, r) t == CHOOSE t \in ActiveType(o) : TRUE IN
    CASE op \in {"UNLOCK", "RELEASE"} -> flock_lock_unlock(F, o)
      [] op \in {"TRY_SHARED", "LOCK_SHARED"} /\ t = "R" -> F
      [] op \in {"TRY_EXCLUSIVE", "LOCK_EXCLUSIVE"} /\ t = "W" -> F
      [] op = "TRY_SHARED" /\ t = "W" -> flock_lock_check_waiting(SetType(F, o, "R"))
      [] op = "TRY_EXCLUSIVE" /\ t = "R" -> IF Cardinality(F.act) = 1 THEN SetType(F, o, "W") ELSE F
      [] op = "LOCK_SHARED" /\ t = "W" -> flock_lock_new(flock_lock_unlock(Begin, o), o, "R", r)
      [] op = "LOCK_EXCLUSIVE" /\ t = "R" -> flock_lock_new(flock_lock_unlock(Begin, o), o, "W", r)

\* A waiting lock that changes its type and forgets who waits for it.
flock_waiting_NotWoken(o, r, op) ==
    LET i == WaitPos(o) t == IF op = "LOCK_SHARED" THEN "R" ELSE "W" IN
    IF op \in {"LOCK_SHARED", "LOCK_EXCLUSIVE"}
    THEN [Begin EXCEPT !.wait[i] = [own |-> o, t |-> t, reqs |-> {r}]]
    ELSE Answered(Begin, o, r)

\* ... of one with a waiting lock ...
flock_waiting(o, r, op) ==
    LET i == WaitPos(o) l == locks.wait[i] F == Answered(Begin, o, r)
        all == {<<o, q>> : q \in l.reqs}
        t == IF op = "LOCK_SHARED" THEN "R" ELSE "W" IN
    CASE op = "RELEASE" \/ (op = "UNLOCK" /\ FlocksMode = "CORRECT") -> Waiting(F, i, all)
      [] op = "UNLOCK" /\ FlocksMode # "CORRECT" -> F
      [] op \in {"TRY_SHARED", "TRY_EXCLUSIVE"} -> F
      [] op \in {"LOCK_SHARED", "LOCK_EXCLUSIVE"} /\ l.t = t ->
            [Begin EXCEPT !.wait[i].reqs = @ \cup {r}]
      [] op \in {"LOCK_SHARED", "LOCK_EXCLUSIVE"} /\ l.t # t ->
            [Begin EXCEPT !.wait[i] = [own |-> o, t |-> t, reqs |-> {r}], !.wake = all]

\* ... and of one with none.
flock_none(o, r, op) ==
    LET t == IF op \in {"TRY_SHARED", "LOCK_SHARED"} THEN "R" ELSE "W" IN
    IF op \in {"UNLOCK", "RELEASE"} \/ (op \in {"TRY_SHARED", "TRY_EXCLUSIVE"} /\ flock_check(Begin, t))
    THEN Answered(Begin, o, r)
    ELSE flock_lock_new(Begin, o, t, r)

flock_locks_op(o, r, op) ==
    IF ActiveType(o) # {} THEN flock_active(o, r, op)
    ELSE IF WaitPos(o) # 0 THEN flock_waiting(o, r, op)
    ELSE flock_none(o, r, op)

\* FLOCK_INTERRUPT: one request is taken out of the queue, the lock with the
\* last of its requests.  The locks behind it are not looked at.
flock_interrupt(o, r) ==
    LET i == WaitPos(o) IN
    IF i = 0 \/ r \notin locks.wait[i].reqs THEN Begin
    ELSE IF locks.wait[i].reqs = {r} THEN Waiting(Begin, i, {<<o, r>>})
    ELSE [Begin EXCEPT !.wait[i].reqs = @ \ {r}, !.wake = {<<o, r>>}]

WithoutWaiters(F, S) == [F EXCEPT !.wait = SelectSeq(@, LAMBDA l : l.own \notin S)]

RECURSIVE UnlockAll(_, _)
UnlockAll(F, S) ==
    IF S = {} THEN F
    ELSE LET o == CHOOSE o \in S : TRUE IN UnlockAll(flock_lock_unlock(F, o), S \ {o})

OwnersOf(s) == {o \in Owner : sessionOf[o] = s}

flock_file_closed(F, s) ==
    UnlockAll(WithoutWaiters(F, OwnersOf(s)), {l.own : l \in {k \in F.act : sessionOf[k.own] = s}})

-------------------------------------------------------------------------------
\* POSIX locks: the active ranges [start,end) of an owner are a sorted list.

NewRange(t, s, e) == [t |-> t, s |-> s, e |-> e]
New(t, s, e) == IF t = "U" THEN <<>> ELSE <<NewRange(t, s, e)>>

\* The right end of a range that is split is lost.
RECURSIVE posix_lock_apply_range_NoSplit(_, _, _, _)
posix_lock_apply_range_NoSplit(rs, t, s, e) ==
    IF rs = <<>> THEN New(t, s, e)
    ELSE LET r == Head(rs)
             rest == Tail(rs) IN
    CASE r.e < s -> <<r>> \o posix_lock_apply_range_NoSplit(rest, t, s, e)
      [] r.s > e -> New(t, s, e) \o rs
      [] r.s <= e /\ s <= r.s -> posix_lock_apply_range_NoSplit(rest, t, s, e)
      [] r.e >= s /\ r.s < s ->
            IF r.t = t THEN rs ELSE <<NewRange(r.t, r.s, s)>> \o New(t, s, e) \o rest

RECURSIVE posix_lock_apply_range(_, _, _, _)
posix_lock_apply_range(rs, t, s, e) ==
    IF rs = <<>> THEN New(t, s, e)
    ELSE LET r == Head(rs)
             rest == Tail(rs) IN
    CASE r.e < s -> <<r>> \o posix_lock_apply_range(rest, t, s, e)
      [] r.s > e -> New(t, s, e) \o rs
      [] s <= r.s /\ r.e <= e -> posix_lock_apply_range(rest, t, s, e)
      [] r.e >= s /\ r.s < s /\ r.e <= e ->
            IF r.t = t THEN posix_lock_apply_range(rest, t, r.s, e)
            ELSE <<NewRange(r.t, r.s, s)>> \o posix_lock_apply_range(rest, t, s, e)
      [] r.s <= e /\ r.s >= s /\ r.e > e ->
            IF r.t = t THEN <<NewRange(t, s, r.e)>> \o rest
            ELSE New(t, s, e) \o <<NewRange(r.t, e, r.e)>> \o rest
      [] r.s < s /\ r.e > e ->
            IF r.t = t THEN rs
            ELSE <<NewRange(r.t, r.s, s)>> \o New(t, s, e) \o <<NewRange(r.t, e, r.e)>> \o rest

posix_lock_test_wlock(rs, t, s, e) ==
    \E i \in DOMAIN rs : rs[i].s < e /\ s < rs[i].e /\ (t = "W" \/ rs[i].t = "W")

posix_lock_find_offensive_lock(ranges, o, t, s, e) ==
    \E p \in Owner \ {o} : posix_lock_test_wlock(ranges[p], t, s, e)

posix_lock_apply_lock(F, o, t, s, e) ==
    Logged([F EXCEPT !.ranges[o] = posix_lock_apply_range(@, t, s, e)], <<"POSIX", o, t, s, e>>)

\* One pass over the queue: a lock that nothing offends is taken out of it.
RECURSIVE CheckFrom(_, _)
CheckFrom(F, i) ==
    IF i > Len(F.wait) THEN F
    ELSE LET w == F.wait[i] IN
         IF posix_lock_find_offensive_lock(F.ranges, w.own, w.t, w.s, w.e) THEN CheckFrom(F, i + 1)
         ELSE CheckFrom(posix_lock_apply_lock(Waiting(F, i, {<<w.own, w.req>>}), w.own, w.t, w.s, w.e), i)

posix_lock_check_waiting(F) == CheckFrom(F, 1)

NoRecord(F) == F.wait = <<>> /\ \A o \in Owner : F.ranges[o] = <<>>

\* POSIX_LOCK_CMD_SET.  POSIX_LOCK_CMD_TRY does the same when no lock is in the
\* way, and nothing (EAGAIN) when there is one.
posix_lock_op(o, r, t, s, e) ==
    LET F == Answered(Begin, o, r) IN
    CASE t = "U" /\ NoRecord(F) -> F
      [] t # "U" /\ posix_lock_find_offensive_lock(F.ranges, o, t, s, e) ->
            [Begin EXCEPT !.wait = Append(@, [own |-> o, t |-> t, s |-> s, e |-> e, req |-> r])]
      [] OTHER -> posix_lock_check_waiting(posix_lock_apply_lock(F, o, t, s, e))

posix_lock_interrupt(o, r) ==
    LET i == SelectInSeq(locks.wait, LAMBDA w : w.own = o /\ w.req = r) IN
    IF i = 0 THEN Begin ELSE Waiting(Begin, i, {<<o, r>>})

\* The ranges of the session are dropped, which is not logged.
posix_lock_file_closed(F, s) ==
    LET G == [WithoutWaiters(F, OwnersOf(s)) EXCEPT
                 !.ranges = [o \in Owner |-> IF sessionOf[o] = s THEN <<>> ELSE @[o]]] IN
    IF G.ranges = F.ranges THEN G ELSE posix_lock_check_waiting(G)

-------------------------------------------------------------------------------
\* Replaying the changelog: a refused entry ends the replay.

\* A lock of the replica is removed, a new one must not conflict with its others.
flock_mr_change(R, o, t) ==
    IF t = "U"
    THEN IF \E l \in R.act : l.own = o THEN [R EXCEPT !.act = {l \in @ : l.own # o}]
         ELSE [R EXCEPT !.ok = FALSE]
    ELSE IF R.act # {} /\ (t = "W" \/ \E l \in R.act : l.t = "W") THEN [R EXCEPT !.ok = FALSE]
         ELSE [R EXCEPT !.act = @ \cup {[own |-> o, t |-> t]}]

posix_lock_mr_change(R, o, t, s, e) ==
    IF (t = "U" /\ \A p \in Owner : R.ranges[p] = <<>>)
         \/ (t # "U" /\ posix_lock_find_offensive_lock(R.ranges, o, t, s, e))
    THEN [R EXCEPT !.ok = FALSE]
    ELSE [R EXCEPT !.ranges[o] = posix_lock_apply_range(@, t, s, e)]

\* RELEASE, and SESDEL, drop the locks of the session.
of_mr_release(R, s) ==
    [R EXCEPT !.ok = s \in R.files, !.files = @ \ {s}, !.act = {l \in @ : sessionOf[l.own] # s},
              !.ranges = [o \in Owner |-> IF sessionOf[o] = s THEN <<>> ELSE @[o]]]

of_mr_acquire(R, s) == [R EXCEPT !.ok = s \notin R.files, !.files = @ \cup {s}]

ReplayEntry(R, x) ==
    CASE ~R.ok -> R
      [] R.ok /\ x[1] = "FLOCK" -> flock_mr_change(R, x[2], x[3])
      [] R.ok /\ x[1] = "POSIX" -> posix_lock_mr_change(R, x[2], x[3], x[4], x[5])
      [] R.ok /\ x[1] = "RELEASE" -> of_mr_release(R, x[2])
      [] R.ok /\ x[1] = "ACQUIRE" -> of_mr_acquire(R, x[2])

NoLocks == [act |-> {}, ranges |-> Empty.ranges, files |-> {}, ok |-> TRUE]

Replay(log) == replica' = IF clean' \/ Beyond THEN FoldLeft(ReplayEntry, replica, log) ELSE NoLocks

-------------------------------------------------------------------------------
Init ==
    /\ family \in {"flock", "posix"}
    /\ FlocksMode \in IF family = "flock" THEN MODE ELSE {"CORRECT"}
    /\ files = {} /\ conn = Session
    /\ locks = Empty
    /\ pend = {}
    /\ held = [o \in Owner |-> [b \in 0 .. Length - 1 |-> "U"]]
    /\ replica = NoLocks
    /\ clean = TRUE

\* The client numbers its requests: a number is used again when it is free.
FreeReq(o) == {r \in Req : <<o, r>> \notin pend /\ \A q \in Req : <<o, q>> \notin pend => r <= q}

\* What a command leaves, logs and answers.
Done(F, log) ==
    /\ locks' = [act |-> F.act, ranges |-> F.ranges, wait |-> F.wait]
    /\ Replay(log)

Command(o, r, F) ==
    /\ sessionOf[o] \in conn /\ Len(F.wait) <= MaxQueue
    /\ Done(F, F.log)
    /\ pend' = (pend \cup {<<o, r>>}) \ F.wake
    /\ UNCHANGED <<family, FlocksMode, files, conn>>

ConvertsActive(o, op) ==
    \/ op = "TRY_SHARED" /\ "W" \in ActiveType(o)
    \/ op = "TRY_EXCLUSIVE" /\ "R" \in ActiveType(o) /\ Cardinality(locks.act) = 1

flock_locks_cmd(o, r, op) ==
    /\ family = "flock"
    /\ op = "RELEASE" \/ sessionOf[o] \in files
    /\ clean' = (clean /\ ~ConvertsActive(o, op))
    /\ Command(o, r, flock_locks_op(o, r, op))
    /\ UNCHANGED held

\* The meaning of the ranges applied by the log, byte by byte.
RECURSIVE Meaning(_, _)
Meaning(h, log) ==
    IF log = <<>> THEN h
    ELSE LET x == Head(log) IN
         Meaning([h EXCEPT ![x[2]] = [b \in DOMAIN @ |-> IF x[4] <= b /\ b < x[5] THEN x[3] ELSE @[b]]], Tail(log))

posix_lock_cmd(o, r, t, s, e) ==
    /\ family = "posix" /\ o \in PosixOwner
    /\ t = "U" \/ sessionOf[o] \in files
    /\ UNCHANGED clean
    /\ LET F == posix_lock_op(o, r, t, s, e) IN
       Command(o, r, F) /\ held' = Meaning(held, F.log)

\* FLOCK_INTERRUPT and POSIX_LOCK_CMD_INT
Interrupt(o, r) ==
    /\ <<o, r>> \in pend /\ sessionOf[o] \in conn
    /\ UNCHANGED <<family, FlocksMode, files, conn, held, clean>>
    /\ LET F == IF family = "flock" THEN flock_interrupt(o, r) ELSE posix_lock_interrupt(o, r) IN
       Done(F, F.log) /\ pend' = pend \ F.wake

of_openfile(s) ==
    /\ s \in conn \ files
    /\ files' = files \cup {s}
    /\ UNCHANGED <<family, FlocksMode, conn, locks, pend, held, clean>>
    /\ Replay(<<<<"ACQUIRE", s>>>>)

\* The file is taken off the open files of the session and its locks go, then the
\* change of the open files is logged.
of_delnode(s) ==
    LET F == posix_lock_file_closed(flock_file_closed(Begin, s), s) IN
    /\ files' = files \ {s}
    /\ clean' = (clean /\ (family = "flock" \/ F.log = <<>>))
    /\ Done(F, Append(F.log, <<"RELEASE", s>>))
    /\ pend' = {q \in pend : sessionOf[q[1]] # s} \ F.wake
    /\ held' = IF family = "posix"
               THEN Meaning([o \in Owner |-> IF sessionOf[o] = s THEN [b \in DOMAIN held[o] |-> "U"] ELSE held[o]], F.log)
               ELSE held
    /\ UNCHANGED <<family, FlocksMode, conn>>

\* The client closes a file it has no command under way for.
of_sync(s) ==
    /\ s \in conn \cap files
    /\ \A q \in pend : sessionOf[q[1]] # s
    /\ of_delnode(s)

\* A lost connection takes the waiting locks, the active ones stay.
flock_disconnected(s) ==
    /\ s \in conn
    /\ conn' = conn \ {s}
    /\ UNCHANGED <<family, FlocksMode, files, held, clean>>
    /\ Done(WithoutWaiters(Begin, OwnersOf(s)), <<>>)
    /\ pend' = {q \in pend : sessionOf[q[1]] # s}

sessions_attach_session(s) ==
    /\ s \notin conn
    /\ conn' = conn \cup {s}
    /\ UNCHANGED <<family, FlocksMode, files, locks, pend, held, replica, clean>>

\* A session without a connection for too long is removed.
sessions_check(s) == s \in files \ conn /\ of_delnode(s)

FlockOp == {"TRY_SHARED", "TRY_EXCLUSIVE", "LOCK_SHARED", "LOCK_EXCLUSIVE", "UNLOCK", "RELEASE"}

Next ==
    \/ \E o \in Owner : \E r \in FreeReq(o) :
          \/ \E op \in FlockOp : flock_locks_cmd(o, r, op)
          \/ \E t \in {"R", "W", "U"}, s \in 0 .. Length - 1, e \in 1 .. Length :
                s < e /\ posix_lock_cmd(o, r, t, s, e)
    \/ \E o \in Owner, r \in Req : Interrupt(o, r)
    \/ \E s \in Session :
          of_openfile(s) \/ of_sync(s) \/ flock_disconnected(s) \/ sessions_attach_session(s) \/ sessions_check(s)

\* Those who have flock locks let go of them: a client unlocks in the end, however
\* often its connection breaks, and the session of one that is gone is removed.
\* One of the two can happen whenever there is an active lock, so this is weak
\* fairness of the steps in which an owner loses its lock.
LetGo == \E l \in locks.act : \A k \in locks'.act : k.own # l.own

Fairness == []<>(locks.act = {}) \/ []<><<LetGo>>_vars

Spec == Init /\ [][Next]_vars /\ Fairness

-------------------------------------------------------------------------------
\* Two owners never have conflicting locks at the same time, whichever of flock's
\* and fcntl's commands, conversions, interrupts and disconnections led there.
Exclusion ==
    /\ \A k, l \in locks.act : k # l => k.own # l.own /\ k.t = "R" /\ l.t = "R"
    /\ \A o, p \in Owner : o # p => \A b \in 0 .. Length - 1 :
          held[o][b] = "W" => held[p][b] = "U"

\* The list of ranges says of every byte what the calls mean, and it is the list
\* posix_lock_load accepts: sorted, without an empty range, and with no two
\* neighbours of one type that touch.
RangesExact ==
    \A o \in Owner : LET rs == locks.ranges[o] IN
        /\ \A b \in 0 .. Length - 1 :
              held[o][b] = IF \E i \in DOMAIN rs : rs[i].s <= b /\ b < rs[i].e
                           THEN rs[CHOOSE i \in DOMAIN rs : rs[i].s <= b /\ b < rs[i].e].t ELSE "U"
        /\ \A i \in DOMAIN rs : rs[i].s < rs[i].e
        /\ \A i \in 1 .. Len(rs) - 1 :
              rs[i].e < rs[i + 1].s \/ (rs[i].e = rs[i + 1].s /\ rs[i].t # rs[i + 1].t)

\* A client waits for an answer exactly while its request is in the queue: no
\* conversion, interrupt or disconnection drops a request without an answer, and
\* none is answered twice.  Nobody waits for a file on which nobody has a lock,
\* and only the sessions that have the file open have locks on it.
WaitersKept ==
    /\ pend = UNION {IF family = "flock" THEN {<<locks.wait[i].own, r>> : r \in locks.wait[i].reqs}
                     ELSE {<<locks.wait[i].own, locks.wait[i].req>>} : i \in DOMAIN locks.wait}
    /\ locks.wait # <<>> => locks.act # {} \/ \E o \in Owner : locks.ranges[o] # <<>>
    /\ \A o \in Owner : ActiveType(o) # {} \/ locks.ranges[o] # <<>> => sessionOf[o] \in files

\* Replaying the changelog gives the locks of the master, as long as no lock is
\* changed by a TRY command and no session ends while its POSIX locks are waited for.
ReplayMatches ==
    clean => replica = [act |-> locks.act, ranges |-> locks.ranges, files |-> files, ok |-> TRUE]

\* No entry of the changelog is refused when it is replayed: the master can be
\* started again from its metadata and changelogs.
ReplayAccepted == replica.ok

\* In MODE_CORRECT a lock that waits is granted, cancelled or gone in the end
\* ("it avoids writer starvation"), when those who have locks unlock them.
NoStarvation ==
    \A o \in Owner : []<>(FlocksMode # "CORRECT" \/ family # "flock" \/ WaitPos(o) = 0)

================================================================================
