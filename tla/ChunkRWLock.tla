---- MODULE ChunkRWLock ----
(***************************************************************************)
(* The client's per-chunk readers-writer lock, mfsclient/chunkrwlock.c.    *)
(*                                                                         *)
(* A lock record (chunkrec) exists only while somebody holds or waits for  *)
(* the lock of a chunk: chunkrwlock_get takes one from the list of free    *)
(* blocks or from malloc, chunkrwlock_release gives it back when all four  *)
(* of its counters are zero.  A thread that sleeps in pthread_cond_wait    *)
(* keeps its pointer to the record, so the record must stay the one of its *)
(* chunk until that thread has gone on.                                    *)
(*                                                                         *)
(* One step is one critical section of glock: from pthread_mutex_lock (or  *)
(* the return of pthread_cond_wait) to the next wait or unlock.            *)
(***************************************************************************)
EXTENDS Naturals, FiniteSets

CONSTANTS
    Threads,    \* worker threads of the client that read and write chunks
    Chunks,     \* pairs (inode,indx)
    Blocks,     \* memory blocks that can hold a chunkrec
    MaxFree,    \* a block is kept for reuse unless more than this are kept (1024)
    NULL        \* no record / no chunk

ASSUME ThreadsAssumption == IsFiniteSet(Threads)
ASSUME MaxFreeAssumption == MaxFree \in Nat
ASSUME NullAssumption == NULL \notin Blocks /\ NULL \notin Chunks

VARIABLES
    hashtab,    \* the record of each chunk that is in the hash table
    freeblocks, \* records kept for reuse
    rec,        \* contents of the records
    pc,         \* where each thread is
    chunk,      \* the chunk a thread locks, or has locked
    cr          \* the record pointer a waiting thread holds

vars == <<hashtab, freeblocks, rec, pc, chunk, cr>>

ChunkRec == [writing : {0, 1}, active_readers_cnt : Nat,
             waiting_readers_cnt : Nat, waiting_writers_cnt : Nat]

PC == {"idle", "rwait", "rwoken", "reading", "wwait", "wwoken", "writing"}

\* A record with the given counters.
Counters(w, ar, wr, ww) ==
    [writing |-> w, active_readers_cnt |-> ar, waiting_readers_cnt |-> wr, waiting_writers_cnt |-> ww]

ZeroRec == Counters(0, 0, 0, 0)

\* Record r with one more waiting reader, waiting writer; with a waiting reader,
\* a waiting writer let in; with a reader, the writer gone.
AddWaitingReader(r) ==
    Counters(r.writing, r.active_readers_cnt, r.waiting_readers_cnt + 1, r.waiting_writers_cnt)
AddWaitingWriter(r) ==
    Counters(r.writing, r.active_readers_cnt, r.waiting_readers_cnt, r.waiting_writers_cnt + 1)
ReaderEnters(r) ==
    Counters(r.writing, r.active_readers_cnt + 1, r.waiting_readers_cnt - 1, r.waiting_writers_cnt)
WriterEnters(r) ==
    Counters(1, r.active_readers_cnt, r.waiting_readers_cnt, r.waiting_writers_cnt - 1)
ReaderLeaves(r) ==
    Counters(r.writing, r.active_readers_cnt - 1, r.waiting_readers_cnt, r.waiting_writers_cnt)
WriterLeaves(r) ==
    Counters(0, r.active_readers_cnt, r.waiting_readers_cnt, r.waiting_writers_cnt)

\* Types; the counters of a record are unsigned in the code, so that one that is
\* counted down from zero by chunkrwlock_runlock shows here.
TypeOK ==
    /\ hashtab \in [Chunks -> Blocks \cup {NULL}]
    /\ freeblocks \in SUBSET Blocks
    /\ rec \in [Blocks -> ChunkRec]
    /\ pc \in [Threads -> PC]
    /\ chunk \in [Threads -> Chunks \cup {NULL}]
    /\ cr \in [Threads -> Blocks \cup {NULL}]

Init ==
    /\ hashtab = [k \in Chunks |-> NULL]
    /\ freeblocks = {}
    /\ rec = [b \in Blocks |-> ZeroRec]
    /\ pc = [t \in Threads |-> "idle"]
    /\ chunk = [t \in Threads |-> NULL]
    /\ cr = [t \in Threads |-> NULL]

----------------------------------------------------------------------------
\* Blocks that malloc may return: neither in the hash table nor kept for reuse.
Unallocated == {b \in Blocks : b \notin freeblocks /\ \A k \in Chunks : hashtab[k] # b}

\* The block chunkrwlock_get(k) may return: the record in the hash table, else
\* a free block, else a new one.
GetBlock(k) ==
    IF hashtab[k] # NULL THEN {hashtab[k]}
    ELSE IF freeblocks # {} THEN freeblocks ELSE Unallocated

\* The contents of that block on return: a record just inserted is cleared.
GetRec(k, b) == IF hashtab[k] # NULL THEN rec[b] ELSE ZeroRec

\* Mutant: the test of chunkrwlock_release forgets the two waiting counters.
Release_IgnoresWaiters(k, b, r) ==
    /\ rec' = [rec EXCEPT ![b] = r]
    /\ IF r.writing = 0 /\ r.active_readers_cnt = 0
         THEN /\ hashtab' = [hashtab EXCEPT ![k] = NULL]
              /\ freeblocks' = freeblocks \cup {b}
         ELSE /\ hashtab' = [hashtab EXCEPT ![k] = b]
              /\ freeblocks' = freeblocks \ {b}

\* Mutant: the record goes to the free list without being unlinked.
Release_KeepsLink(k, b, r) ==
    /\ rec' = [rec EXCEPT ![b] = r]
    /\ hashtab' = [hashtab EXCEPT ![k] = b]
    /\ freeblocks' = IF r = ZeroRec THEN freeblocks \cup {b} ELSE freeblocks \ {b}

\* chunkrwlock_release of block b of chunk k with contents r: a record that
\* nobody uses leaves the hash table.
Release(k, b, r) ==
    /\ rec' = [rec EXCEPT ![b] = r]
    /\ IF r = ZeroRec
         THEN /\ hashtab' = [hashtab EXCEPT ![k] = NULL]
              /\ freeblocks' = IF Cardinality(freeblocks \ {b}) > MaxFree
                                 THEN freeblocks \ {b} ELSE freeblocks \cup {b}
         ELSE /\ hashtab' = [hashtab EXCEPT ![k] = b]
              /\ freeblocks' = freeblocks \ {b}

\* pthread_cond_wait on block b of chunk k: the record stays in the hash table.
Wait(k, b, r) ==
    /\ rec' = [rec EXCEPT ![b] = r]
    /\ hashtab' = [hashtab EXCEPT ![k] = b]
    /\ freeblocks' = freeblocks \ {b}

\* Threads that sleep on a condition of block b.
Sleeping(b, at) == {t \in Threads : pc[t] = at /\ cr[t] = b}

\* pc after thread t goes to "idle" and the threads w are woken.
Woken(t, w, to) == [u \in Threads |-> IF u = t THEN "idle" ELSE IF u \in w THEN to ELSE pc[u]]

----------------------------------------------------------------------------
\* Mutant: a reader waits only for waiting writers, not for the one inside.
RTry_IgnoresWriting(t, k, b, r) ==
    IF r.waiting_writers_cnt # 0
      THEN /\ Wait(k, b, r)
           /\ pc' = [pc EXCEPT ![t] = "rwait"]
      ELSE /\ Release(k, b, ReaderEnters(r))
           /\ pc' = [pc EXCEPT ![t] = "reading"]

\* Mutant: a reader does not let waiting writers go first.
RTry_IgnoresWaitingWriters(t, k, b, r) ==
    IF r.writing # 0
      THEN /\ Wait(k, b, r)
           /\ pc' = [pc EXCEPT ![t] = "rwait"]
      ELSE /\ Release(k, b, ReaderEnters(r))
           /\ pc' = [pc EXCEPT ![t] = "reading"]

\* The test at the head of the loop of chunkrwlock_rlock, and what follows it.
\* r counts the thread as waiting.
RTry(t, k, b, r) ==
    IF r.writing # 0 \/ r.waiting_writers_cnt # 0
      THEN /\ Wait(k, b, r)
           /\ pc' = [pc EXCEPT ![t] = "rwait"]
      ELSE /\ Release(k, b, ReaderEnters(r))
           /\ pc' = [pc EXCEPT ![t] = "reading"]

chunkrwlock_rlock(t, k) ==
    /\ pc[t] = "idle"
    /\ \E b \in GetBlock(k) :
         /\ RTry(t, k, b, AddWaitingReader(GetRec(k, b)))
         /\ cr' = [cr EXCEPT ![t] = b]
    /\ chunk' = [chunk EXCEPT ![t] = k]

\* Return from pthread_cond_wait in chunkrwlock_rlock.
rlock_resume(t) ==
    /\ pc[t] = "rwoken"
    /\ RTry(t, chunk[t], cr[t], rec[cr[t]])
    /\ UNCHANGED <<chunk, cr>>

\* Mutant: the writer is signalled by the last reader but one.
runlock_SignalsEarly(t) ==
    /\ pc[t] = "reading"
    /\ LET k == chunk[t] IN
       \E b \in GetBlock(k) :
         LET r == ReaderLeaves(GetRec(k, b)) IN
         /\ Release(k, b, r)
         /\ IF r.active_readers_cnt = 1 /\ r.waiting_writers_cnt # 0 /\ Sleeping(b, "wwait") # {}
              THEN \E u \in Sleeping(b, "wwait") : pc' = Woken(t, {u}, "wwoken")
              ELSE pc' = Woken(t, {}, "wwoken")
    /\ chunk' = [chunk EXCEPT ![t] = NULL]
    /\ cr' = [cr EXCEPT ![t] = NULL]

chunkrwlock_runlock(t) ==
    /\ pc[t] = "reading"
    /\ LET k == chunk[t] IN
       \E b \in GetBlock(k) :
         LET r == ReaderLeaves(GetRec(k, b)) IN
         /\ Release(k, b, r)
         /\ IF r.active_readers_cnt = 0 /\ r.waiting_writers_cnt # 0 /\ Sleeping(b, "wwait") # {}
              THEN \E u \in Sleeping(b, "wwait") : pc' = Woken(t, {u}, "wwoken")
              ELSE pc' = Woken(t, {}, "wwoken")
    /\ chunk' = [chunk EXCEPT ![t] = NULL]
    /\ cr' = [cr EXCEPT ![t] = NULL]

\* The test at the head of the loop of chunkrwlock_wlock, and what follows it.
WTry(t, k, b, r) ==
    IF r.active_readers_cnt # 0 \/ r.writing # 0
      THEN /\ Wait(k, b, r)
           /\ pc' = [pc EXCEPT ![t] = "wwait"]
      ELSE /\ Release(k, b, WriterEnters(r))
           /\ pc' = [pc EXCEPT ![t] = "writing"]

chunkrwlock_wlock(t, k) ==
    /\ pc[t] = "idle"
    /\ \E b \in GetBlock(k) :
         /\ WTry(t, k, b, AddWaitingWriter(GetRec(k, b)))
         /\ cr' = [cr EXCEPT ![t] = b]
    /\ chunk' = [chunk EXCEPT ![t] = k]

\* Return from pthread_cond_wait in chunkrwlock_wlock.
wlock_resume(t) ==
    /\ pc[t] = "wwoken"
    /\ WTry(t, chunk[t], cr[t], rec[cr[t]])
    /\ UNCHANGED <<chunk, cr>>

chunkrwlock_wunlock(t) ==
    /\ pc[t] = "writing"
    /\ LET k == chunk[t] IN
       \E b \in GetBlock(k) :
         LET r == WriterLeaves(GetRec(k, b)) IN
         /\ Release(k, b, r)
         /\ IF r.waiting_writers_cnt # 0
              THEN IF Sleeping(b, "wwait") # {}
                     THEN \E u \in Sleeping(b, "wwait") : pc' = Woken(t, {u}, "wwoken")
                     ELSE pc' = Woken(t, {}, "wwoken")
              ELSE pc' = Woken(t, IF r.waiting_readers_cnt # 0 THEN Sleeping(b, "rwait") ELSE {},
                               "rwoken")
    /\ chunk' = [chunk EXCEPT ![t] = NULL]
    /\ cr' = [cr EXCEPT ![t] = NULL]

\* POSIX lets pthread_cond_wait return without a signal.
SpuriousWakeup(t) ==
    /\ pc[t] \in {"rwait", "wwait"}
    /\ pc' = [pc EXCEPT ![t] = IF @ = "rwait" THEN "rwoken" ELSE "wwoken"]
    /\ UNCHANGED <<hashtab, freeblocks, rec, chunk, cr>>

Next ==
    \E t \in Threads :
      \/ \E k \in Chunks : chunkrwlock_rlock(t, k) \/ chunkrwlock_wlock(t, k)
      \/ rlock_resume(t) \/ wlock_resume(t)
      \/ chunkrwlock_runlock(t) \/ chunkrwlock_wunlock(t)
      \/ SpuriousWakeup(t)

Spec == Init /\ [][Next]_vars

\* A thread that was woken runs, and a thread that holds a lock ends its read or
\* write (readdata.c and writedata.c unlock on every path of their loops).
Fairness ==
    \A t \in Threads :
      /\ WF_vars(rlock_resume(t)) /\ WF_vars(wlock_resume(t))
      /\ WF_vars(chunkrwlock_runlock(t)) /\ WF_vars(chunkrwlock_wunlock(t))

FairSpec == Spec /\ Fairness

----------------------------------------------------------------------------
\* Threads on chunk k that are at one of the places in S.
At(k, S) == {t \in Threads : pc[t] \in S /\ chunk[t] = k}

\* Mutual exclusion per chunk: while chunkrwlock_wlock has let a writer in,
\* no other thread reads or writes the same chunk.
MutualExclusion ==
    \A t, u \in Threads :
      (t # u /\ pc[t] = "writing" /\ pc[u] \in {"reading", "writing"}) => chunk[t] # chunk[u]

\* The record a thread keeps a pointer to over pthread_cond_wait is still the
\* one of its chunk: chunkrwlock_release never frees or recycles a block that
\* somebody sleeps on.
RecordKept ==
    \A t \in Threads :
      pc[t] \in {"rwait", "rwoken", "wwait", "wwoken"} => hashtab[chunk[t]] = cr[t]

\* No wakeup is lost: a writer sleeps only while the lock is taken or another
\* writer is on its way to it, and a reader only while a writer is inside, waits
\* or has been woken.  With one signal per unlock this is what keeps a thread
\* from sleeping on a free lock for ever.
NoLostWakeup ==
    \A k \in Chunks :
      /\ At(k, {"wwait"}) # {} => At(k, {"reading", "writing", "wwoken"}) # {}
      /\ At(k, {"rwait"}) # {} => At(k, {"writing", "wwait", "wwoken"}) # {}

\* No block is lost or used twice: two chunks never share a record, and a
\* record on the free list is not in the hash table.
BlocksDisjoint ==
    /\ \A k, l \in Chunks : (k # l /\ hashtab[k] # NULL) => hashtab[k] # hashtab[l]
    /\ \A k \in Chunks : hashtab[k] \notin freeblocks

\* Readers cannot starve writers: once a writer waits for a chunk, some writer
\* gets it (new readers are held back by waiting_writers_cnt).
WriterProgress ==
    \A k \in Chunks : At(k, {"wwait", "wwoken"}) # {} ~> At(k, {"writing"}) # {}
====
