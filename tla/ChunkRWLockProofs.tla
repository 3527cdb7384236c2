---- MODULE ChunkRWLockProofs ----
(***************************************************************************)
(* Proofs about the client's chunk readers-writer lock, for any finite set *)
(* of threads, any sets of chunks and blocks and any limit on free blocks. *)
(*                                                                         *)
(* The properties of ChunkRWLock are not inductive: a thread is let in on  *)
(* the strength of the counters of a record, so the proofs rest on the     *)
(* invariant Inv, which says that the counters of the record of a chunk    *)
(* are exactly the numbers of threads reading, writing and waiting.        *)
(***************************************************************************)
EXTENDS ChunkRWLock, FiniteSetTheorems, TLAPS

Readers == {"reading"}
Writers == {"writing"}
WaitingReaders == {"rwait", "rwoken"}
WaitingWriters == {"wwait", "wwoken"}

\* The record r counts exactly the threads on chunk k.
Counted(k, r) ==
    /\ r.active_readers_cnt = Cardinality(At(k, Readers))
    /\ r.waiting_readers_cnt = Cardinality(At(k, WaitingReaders))
    /\ r.waiting_writers_cnt = Cardinality(At(k, WaitingWriters))
    /\ r.writing = Cardinality(At(k, Writers))

\* The inductive invariant.
Inv ==
    /\ TypeOK
    /\ \A t \in Threads : pc[t] = "idle" <=> chunk[t] = NULL
    /\ \A k \in Chunks : hashtab[k] = NULL => \A t \in Threads : chunk[t] # k
    /\ \A k \in Chunks : hashtab[k] # NULL => Counted(k, rec[hashtab[k]])
    /\ BlocksDisjoint
    /\ RecordKept

----------------------------------------------------------------------------
\* The set of threads at some place on a chunk is finite, and a thread that
\* joins or leaves it changes its size by one.
LEMMA AtFinite ==
  ASSUME NEW k, NEW S
  PROVE  /\ IsFiniteSet(At(k, S))
         /\ Cardinality(At(k, S)) \in Nat
         /\ Cardinality(At(k, S)) = 0 <=> At(k, S) = {}
<1>1. At(k, S) \in SUBSET Threads
  BY DEF At
<1>2. IsFiniteSet(At(k, S))
  BY <1>1, FS_Subset, ThreadsAssumption
<1> QED
  BY <1>2, FS_CardinalityType, FS_EmptySet

\* What chunkrwlock_get gives: the record found is right, a new one starts from
\* zero and that is right too.
LEMMA GetCounted ==
  ASSUME Inv, NEW k \in Chunks, NEW b \in GetBlock(k)
  PROVE  /\ b \in Blocks
         /\ GetRec(k, b) \in ChunkRec
         /\ Counted(k, GetRec(k, b))
         /\ \A l \in Chunks : l # k => hashtab[l] # b
<1>1. b \in Blocks /\ \A l \in Chunks : l # k => hashtab[l] # b
  BY NullAssumption DEF Inv, TypeOK, BlocksDisjoint, GetBlock, Unallocated
<1>2. CASE hashtab[k] # NULL
  BY <1>1, <1>2 DEF Inv, TypeOK, GetBlock, GetRec
<1>3. CASE hashtab[k] = NULL
  <2>1. \A S : At(k, S) = {}
    BY <1>3 DEF Inv, At
  <2> QED
    BY <1>1, <1>3, <2>1, FS_EmptySet DEF GetRec, Counters, ZeroRec, ChunkRec, Counted
<1> QED
  BY <1>2, <1>3

\* A critical section on chunk k that leaves the right counters in its record
\* keeps the invariant: everything else it writes belongs to chunk k.
LEMMA SectionKeepsInv ==
  ASSUME Inv, NEW k \in Chunks, NEW b \in GetBlock(k), NEW r \in ChunkRec, NEW t \in Threads,
         Release(k, b, r) \/ (Wait(k, b, r) /\ r # ZeroRec),
         pc' \in [Threads -> PC],
         \/ chunk' = chunk /\ cr' = cr /\ chunk[t] = k /\ cr[t] = b
         \/ \E c \in {k, NULL}, d \in {b, NULL} :
              /\ chunk' = [chunk EXCEPT ![t] = c] /\ cr' = [cr EXCEPT ![t] = d]
              /\ c = k <=> d = b
              /\ chunk[t] \in {k, NULL},
         pc'[t] = "idle" <=> chunk'[t] = NULL,
         \A u \in Threads \ {t} :
           \/ pc'[u] = pc[u]
           \/ /\ pc[u] = "rwait" /\ pc'[u] = "rwoken" /\ chunk[u] = k
           \/ /\ pc[u] = "wwait" /\ pc'[u] = "wwoken" /\ chunk[u] = k,
         Counted(k, r)'
  PROVE  Inv'
<1> USE NullAssumption
<1>0. b \in Blocks /\ \A l \in Chunks : l # k => hashtab[l] # b
  BY GetCounted
<1>1. TypeOK'
  BY <1>0 DEF Inv, TypeOK, Release, Wait
<1>2. (\A u \in Threads : pc[u] = "idle" <=> chunk[u] = NULL)'
  BY <1>1 DEF Inv, TypeOK
<1>3. \A l \in Chunks : l # k => hashtab'[l] = hashtab[l] /\ (hashtab[l] # NULL => rec'[hashtab[l]] = rec[hashtab[l]])
  BY <1>0 DEF Inv, TypeOK, Release, Wait
<1>4. \A l \in Chunks, S \in {Readers, Writers, WaitingReaders, WaitingWriters} : l # k => At(l, S)' = At(l, S)
  BY DEF Inv, TypeOK, At, Readers, Writers, WaitingReaders, WaitingWriters
<1>5. (hashtab'[k] = b /\ rec'[b] = r) \/ (hashtab'[k] = NULL /\ r = ZeroRec)
  BY <1>0 DEF Inv, TypeOK, Release, Wait
<1>6. r = ZeroRec => \A u \in Threads : chunk'[u] # k
  <2> SUFFICES ASSUME r = ZeroRec, NEW u \in Threads, chunk'[u] = k
               PROVE  FALSE
    OBVIOUS
  <2>1. pc'[u] \in PC \ {"idle"}
    BY <1>2
  <2>2. PICK S \in {Readers, Writers, WaitingReaders, WaitingWriters} : pc'[u] \in S
    BY <2>1 DEF PC, Readers, Writers, WaitingReaders, WaitingWriters
  <2>3. u \in At(k, S)'
    BY <2>2 DEF At
  <2>4. Cardinality(At(k, S)') = 0
    BY DEF Counted, ZeroRec, Counters
  <2>5. IsFiniteSet(At(k, S)')
    <3>1. At(k, S)' \in SUBSET Threads
      BY DEF At
    <3> QED
      BY <3>1, FS_Subset, ThreadsAssumption
  <2> QED
    BY <2>3, <2>4, <2>5, FS_EmptySet
<1>7. (\A l \in Chunks : hashtab[l] = NULL => \A u \in Threads : chunk[u] # l)'
  <2> SUFFICES ASSUME NEW l \in Chunks, hashtab'[l] = NULL, NEW u \in Threads
               PROVE  chunk'[u] # l
    OBVIOUS
  <2>1. CASE l = k
    BY <2>1, <1>0, <1>5, <1>6
  <2>2. CASE l # k
    BY <2>2, <1>3 DEF Inv, TypeOK
  <2> QED
    BY <2>1, <2>2
<1>8. (\A l \in Chunks : hashtab[l] # NULL => Counted(l, rec[hashtab[l]]))'
  <2> SUFFICES ASSUME NEW l \in Chunks, hashtab'[l] # NULL
               PROVE  Counted(l, rec[hashtab[l]])'
    OBVIOUS
  <2>1. CASE l = k
    BY <2>1, <1>0, <1>5
  <2>2. CASE l # k
    BY <2>2, <1>3, <1>4 DEF Inv, Counted
  <2> QED
    BY <2>1, <2>2
<1>9. BlocksDisjoint'
  BY <1>0, SMTT(30) DEF Inv, TypeOK, BlocksDisjoint, GetBlock, Unallocated, Release, Wait
<1>10. RecordKept'
  <2> SUFFICES ASSUME NEW u \in Threads, pc'[u] \in {"rwait", "rwoken", "wwait", "wwoken"}
               PROVE  hashtab'[chunk'[u]] = cr'[u]
    BY DEF RecordKept
  <2>1. chunk'[u] \in Chunks
    BY <1>1, <1>2 DEF TypeOK
  <2>2. CASE chunk'[u] # k
    BY <2>1, <2>2, <1>3 DEF Inv, TypeOK, RecordKept
  <2>3. CASE chunk'[u] = k
    <3>1. hashtab'[k] = b
      BY <2>3, <1>5, <1>6
    <3>2. CASE u = t
      BY <3>1, <3>2, <2>3 DEF Inv, TypeOK
    <3>3. CASE u # t
      <4>1. chunk[u] = k /\ cr'[u] = cr[u] /\ pc[u] \in {"rwait", "rwoken", "wwait", "wwoken"}
        BY <2>3, <3>3 DEF Inv, TypeOK
      <4>2. hashtab[k] = cr[u] /\ hashtab[k] # NULL
        BY <4>1 DEF Inv, RecordKept
      <4>3. b = hashtab[k]
        BY <4>2 DEF GetBlock
      <4> QED
        BY <2>3, <3>1, <4>1, <4>2, <4>3
    <3> QED
      BY <3>2, <3>3
  <2> QED
    BY <2>2, <2>3
<1> QED
  BY <1>1, <1>2, <1>7, <1>8, <1>9, <1>10 DEF Inv

----------------------------------------------------------------------------
\* One thread joining, leaving or neither: the sizes change accordingly.
LEMMA CountChange ==
  ASSUME NEW t, NEW A, NEW B, IsFiniteSet(A)
  PROVE  /\ (B = A \cup {t} /\ t \notin A) => Cardinality(B) = Cardinality(A) + 1
         /\ (B = A \ {t} /\ t \in A) => Cardinality(B) = Cardinality(A) - 1
BY FS_AddElement, FS_RemoveElement

\* The updates of a record keep its type while nothing is counted down from zero.
LEMMA UpdatesTyped ==
  ASSUME NEW r \in ChunkRec
  PROVE  /\ AddWaitingReader(r) \in ChunkRec /\ AddWaitingWriter(r) \in ChunkRec
         /\ r.waiting_readers_cnt # 0 => ReaderEnters(r) \in ChunkRec
         /\ r.waiting_writers_cnt # 0 => WriterEnters(r) \in ChunkRec
         /\ r.active_readers_cnt # 0 => ReaderLeaves(r) \in ChunkRec
         /\ WriterLeaves(r) \in ChunkRec
BY DEF ChunkRec, Counters, AddWaitingReader, AddWaitingWriter, ReaderEnters, WriterEnters,
       ReaderLeaves, WriterLeaves

\* A reader that waits or goes in, from chunkrwlock_rlock or after a wakeup.
LEMMA RTryKeepsInv ==
  ASSUME Inv, NEW t \in Threads, NEW k \in Chunks, NEW b \in GetBlock(k),
         \/ /\ pc[t] = "idle"
            /\ RTry(t, k, b, AddWaitingReader(GetRec(k, b)))
            /\ chunk' = [chunk EXCEPT ![t] = k]
            /\ cr' = [cr EXCEPT ![t] = b]
         \/ /\ pc[t] = "rwoken" /\ chunk[t] = k /\ cr[t] = b /\ hashtab[k] # NULL
            /\ RTry(t, k, b, GetRec(k, b))
            /\ UNCHANGED <<chunk, cr>>
  PROVE  Inv'
<1> DEFINE g == GetRec(k, b)
           n == AddWaitingReader(g)
           r0 == IF pc[t] = "idle" THEN n ELSE g
           enters == r0.writing = 0 /\ r0.waiting_writers_cnt = 0
           rr == IF enters THEN ReaderEnters(r0) ELSE r0
           to == IF enters THEN "reading" ELSE "rwait"
<1>1. g \in ChunkRec /\ Counted(k, g)
  BY GetCounted
<1>2. r0 \in ChunkRec
  BY <1>1, UpdatesTyped
<1>3. RTry(t, k, b, r0) /\ pc' = [pc EXCEPT ![t] = to] /\ pc' \in [Threads -> PC]
  BY <1>2 DEF RTry, PC, Inv, TypeOK, ChunkRec, AddWaitingReader, ReaderEnters, Counters
<1>4. r0.waiting_readers_cnt # 0
  <2>1. CASE pc[t] = "idle"
    BY <2>1, <1>1 DEF ChunkRec, AddWaitingReader, ReaderEnters, Counters
  <2>2. CASE pc[t] # "idle"
    <3>1. t \in At(k, WaitingReaders)
      BY <2>2 DEF At, WaitingReaders
    <3> QED
      BY <2>2, <3>1, <1>1, AtFinite DEF Counted
  <2> QED
    BY <2>1, <2>2
<1>5. PICK r \in ChunkRec : r = rr
  BY <1>2, <1>4, UpdatesTyped
<1>6. Release(k, b, r) \/ (Wait(k, b, r) /\ r # ZeroRec)
  BY <1>5, <1>2, <1>3, <1>4 DEF RTry, ZeroRec, ChunkRec, AddWaitingReader, ReaderEnters, Counters
<1>7. /\ At(k, Writers)' = At(k, Writers)
      /\ At(k, WaitingWriters)' = At(k, WaitingWriters)
      /\ At(k, Readers)' = IF enters THEN At(k, Readers) \cup {t} ELSE At(k, Readers)
      /\ At(k, WaitingReaders)' = IF enters THEN At(k, WaitingReaders) \ {t}
                                  ELSE At(k, WaitingReaders) \cup {t}
      /\ t \notin At(k, Readers)
      /\ t \in At(k, WaitingReaders) <=> pc[t] # "idle"
  BY <1>3 DEF Inv, TypeOK, At, Writers, Readers, WaitingReaders, WaitingWriters
<1>8. Counted(k, r)'
  <2>1. r.writing = Cardinality(At(k, Writers))' /\ r.waiting_writers_cnt = Cardinality(At(k, WaitingWriters))'
    BY <1>5, <1>1, <1>7 DEF Counted, ChunkRec, AddWaitingReader, ReaderEnters, Counters
  <2>2. r.active_readers_cnt = Cardinality(At(k, Readers))'
    BY <1>5, <1>1, <1>7, AtFinite, CountChange DEF Counted, ChunkRec, AddWaitingReader, ReaderEnters, Counters
  <2>3. r.waiting_readers_cnt = Cardinality(At(k, WaitingReaders))'
    <3> DEFINE W == At(k, WaitingReaders) \cup {t}
    <3>1. r0.waiting_readers_cnt = Cardinality(W) /\ IsFiniteSet(W)
      <4>1. CASE pc[t] = "idle"
        BY <1>1, <1>7, <4>1, AtFinite, FS_AddElement DEF Counted, AddWaitingReader, Counters
      <4>2. CASE pc[t] # "idle"
        <5>1. W = At(k, WaitingReaders)
          BY <1>7, <4>2
        <5> QED
          BY <1>1, <4>2, <5>1, AtFinite DEF Counted
      <4> QED
        BY <4>1, <4>2
    <3>2. CASE enters
      <4>1. At(k, WaitingReaders)' = W \ {t} /\ t \in W
        BY <1>7, <3>2
      <4>2. Cardinality(At(k, WaitingReaders)') = Cardinality(W) - 1
        BY <3>1, <4>1, FS_RemoveElement
      <4> QED
        BY <1>5, <3>1, <3>2, <4>2 DEF ReaderEnters, Counters
    <3>3. CASE ~enters
      BY <1>5, <1>7, <3>1, <3>3
    <3> QED
      BY <3>2, <3>3
  <2> QED
    BY <2>1, <2>2, <2>3 DEF Counted
<1>9. chunk[t] \in {k, NULL} /\ pc'[t] # "idle" /\ chunk'[t] # NULL
  BY <1>3, NullAssumption DEF Inv, TypeOK
<1>10. \A u \in Threads \ {t} : pc'[u] = pc[u]
  BY <1>3 DEF Inv, TypeOK
<1>11. \/ chunk' = chunk /\ cr' = cr /\ chunk[t] = k /\ cr[t] = b
       \/ \E c \in {k, NULL}, d \in {b, NULL} :
              /\ chunk' = [chunk EXCEPT ![t] = c] /\ cr' = [cr EXCEPT ![t] = d]
              /\ c = k <=> d = b
              /\ chunk[t] \in {k, NULL}
  BY <1>9
<1> QED
  BY <1>3, <1>5, <1>6, <1>8, <1>9, <1>10, <1>11, SectionKeepsInv
\* A writer that waits or goes in, from chunkrwlock_wlock or after a wakeup.
LEMMA WTryKeepsInv ==
  ASSUME Inv, NEW t \in Threads, NEW k \in Chunks, NEW b \in GetBlock(k),
         \/ /\ pc[t] = "idle"
            /\ WTry(t, k, b, AddWaitingWriter(GetRec(k, b)))
            /\ chunk' = [chunk EXCEPT ![t] = k]
            /\ cr' = [cr EXCEPT ![t] = b]
         \/ /\ pc[t] = "wwoken" /\ chunk[t] = k /\ cr[t] = b /\ hashtab[k] # NULL
            /\ WTry(t, k, b, GetRec(k, b))
            /\ UNCHANGED <<chunk, cr>>
  PROVE  Inv'
<1> DEFINE g == GetRec(k, b)
           n == AddWaitingWriter(g)
           r0 == IF pc[t] = "idle" THEN n ELSE g
           enters == r0.writing = 0 /\ r0.active_readers_cnt = 0
           rr == IF enters THEN WriterEnters(r0) ELSE r0
           to == IF enters THEN "writing" ELSE "wwait"
<1>1. g \in ChunkRec /\ Counted(k, g)
  BY GetCounted
<1>2. r0 \in ChunkRec
  BY <1>1, UpdatesTyped
<1>3. WTry(t, k, b, r0) /\ pc' = [pc EXCEPT ![t] = to] /\ pc' \in [Threads -> PC]
  BY <1>2 DEF WTry, PC, Inv, TypeOK, ChunkRec, AddWaitingWriter, WriterEnters, Counters
<1>4. r0.waiting_writers_cnt # 0
  <2>1. CASE pc[t] = "idle"
    BY <2>1, <1>1 DEF ChunkRec, AddWaitingWriter, WriterEnters, Counters
  <2>2. CASE pc[t] # "idle"
    <3>1. t \in At(k, WaitingWriters)
      BY <2>2 DEF At, WaitingWriters
    <3> QED
      BY <2>2, <3>1, <1>1, AtFinite DEF Counted
  <2> QED
    BY <2>1, <2>2
<1>5. PICK r \in ChunkRec : r = rr
  BY <1>2, <1>4, UpdatesTyped
<1>6. Release(k, b, r) \/ (Wait(k, b, r) /\ r # ZeroRec)
  BY <1>5, <1>2, <1>3, <1>4 DEF WTry, ZeroRec, ChunkRec, AddWaitingWriter, WriterEnters, Counters
<1>7. /\ At(k, Readers)' = At(k, Readers)
      /\ At(k, WaitingReaders)' = At(k, WaitingReaders)
      /\ At(k, Writers)' = IF enters THEN At(k, Writers) \cup {t} ELSE At(k, Writers)
      /\ At(k, WaitingWriters)' = IF enters THEN At(k, WaitingWriters) \ {t}
                                  ELSE At(k, WaitingWriters) \cup {t}
      /\ t \notin At(k, Writers)
      /\ t \in At(k, WaitingWriters) <=> pc[t] # "idle"
  BY <1>3 DEF Inv, TypeOK, At, Writers, Readers, WaitingWriters, WaitingReaders
<1>8. Counted(k, r)'
  <2>1. r.active_readers_cnt = Cardinality(At(k, Readers))' /\ r.waiting_readers_cnt = Cardinality(At(k, WaitingReaders))'
    BY <1>5, <1>1, <1>7 DEF Counted, ChunkRec, AddWaitingWriter, WriterEnters, Counters
  <2>2. r.writing = Cardinality(At(k, Writers))'
    <3>1. r0.writing = Cardinality(At(k, Writers))
      BY <1>1 DEF Counted, AddWaitingWriter, Counters
    <3>2. CASE enters
      <4>1. Cardinality(At(k, Writers)') = Cardinality(At(k, Writers)) + 1
        BY <1>7, <3>2, AtFinite, CountChange
      <4>2. r.writing = 1
        BY <1>5, <3>2 DEF WriterEnters, Counters
      <4> QED
        BY <3>1, <3>2, <4>1, <4>2
    <3>3. CASE ~enters
      BY <1>5, <1>7, <3>1, <3>3
    <3> QED
      BY <3>2, <3>3
  <2>3. r.waiting_writers_cnt = Cardinality(At(k, WaitingWriters))'
    <3> DEFINE W == At(k, WaitingWriters) \cup {t}
    <3>1. r0.waiting_writers_cnt = Cardinality(W) /\ IsFiniteSet(W)
      <4>1. CASE pc[t] = "idle"
        BY <1>1, <1>7, <4>1, AtFinite, FS_AddElement DEF Counted, AddWaitingWriter, Counters
      <4>2. CASE pc[t] # "idle"
        <5>1. W = At(k, WaitingWriters)
          BY <1>7, <4>2
        <5> QED
          BY <1>1, <4>2, <5>1, AtFinite DEF Counted
      <4> QED
        BY <4>1, <4>2
    <3>2. CASE enters
      <4>1. At(k, WaitingWriters)' = W \ {t} /\ t \in W
        BY <1>7, <3>2
      <4>2. Cardinality(At(k, WaitingWriters)') = Cardinality(W) - 1
        BY <3>1, <4>1, FS_RemoveElement
      <4> QED
        BY <1>5, <3>1, <3>2, <4>2 DEF WriterEnters, Counters
    <3>3. CASE ~enters
      BY <1>5, <1>7, <3>1, <3>3
    <3> QED
      BY <3>2, <3>3
  <2> QED
    BY <2>1, <2>2, <2>3 DEF Counted
<1>9. chunk[t] \in {k, NULL} /\ pc'[t] # "idle" /\ chunk'[t] # NULL
  BY <1>3, NullAssumption DEF Inv, TypeOK
<1>10. \A u \in Threads \ {t} : pc'[u] = pc[u]
  BY <1>3 DEF Inv, TypeOK
<1>11. \/ chunk' = chunk /\ cr' = cr /\ chunk[t] = k /\ cr[t] = b
       \/ \E c \in {k, NULL}, d \in {b, NULL} :
              /\ chunk' = [chunk EXCEPT ![t] = c] /\ cr' = [cr EXCEPT ![t] = d]
              /\ c = k <=> d = b
              /\ chunk[t] \in {k, NULL}
  BY <1>9
<1> QED
  BY <1>3, <1>5, <1>6, <1>8, <1>9, <1>10, <1>11, SectionKeepsInv

\* A reader that leaves.
LEMMA RUnlockKeepsInv ==
  ASSUME Inv, NEW t \in Threads, chunkrwlock_runlock(t)
  PROVE  Inv'
<1> DEFINE k == chunk[t]
<1>1. k \in Chunks /\ k # NULL
  BY NullAssumption DEF Inv, TypeOK, chunkrwlock_runlock
<1> SUFFICES ASSUME NEW l \in Chunks, l = k
             PROVE  Inv'
  BY <1>1
<1>2. PICK b \in GetBlock(l) :
         LET r == ReaderLeaves(GetRec(l, b)) IN
         /\ Release(l, b, r)
         /\ IF r.active_readers_cnt = 0 /\ r.waiting_writers_cnt # 0 /\ Sleeping(b, "wwait") # {}
              THEN \E u \in Sleeping(b, "wwait") : pc' = Woken(t, {u}, "wwoken")
              ELSE pc' = Woken(t, {}, "wwoken")
  BY DEF chunkrwlock_runlock
<1>3. GetRec(l, b) \in ChunkRec /\ Counted(l, GetRec(l, b)) /\ b \in Blocks
  BY GetCounted
<1>4. t \in At(l, Readers)
  BY DEF At, Readers, chunkrwlock_runlock
<1>5. GetRec(l, b).active_readers_cnt # 0
  BY <1>3, <1>4, AtFinite DEF Counted
<1>6. PICK r \in ChunkRec : r = ReaderLeaves(GetRec(l, b))
  BY <1>3, <1>5, UpdatesTyped
<1>7. PICK w \in SUBSET Sleeping(b, "wwait") : pc' = Woken(t, w, "wwoken")
  BY <1>2
<1>8. \A u \in w : u \in Threads /\ pc[u] = "wwait" /\ chunk[u] = l
  <2> SUFFICES ASSUME NEW u \in w PROVE u \in Threads /\ pc[u] = "wwait" /\ chunk[u] = l
    OBVIOUS
  <2>1. u \in Threads /\ pc[u] = "wwait" /\ cr[u] = b
    BY <1>7 DEF Sleeping
  <2>2. hashtab[chunk[u]] = b /\ chunk[u] \in Chunks
    BY <2>1 DEF Inv, RecordKept, TypeOK
  <2> QED
    BY <2>1, <2>2, GetCounted
<1>9. t \notin w
  BY <1>8 DEF chunkrwlock_runlock
<1>10. /\ \A u \in Threads \ {t} : pc'[u] = IF u \in w THEN "wwoken" ELSE pc[u]
       /\ pc'[t] = "idle"
       /\ pc' \in [Threads -> PC]
  BY <1>7 DEF Woken, Inv, TypeOK, PC
<1>11. chunk' = [chunk EXCEPT ![t] = NULL] /\ cr' = [cr EXCEPT ![t] = NULL] /\ chunk'[t] = NULL
  BY DEF chunkrwlock_runlock, Inv, TypeOK
<1>12. /\ At(l, Writers)' = At(l, Writers)
       /\ At(l, WaitingWriters)' = At(l, WaitingWriters)
       /\ At(l, WaitingReaders)' = At(l, WaitingReaders)
       /\ At(l, Readers)' = At(l, Readers) \ {t}
  <2>1. pc[t] = "reading" /\ chunk[t] = l
    BY DEF chunkrwlock_runlock
  <2> QED
    BY <1>1, <1>8, <1>9, <1>10, <1>11, <2>1 DEF At, Readers, Writers, WaitingReaders, WaitingWriters, Inv, TypeOK
<1>13. Counted(l, r)'
  BY <1>3, <1>4, <1>6, <1>12, AtFinite, CountChange DEF Counted, ReaderLeaves, Counters
<1>14. \/ chunk' = chunk /\ cr' = cr /\ chunk[t] = l /\ cr[t] = b
       \/ \E c \in {l, NULL}, d \in {b, NULL} :
              /\ chunk' = [chunk EXCEPT ![t] = c] /\ cr' = [cr EXCEPT ![t] = d]
              /\ c = l <=> d = b
              /\ chunk[t] \in {l, NULL}
  BY <1>1, <1>3, <1>11, NullAssumption
<1>15. Release(l, b, r) \/ (Wait(l, b, r) /\ r # ZeroRec)
  BY <1>2, <1>6
<1>16. \A u \in Threads \ {t} :
           \/ pc'[u] = pc[u]
           \/ /\ pc[u] = "rwait" /\ pc'[u] = "rwoken" /\ chunk[u] = l
           \/ /\ pc[u] = "wwait" /\ pc'[u] = "wwoken" /\ chunk[u] = l
  BY <1>8, <1>10
<1>17. pc'[t] = "idle" <=> chunk'[t] = NULL
  BY <1>10, <1>11
<1> HIDE DEF k
<1> QED
  BY <1>10, <1>17, <1>13, <1>14, <1>15, <1>16, SectionKeepsInv
\* The writer that leaves.
LEMMA WUnlockKeepsInv ==
  ASSUME Inv, NEW t \in Threads, chunkrwlock_wunlock(t)
  PROVE  Inv'
<1> DEFINE k == chunk[t]
<1>1. k \in Chunks /\ k # NULL
  BY NullAssumption DEF Inv, TypeOK, chunkrwlock_wunlock
<1> SUFFICES ASSUME NEW l \in Chunks, l = k
             PROVE  Inv'
  BY <1>1
<1>2. PICK b \in GetBlock(l) :
         LET r == WriterLeaves(GetRec(l, b)) IN
         /\ Release(l, b, r)
         /\ IF r.waiting_writers_cnt # 0
              THEN IF Sleeping(b, "wwait") # {}
                     THEN \E u \in Sleeping(b, "wwait") : pc' = Woken(t, {u}, "wwoken")
                     ELSE pc' = Woken(t, {}, "wwoken")
              ELSE pc' = Woken(t, IF r.waiting_readers_cnt # 0 THEN Sleeping(b, "rwait") ELSE {},
                               "rwoken")
  BY DEF chunkrwlock_wunlock
<1>3. GetRec(l, b) \in ChunkRec /\ Counted(l, GetRec(l, b)) /\ b \in Blocks
  BY GetCounted
<1>4. t \in At(l, Writers)
  BY DEF At, Writers, chunkrwlock_wunlock
<1>5. GetRec(l, b).writing = 1
  BY <1>3, <1>4, AtFinite DEF Counted, ChunkRec
<1>6. PICK r \in ChunkRec : r = WriterLeaves(GetRec(l, b))
  BY <1>3, UpdatesTyped
<1>7. PICK x \in {"rw", "ww"}, w \in SUBSET Threads :
        /\ w \subseteq Sleeping(b, IF x = "rw" THEN "rwait" ELSE "wwait")
        /\ pc' = Woken(t, w, IF x = "rw" THEN "rwoken" ELSE "wwoken")
  <2>1. CASE WriterLeaves(GetRec(l, b)).waiting_writers_cnt # 0
    <3>1. \E w \in SUBSET Threads : w \subseteq Sleeping(b, "wwait") /\ pc' = Woken(t, w, "wwoken")
      BY <1>2, <2>1 DEF Sleeping
    <3> QED
      BY <3>1
  <2>2. CASE WriterLeaves(GetRec(l, b)).waiting_writers_cnt = 0
    <3>1. \E w \in SUBSET Threads : w \subseteq Sleeping(b, "rwait") /\ pc' = Woken(t, w, "rwoken")
      BY <1>2, <2>2 DEF Sleeping
    <3> QED
      BY <3>1
  <2> QED
    BY <2>1, <2>2
<1>8. \A u \in w : u \in Threads /\ pc[u] = (IF x = "rw" THEN "rwait" ELSE "wwait") /\ chunk[u] = l
  <2> SUFFICES ASSUME NEW u \in w
               PROVE  u \in Threads /\ pc[u] = (IF x = "rw" THEN "rwait" ELSE "wwait") /\ chunk[u] = l
    OBVIOUS
  <2>1. u \in Threads /\ pc[u] = (IF x = "rw" THEN "rwait" ELSE "wwait") /\ cr[u] = b
    BY <1>7 DEF Sleeping
  <2>2. hashtab[chunk[u]] = b /\ chunk[u] \in Chunks
    BY <2>1 DEF Inv, RecordKept, TypeOK
  <2> QED
    BY <2>1, <2>2, GetCounted
<1>9. t \notin w
  BY <1>8 DEF chunkrwlock_wunlock
<1>10. /\ \A u \in Threads \ {t} : pc'[u] = IF u \in w THEN IF x = "rw" THEN "rwoken" ELSE "wwoken" ELSE pc[u]
       /\ pc'[t] = "idle"
       /\ pc' \in [Threads -> PC]
  BY <1>7 DEF Woken, Inv, TypeOK, PC
<1>11. chunk' = [chunk EXCEPT ![t] = NULL] /\ cr' = [cr EXCEPT ![t] = NULL] /\ chunk'[t] = NULL
  BY DEF chunkrwlock_wunlock, Inv, TypeOK
<1>12. /\ At(l, Readers)' = At(l, Readers)
       /\ At(l, WaitingWriters)' = At(l, WaitingWriters)
       /\ At(l, WaitingReaders)' = At(l, WaitingReaders)
       /\ At(l, Writers)' = At(l, Writers) \ {t}
  <2>1. pc[t] = "writing" /\ chunk[t] = l
    BY DEF chunkrwlock_wunlock
  <2> QED
    BY <1>1, <1>8, <1>9, <1>10, <1>11, <2>1 DEF At, Readers, Writers, WaitingReaders, WaitingWriters, Inv, TypeOK
<1>13. Counted(l, r)'
  <2>1. Cardinality(At(l, Writers)') = Cardinality(At(l, Writers)) - 1
    BY <1>4, <1>12, AtFinite, CountChange
  <2> QED
    BY <1>3, <1>5, <1>6, <1>12, <2>1 DEF Counted, WriterLeaves, Counters
<1>14. \/ chunk' = chunk /\ cr' = cr /\ chunk[t] = l /\ cr[t] = b
       \/ \E c \in {l, NULL}, d \in {b, NULL} :
              /\ chunk' = [chunk EXCEPT ![t] = c] /\ cr' = [cr EXCEPT ![t] = d]
              /\ c = l <=> d = b
              /\ chunk[t] \in {l, NULL}
  BY <1>1, <1>3, <1>11, NullAssumption
<1>15. Release(l, b, r) \/ (Wait(l, b, r) /\ r # ZeroRec)
  BY <1>2, <1>6
<1>16. \A u \in Threads \ {t} :
           \/ pc'[u] = pc[u]
           \/ /\ pc[u] = "rwait" /\ pc'[u] = "rwoken" /\ chunk[u] = l
           \/ /\ pc[u] = "wwait" /\ pc'[u] = "wwoken" /\ chunk[u] = l
  BY <1>8, <1>10
<1>17. pc'[t] = "idle" <=> chunk'[t] = NULL
  BY <1>10, <1>11
<1> HIDE DEF k
<1> QED
  BY <1>10, <1>17, <1>13, <1>14, <1>15, <1>16, SectionKeepsInv

\* A wakeup without a signal changes none of the counted sets.
LEMMA SpuriousKeepsInv ==
  ASSUME Inv, NEW t \in Threads, SpuriousWakeup(t)
  PROVE  Inv'
<1>1. \A k \in Chunks, S \in {Readers, Writers, WaitingReaders, WaitingWriters} : At(k, S)' = At(k, S)
  BY DEF Inv, TypeOK, SpuriousWakeup, At, Readers, Writers, WaitingReaders, WaitingWriters
<1>2. \A k \in Chunks : hashtab[k] # NULL => Counted(k, rec[hashtab[k]])'
  BY <1>1 DEF Inv, Counted, SpuriousWakeup
<1> QED
  BY <1>2 DEF Inv, TypeOK, PC, SpuriousWakeup, BlocksDisjoint, RecordKept

\* Every step keeps the invariant.
LEMMA NextKeepsInv ==
  ASSUME Inv, [Next]_vars
  PROVE  Inv'
<1>1. CASE UNCHANGED vars
  <2>1. \A k, S : At(k, S)' = At(k, S)
    BY <1>1 DEF vars, At
  <2>2. \A k, r : Counted(k, r)' <=> Counted(k, r)
    BY <2>1 DEF Counted
  <2> QED
    BY <1>1, <2>2 DEF vars, Inv, TypeOK, BlocksDisjoint, RecordKept
<1>2. ASSUME NEW t \in Threads, NEW k \in Chunks, chunkrwlock_rlock(t, k)
      PROVE  Inv'
  BY <1>2, RTryKeepsInv DEF chunkrwlock_rlock
<1>3. ASSUME NEW t \in Threads, NEW k \in Chunks, chunkrwlock_wlock(t, k)
      PROVE  Inv'
  BY <1>3, WTryKeepsInv DEF chunkrwlock_wlock
<1>4. ASSUME NEW t \in Threads, rlock_resume(t) \/ wlock_resume(t)
      PROVE  Inv'
  <2>1. chunk[t] \in Chunks /\ hashtab[chunk[t]] = cr[t]
    BY <1>4 DEF Inv, TypeOK, RecordKept, rlock_resume, wlock_resume
  <2>2. cr[t] # NULL
    BY <2>1 DEF Inv
  <2>3. PICK k \in Chunks : k = chunk[t]
    BY <2>1
  <2>6. PICK b \in GetBlock(k) : b = cr[t] /\ hashtab[k] # NULL /\ GetRec(k, b) = rec[cr[t]]
    BY <2>1, <2>2, <2>3 DEF GetBlock, GetRec
  <2>4. CASE rlock_resume(t)
    BY <2>3, <2>6, <2>4, RTryKeepsInv DEF rlock_resume
  <2>5. CASE wlock_resume(t)
    BY <2>3, <2>6, <2>5, WTryKeepsInv DEF wlock_resume
  <2> QED
    BY <1>4, <2>4, <2>5
<1> QED
  BY <1>1, <1>2, <1>3, <1>4, RUnlockKeepsInv, WUnlockKeepsInv, SpuriousKeepsInv DEF Next

\* In the beginning there is no record and nobody is counted.
LEMMA InitInv == Init => Inv
<1> SUFFICES ASSUME Init PROVE Inv
  OBVIOUS
<1> QED
  BY NullAssumption DEF Init, Inv, TypeOK, ChunkRec, ZeroRec, Counters, PC, BlocksDisjoint, RecordKept

\* The counters of the records are exact in every reachable state.
THEOREM CountersExact == Spec => []Inv
BY InitInv, NextKeepsInv, PTL DEF Spec

\* Type correctness: in particular no counter of a chunkrec is ever counted
\* down from zero by chunkrwlock_runlock or a granted lock.
THEOREM TypeCorrect == Spec => []TypeOK
<1>1. Inv => TypeOK
  BY DEF Inv
<1> QED
  BY <1>1, CountersExact, PTL

\* chunkrwlock_release never frees or recycles the record a thread sleeps on.
THEOREM RecordKeptAlways == Spec => []RecordKept
<1>1. Inv => RecordKept
  BY DEF Inv
<1> QED
  BY <1>1, CountersExact, PTL

----------------------------------------------------------------------------
\* A thread on a chunk is seen in the counters of the chunk's record.
LEMMA CountersShow ==
  ASSUME Inv, NEW k \in Chunks, NEW b \in GetBlock(k)
  PROVE  /\ GetRec(k, b).active_readers_cnt = 0 <=> At(k, Readers) = {}
         /\ GetRec(k, b).waiting_readers_cnt = 0 <=> At(k, WaitingReaders) = {}
         /\ GetRec(k, b).waiting_writers_cnt = 0 <=> At(k, WaitingWriters) = {}
         /\ GetRec(k, b).writing = 0 <=> At(k, Writers) = {}
BY GetCounted, AtFinite DEF Counted

\* Mutual exclusion is kept: it can be broken only by a thread that enters, and
\* that thread saw counters that rule the others out.
LEMMA NextKeepsExclusion ==
  ASSUME Inv, MutualExclusion, [Next]_vars
  PROVE  MutualExclusion'
<1>1. CASE UNCHANGED vars
  BY <1>1 DEF vars, MutualExclusion
<1>2. ASSUME NEW t \in Threads, NEW k \in Chunks, NEW b \in GetBlock(k),
             \/ /\ RTry(t, k, b, GetRec(k, b)) \/ RTry(t, k, b, AddWaitingReader(GetRec(k, b)))
                /\ \A u \in Threads \ {t} : chunk'[u] = chunk[u]
                /\ chunk'[t] = k
             \/ /\ WTry(t, k, b, GetRec(k, b)) \/ WTry(t, k, b, AddWaitingWriter(GetRec(k, b)))
                /\ \A u \in Threads \ {t} : chunk'[u] = chunk[u]
                /\ chunk'[t] = k
      PROVE  MutualExclusion'
  <2>1. \A u \in Threads \ {t} : pc'[u] = pc[u] /\ chunk'[u] = chunk[u]
    BY <1>2 DEF RTry, WTry, Inv, TypeOK
  <2>2. pc'[t] = "reading" => At(k, Writers) = {}
    BY <1>2, CountersShow DEF RTry, WTry, AddWaitingReader, Counters, Inv, TypeOK
  <2>3. pc'[t] = "writing" => At(k, Writers) = {} /\ At(k, Readers) = {}
    BY <1>2, CountersShow DEF RTry, WTry, AddWaitingWriter, Counters, Inv, TypeOK
  <2> QED
    BY <1>2, <2>1, <2>2, <2>3 DEF MutualExclusion, At, Readers, Writers
<1>3. ASSUME NEW t \in Threads, NEW k \in Chunks, chunkrwlock_rlock(t, k) \/ chunkrwlock_wlock(t, k)
      PROVE  MutualExclusion'
  BY <1>2, <1>3 DEF chunkrwlock_rlock, chunkrwlock_wlock, Inv, TypeOK
<1>4. ASSUME NEW t \in Threads, rlock_resume(t) \/ wlock_resume(t)
      PROVE  MutualExclusion'
  <2>1. chunk[t] \in Chunks /\ hashtab[chunk[t]] = cr[t]
    BY <1>4 DEF Inv, TypeOK, RecordKept, rlock_resume, wlock_resume
  <2>2. PICK k \in Chunks : k = chunk[t]
    BY <2>1
  <2>3. PICK b \in GetBlock(k) : b = cr[t] /\ GetRec(k, b) = rec[cr[t]]
    BY <2>1, <2>2 DEF GetBlock, GetRec, Inv
  <2> QED
    BY <1>2, <1>4, <2>2, <2>3 DEF rlock_resume, wlock_resume
<1>5. ASSUME NEW t \in Threads,
             chunkrwlock_runlock(t) \/ chunkrwlock_wunlock(t) \/ SpuriousWakeup(t)
      PROVE  MutualExclusion'
  <2>1. \A u \in Threads : pc'[u] \in {"reading", "writing"} => pc'[u] = pc[u]
    BY <1>5 DEF chunkrwlock_runlock, chunkrwlock_wunlock, SpuriousWakeup, Woken, Inv, TypeOK
  <2>2. \A u \in Threads : pc'[u] \in {"reading", "writing"} => chunk'[u] = chunk[u]
    BY <1>5 DEF chunkrwlock_runlock, chunkrwlock_wunlock, SpuriousWakeup, Woken, Inv, TypeOK
  <2> QED
    BY <2>1, <2>2 DEF MutualExclusion
<1> QED
  BY <1>1, <1>3, <1>4, <1>5 DEF Next

\* While a writer holds a chunk nobody else reads or writes it, for any number of
\* threads and any interleaving of lock, unlock and wakeup.
THEOREM WritersExclusive == Spec => []MutualExclusion
<1>1. Init => MutualExclusion
  BY DEF Init, MutualExclusion
<1> QED
  BY <1>1, CountersExact, NextKeepsExclusion, PTL DEF Spec

\* No memory block is the record of two chunks, or of a chunk and on the list of
\* free blocks, whatever order the threads allocate, release and recycle in.
THEOREM BlocksDisjointAlways == Spec => []BlocksDisjoint
<1>1. Inv => BlocksDisjoint
  BY DEF Inv
<1> QED
  BY <1>1, CountersExact, PTL

----------------------------------------------------------------------------
\* The part of NoLostWakeup that is about one chunk.
Signalled(k) ==
    /\ At(k, {"wwait"}) # {} => At(k, {"reading", "writing", "wwoken"}) # {}
    /\ At(k, {"rwait"}) # {} => At(k, {"writing", "wwait", "wwoken"}) # {}

\* Chunks on which no thread moves keep what they have.
LEMMA OthersSignalled ==
  ASSUME NEW l \in Chunks, Signalled(l),
         \A u \in Threads : chunk[u] = l \/ chunk'[u] = l => chunk'[u] = chunk[u] /\ pc'[u] = pc[u]
  PROVE  Signalled(l)'
<1>1. \A S : At(l, S)' = At(l, S)
  BY DEF At
<1> QED
  BY <1>1 DEF Signalled

\* Everybody who sleeps on a chunk sleeps on the record chunkrwlock_get finds.
LEMMA SleepersFound ==
  ASSUME Inv, NEW k \in Chunks, NEW b \in GetBlock(k), NEW at \in {"rwait", "wwait"}
  PROVE  Sleeping(b, at) = At(k, {at})
<1>1. ASSUME NEW u \in At(k, {at}) PROVE u \in Sleeping(b, at)
  <2>1. u \in Threads /\ pc[u] = at /\ chunk[u] = k
    BY DEF At
  <2>2. hashtab[k] = cr[u] /\ hashtab[k] # NULL
    BY <2>1 DEF Inv, RecordKept
  <2> QED
    BY <2>1, <2>2 DEF GetBlock, Sleeping
<1>2. ASSUME NEW u \in Sleeping(b, at) PROVE u \in At(k, {at})
  <2>1. u \in Threads /\ pc[u] = at /\ cr[u] = b
    BY DEF Sleeping
  <2>2. hashtab[chunk[u]] = b /\ chunk[u] \in Chunks
    BY <2>1 DEF Inv, RecordKept, TypeOK
  <2> QED
    BY <2>1, <2>2, GetCounted DEF At
<1> QED
  BY <1>1, <1>2

\* A thread that goes to sleep has seen somebody who will wake it; one that goes
\* in takes nobody's waker away.
LEMMA TryKeepsSignalled ==
  ASSUME Inv, NoLostWakeup, NEW t \in Threads, NEW k \in Chunks, NEW b \in GetBlock(k),
         \A u \in Threads \ {t} : chunk'[u] = chunk[u],
         chunk'[t] = k, chunk[t] \in {k, NULL},
         \/ /\ pc[t] \in {"idle", "rwoken"}
            /\ RTry(t, k, b, GetRec(k, b)) \/ RTry(t, k, b, AddWaitingReader(GetRec(k, b)))
         \/ /\ pc[t] \in {"idle", "wwoken"}
            /\ WTry(t, k, b, GetRec(k, b)) \/ WTry(t, k, b, AddWaitingWriter(GetRec(k, b)))
  PROVE  NoLostWakeup'
<1>1. \A u \in Threads \ {t} : pc'[u] = pc[u]
  BY DEF RTry, WTry, Inv, TypeOK
<1>2. \A l \in Chunks : l # k => Signalled(l)'
  <2> SUFFICES ASSUME NEW l \in Chunks, l # k PROVE Signalled(l)'
    OBVIOUS
  <2>1. Signalled(l)
    BY DEF NoLostWakeup, Signalled
  <2>2. \A u \in Threads : chunk[u] = l \/ chunk'[u] = l => chunk'[u] = chunk[u] /\ pc'[u] = pc[u]
    BY <1>1, NullAssumption
  <2> QED
    BY <2>1, <2>2, OthersSignalled
<1>3. Signalled(k)'
  <2>1. pc'[t] \in {"rwait", "reading", "wwait", "writing"}
    BY DEF RTry, WTry, Inv, TypeOK
  <2>2. pc'[t] = "rwait" => pc[t] \in {"idle", "rwoken"} /\ At(k, Writers) \cup At(k, WaitingWriters) # {}
    BY CountersShow DEF RTry, WTry, AddWaitingReader, Counters, Inv, TypeOK
  <2>3. pc'[t] = "wwait" => At(k, Writers) \cup At(k, Readers) # {}
    BY CountersShow DEF RTry, WTry, AddWaitingWriter, Counters, Inv, TypeOK
  <2>4. pc'[t] = "reading" => pc[t] \in {"idle", "rwoken"}
    BY DEF RTry, WTry, Inv, TypeOK
  <2>5. /\ At(k, {"wwait"}) # {} => At(k, {"reading", "writing", "wwoken"}) # {}
        /\ At(k, {"rwait"}) # {} => At(k, {"writing", "wwait", "wwoken"}) # {}
    BY DEF NoLostWakeup
  <2>6. pc[t] \in {"idle", "rwoken", "wwoken"}
    OBVIOUS
  <2>7. (At(k, {"wwait"}) # {} => At(k, {"reading", "writing", "wwoken"}) # {})'
    BY <1>1, <2>1, <2>2, <2>3, <2>4, <2>5, <2>6 DEF At, Readers, Writers, WaitingWriters
  <2>8. (At(k, {"rwait"}) # {} => At(k, {"writing", "wwait", "wwoken"}) # {})'
    BY <1>1, <2>1, <2>2, <2>3, <2>4, <2>5, <2>6 DEF At, Readers, Writers, WaitingWriters
  <2> QED
    BY <2>7, <2>8 DEF Signalled
<1> QED
  BY <1>2, <1>3 DEF NoLostWakeup, Signalled

\* An unlock wakes a writer if one sleeps and the lock is free, and all readers
\* if no writer waits.
LEMMA UnlockKeepsSignalled ==
  ASSUME Inv, NoLostWakeup, NEW t \in Threads, chunkrwlock_runlock(t) \/ chunkrwlock_wunlock(t)
  PROVE  NoLostWakeup'
<1>1. PICK k \in Chunks : k = chunk[t]
  BY NullAssumption DEF Inv, TypeOK, chunkrwlock_runlock, chunkrwlock_wunlock
<1>2. chunk'[t] = NULL /\ \A u \in Threads \ {t} : chunk'[u] = chunk[u]
  BY DEF Inv, TypeOK, chunkrwlock_runlock, chunkrwlock_wunlock
<1>3. PICK b \in GetBlock(k), w \in SUBSET Threads, at \in {"rwait", "wwait"} :
        /\ w \subseteq At(k, {at})
        /\ pc' = Woken(t, w, IF at = "rwait" THEN "rwoken" ELSE "wwoken")
        /\ \/ /\ pc[t] = "reading" /\ at = "wwait"
              /\ GetRec(k, b).active_readers_cnt = 1 /\ At(k, {"wwait"}) # {} => w # {}
           \/ /\ pc[t] = "writing" /\ at = "wwait"
              /\ GetRec(k, b).waiting_writers_cnt # 0
              /\ At(k, {"wwait"}) # {} => w # {}
           \/ /\ pc[t] = "writing" /\ at = "rwait"
              /\ GetRec(k, b).waiting_writers_cnt = 0
              /\ w = At(k, {"rwait"})
  <2>1. CASE chunkrwlock_runlock(t)
    <3>1. PICK b \in GetBlock(k) :
         LET r == ReaderLeaves(GetRec(k, b)) IN
         IF r.active_readers_cnt = 0 /\ r.waiting_writers_cnt # 0 /\ Sleeping(b, "wwait") # {}
              THEN \E u \in Sleeping(b, "wwait") : pc' = Woken(t, {u}, "wwoken")
              ELSE pc' = Woken(t, {}, "wwoken")
      BY <1>1, <2>1 DEF chunkrwlock_runlock
    <3>2. Sleeping(b, "wwait") = At(k, {"wwait"}) /\ At(k, {"wwait"}) \subseteq At(k, WaitingWriters)
      BY SleepersFound DEF At, WaitingWriters
    <3>3. At(k, {"wwait"}) # {} => GetRec(k, b).waiting_writers_cnt # 0
      BY <3>2, CountersShow
    <3>4. pc[t] = "reading" /\ GetRec(k, b) \in ChunkRec
      BY <2>1, GetCounted DEF chunkrwlock_runlock
    <3>5. GetRec(k, b).active_readers_cnt = 1 /\ At(k, {"wwait"}) # {} =>
            \E u \in At(k, {"wwait"}) : pc' = Woken(t, {u}, "wwoken")
      BY <3>1, <3>2, <3>3, <3>4 DEF ReaderLeaves, Counters, ChunkRec
    <3>6. \E w \in SUBSET At(k, {"wwait"}) : pc' = Woken(t, w, "wwoken")
      BY <3>1, <3>2
    <3>7. \E w \in SUBSET Threads :
            /\ w \subseteq At(k, {"wwait"}) /\ pc' = Woken(t, w, "wwoken")
            /\ GetRec(k, b).active_readers_cnt = 1 /\ At(k, {"wwait"}) # {} => w # {}
      <4>1. At(k, {"wwait"}) \subseteq Threads
        BY DEF At
      <4>2. CASE GetRec(k, b).active_readers_cnt = 1 /\ At(k, {"wwait"}) # {}
        <5>1. PICK u \in At(k, {"wwait"}) : pc' = Woken(t, {u}, "wwoken")
          BY <3>5, <4>2
        <5>2. {u} \in SUBSET Threads /\ {u} \subseteq At(k, {"wwait"}) /\ {u} # {}
          BY <4>1
        <5> QED
          BY <5>1, <5>2
      <4>3. CASE ~(GetRec(k, b).active_readers_cnt = 1 /\ At(k, {"wwait"}) # {})
        BY <3>6, <4>1, <4>3
      <4> QED
        BY <4>2, <4>3
    <3> QED
      BY <3>4, <3>7
  <2>2. CASE chunkrwlock_wunlock(t)
    <3>1. PICK b \in GetBlock(k) :
         LET r == WriterLeaves(GetRec(k, b)) IN
         IF r.waiting_writers_cnt # 0
              THEN IF Sleeping(b, "wwait") # {}
                     THEN \E u \in Sleeping(b, "wwait") : pc' = Woken(t, {u}, "wwoken")
                     ELSE pc' = Woken(t, {}, "wwoken")
              ELSE pc' = Woken(t, IF r.waiting_readers_cnt # 0 THEN Sleeping(b, "rwait") ELSE {},
                               "rwoken")
      BY <1>1, <2>2 DEF chunkrwlock_wunlock
    <3>2. /\ Sleeping(b, "wwait") = At(k, {"wwait"})
          /\ Sleeping(b, "rwait") = At(k, {"rwait"}) /\ At(k, {"rwait"}) \subseteq At(k, WaitingReaders)
      BY SleepersFound DEF At, WaitingReaders
    <3>3. At(k, {"rwait"}) # {} => GetRec(k, b).waiting_readers_cnt # 0
      BY <3>2, CountersShow
    <3>4. pc[t] = "writing"
      BY <2>2 DEF chunkrwlock_wunlock
    <3>5. CASE GetRec(k, b).waiting_writers_cnt # 0
      <4>1. \E w \in SUBSET Threads :
              /\ w \subseteq At(k, {"wwait"}) /\ pc' = Woken(t, w, "wwoken")
              /\ At(k, {"wwait"}) # {} => w # {}
        <5>1. IF At(k, {"wwait"}) # {}
              THEN \E u \in At(k, {"wwait"}) : pc' = Woken(t, {u}, "wwoken")
              ELSE pc' = Woken(t, {}, "wwoken")
          BY <3>1, <3>2, <3>5 DEF WriterLeaves, Counters
        <5>2. At(k, {"wwait"}) \subseteq Threads
          BY DEF At
        <5>3. CASE At(k, {"wwait"}) = {}
          BY <5>1, <5>3
        <5>4. CASE At(k, {"wwait"}) # {}
          <6>1. PICK u \in At(k, {"wwait"}) : pc' = Woken(t, {u}, "wwoken")
            BY <5>1, <5>4
          <6>2. {u} \in SUBSET Threads /\ {u} \subseteq At(k, {"wwait"}) /\ {u} # {}
            BY <5>2
          <6> QED
            BY <6>1, <6>2
        <5> QED
          BY <5>3, <5>4
      <4> QED
        BY <3>4, <3>5, <4>1
    <3>6. CASE GetRec(k, b).waiting_writers_cnt = 0
      <4>1. pc' = Woken(t, At(k, {"rwait"}), "rwoken")
        BY <3>1, <3>2, <3>3, <3>6 DEF WriterLeaves, Counters
      <4>2. At(k, {"rwait"}) \in SUBSET Threads
        BY DEF At
      <4> QED
        BY <3>4, <3>6, <4>1, <4>2
    <3> QED
      BY <3>5, <3>6
  <2> QED
    BY <2>1, <2>2
<1>4. /\ \A u \in Threads \ {t} : pc'[u] = IF u \in w THEN IF at = "rwait" THEN "rwoken" ELSE "wwoken" ELSE pc[u]
      /\ pc'[t] = "idle"
  BY <1>3 DEF Woken
<1>5. \A u \in w : u \in Threads /\ pc[u] = at /\ chunk[u] = k
  BY <1>3 DEF At
<1>6. \A l \in Chunks : l # k => Signalled(l)'
  <2> SUFFICES ASSUME NEW l \in Chunks, l # k PROVE Signalled(l)'
    OBVIOUS
  <2>1. Signalled(l)
    BY DEF NoLostWakeup, Signalled
  <2>2. \A u \in Threads : chunk[u] = l \/ chunk'[u] = l => chunk'[u] = chunk[u] /\ pc'[u] = pc[u]
    BY <1>1, <1>2, <1>4, <1>5, NullAssumption
  <2> QED
    BY <2>1, <2>2, OthersSignalled
<1>7. Signalled(k)'
  <2>1. (At(k, {"wwait"}) # {} => At(k, {"reading", "writing", "wwoken"}) # {})'
    <3> SUFFICES ASSUME NEW u \in Threads, pc'[u] = "wwait", chunk'[u] = k
                 PROVE  \E x \in Threads : pc'[x] \in {"reading", "writing", "wwoken"} /\ chunk'[x] = k
      BY DEF At
    <3>1. u # t /\ u \in At(k, {"wwait"})
      BY <1>2, <1>4, NullAssumption DEF At
    <3>2. CASE \E x \in w : at = "wwait"
      BY <3>2, <1>2, <1>4, <1>5, <1>3
    <3>3. CASE pc[t] = "reading" /\ GetRec(k, b).active_readers_cnt # 1
      <4>1. GetRec(k, b).active_readers_cnt = Cardinality(At(k, Readers))
        BY GetCounted DEF Counted
      <4>2. At(k, Readers) # {t}
        BY <3>3, <4>1, FS_Singleton
      <4>3. t \in At(k, Readers)
        BY <3>3, <1>1 DEF At, Readers
      <4>4. PICK x \in At(k, Readers) : x # t
        BY <4>2, <4>3
      <4>5. x \in Threads /\ pc[x] = "reading" /\ chunk[x] = k
        BY DEF At, Readers
      <4>6. x \notin w
        BY <4>5, <1>5
      <4> QED
        BY <4>4, <4>5, <4>6, <1>2, <1>4
    <3>4. u \in At(k, WaitingWriters)
      BY <3>1 DEF At, WaitingWriters
    <3>5. GetRec(k, b).waiting_writers_cnt # 0
      BY <3>4, CountersShow
    <3> QED
      BY <3>1, <3>2, <3>3, <3>5, <1>3
  <2>2. (At(k, {"rwait"}) # {} => At(k, {"writing", "wwait", "wwoken"}) # {})'
    <3> SUFFICES ASSUME NEW u \in Threads, pc'[u] = "rwait", chunk'[u] = k
                 PROVE  \E x \in Threads : pc'[x] \in {"writing", "wwait", "wwoken"} /\ chunk'[x] = k
      BY DEF At
    <3>1. u # t /\ u \in At(k, {"rwait"}) /\ u \notin w
      BY <1>2, <1>4, <1>5, NullAssumption DEF At
    <3>2. ASSUME NEW x \in Threads, x # t, pc[x] \in {"writing", "wwait", "wwoken"}, chunk[x] = k
          PROVE  pc'[x] \in {"writing", "wwait", "wwoken"} /\ chunk'[x] = k
      BY <3>2, <1>2, <1>4, <1>5
    <3>3. CASE pc[t] = "reading"
      <4>1. At(k, {"writing", "wwait", "wwoken"}) # {}
        BY <3>1 DEF NoLostWakeup
      <4>2. PICK x \in Threads : pc[x] \in {"writing", "wwait", "wwoken"} /\ chunk[x] = k
        BY <4>1 DEF At
      <4> QED
        BY <4>2, <3>2, <3>3
    <3>4. CASE pc[t] = "writing"
      <4>1. GetRec(k, b).waiting_writers_cnt # 0
        BY <1>3, <3>1, <3>4
      <4>2. At(k, WaitingWriters) # {}
        BY <4>1, CountersShow
      <4>3. PICK x \in Threads : pc[x] \in {"wwait", "wwoken"} /\ chunk[x] = k
        BY <4>2 DEF At, WaitingWriters
      <4> QED
        BY <4>3, <3>2, <3>4
    <3> QED
      BY <1>3, <3>3, <3>4
  <2> QED
    BY <2>1, <2>2 DEF Signalled
<1> QED
  BY <1>6, <1>7 DEF NoLostWakeup, Signalled

\* Every step keeps NoLostWakeup.
LEMMA NextKeepsSignalled ==
  ASSUME Inv, NoLostWakeup, [Next]_vars
  PROVE  NoLostWakeup'
<1>1. CASE UNCHANGED vars
  BY <1>1 DEF vars, NoLostWakeup, At
<1>2. ASSUME NEW t \in Threads, NEW k \in Chunks, chunkrwlock_rlock(t, k)
      PROVE  NoLostWakeup'
  <2>1. chunk[t] = NULL /\ chunk'[t] = k /\ \A u \in Threads \ {t} : chunk'[u] = chunk[u]
    BY <1>2 DEF chunkrwlock_rlock, Inv, TypeOK
  <2> QED
    BY <1>2, <2>1, TryKeepsSignalled DEF chunkrwlock_rlock
<1>3. ASSUME NEW t \in Threads, NEW k \in Chunks, chunkrwlock_wlock(t, k)
      PROVE  NoLostWakeup'
  <2>1. chunk[t] = NULL /\ chunk'[t] = k /\ \A u \in Threads \ {t} : chunk'[u] = chunk[u]
    BY <1>3 DEF chunkrwlock_wlock, Inv, TypeOK
  <2> QED
    BY <1>3, <2>1, TryKeepsSignalled DEF chunkrwlock_wlock
<1>4. ASSUME NEW t \in Threads, rlock_resume(t) \/ wlock_resume(t)
      PROVE  NoLostWakeup'
  <2>1. chunk[t] \in Chunks /\ hashtab[chunk[t]] = cr[t] /\ UNCHANGED chunk
    BY <1>4 DEF Inv, TypeOK, RecordKept, rlock_resume, wlock_resume
  <2>2. PICK k \in Chunks : k = chunk[t]
    BY <2>1
  <2>3. PICK b \in GetBlock(k) : b = cr[t] /\ GetRec(k, b) = rec[cr[t]]
    BY <2>1, <2>2 DEF GetBlock, GetRec, Inv
  <2>4. CASE rlock_resume(t)
    BY <2>1, <2>2, <2>3, <2>4, TryKeepsSignalled DEF rlock_resume
  <2>5. CASE wlock_resume(t)
    BY <2>1, <2>2, <2>3, <2>5, TryKeepsSignalled DEF wlock_resume
  <2> QED
    BY <1>4, <2>4, <2>5
<1>5. ASSUME NEW t \in Threads, SpuriousWakeup(t)
      PROVE  NoLostWakeup'
  BY <1>5 DEF NoLostWakeup, SpuriousWakeup, At, Inv, TypeOK
<1> QED
  BY <1>1, <1>2, <1>3, <1>4, <1>5, UnlockKeepsSignalled DEF Next

\* No thread sleeps on a lock that is free with nobody on the way to it: one
\* signal per unlock is enough for any number of readers and writers.
THEOREM NoLostWakeupAlways == Spec => []NoLostWakeup
<1>1. Init => NoLostWakeup
  BY DEF Init, NoLostWakeup, At
<1> QED
  BY <1>1, CountersExact, NextKeepsSignalled, PTL DEF Spec
====
