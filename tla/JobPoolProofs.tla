---------------------------- MODULE JobPoolProofs ----------------------------
(***************************************************************************)
(* Proofs about the job pool, for any number of worker threads and jobs,   *)
(* any limits and any interleaving of workers, event loop and rebalance    *)
(* thread: the pipe agrees with the status queue, a deleted pool is used   *)
(* by nobody, and the pool implements JobService.                          *)
(*                                                                         *)
(* Each rests on the invariant Inv: the counters of workers are exact, the *)
(* phases of the exit go with the state of the queue, and a job is in one  *)
(* place at a time, being created, queued, held by a worker or waiting for *)
(* its callback, and has a record while it is there.                       *)
(***************************************************************************)
EXTENDS JobPool, FiniteSetTheorems, TLAPS

Kinds == {"rw", "op", "info", "move"}
JobRec == [kind : Kinds, jstate : {"enabled", "inprogress", "disabled"}]
SubmitRec == [id : Id, kind : Kinds, busy : Int]
StatusRec == [id : Id, status : {"ok", "notdone"}]
Phases == {"run", "want", "canexit", "close", "wait", "asleep", "hdd_term", "gone"}

TypeOK ==
    /\ pool \in {"hp", "lp"}
    /\ jobhash \in [Id -> JobRec \cup {NoJob}]
    /\ nextjobid \in 1 .. MaxJobs + 1
    /\ jobqueue \in Seq(Id) /\ freewaiting \in Nat /\ closed \in BOOLEAN
    /\ statusqueue \in Seq(StatusRec) /\ pipe \in Nat
    /\ workers_avail \in Int /\ workers_total \in Int /\ limits \in Limits
    /\ pc \in [Threads -> {"none", "get", "sleep", "got", "run", "skip", "back"}]
    /\ held \in [Threads -> Id \cup {0}]
    /\ submit \in [Submitter -> SubmitRec \cup {Idle}]
    /\ outcome \in [Id -> {"none", "ok", "notdone", "dropped"}]
    /\ t \in Phases /\ term_waiting \in Nat /\ term \in BOOLEAN

\* The threads that exist.
Workers == {w \in Threads : pc[w] # "none"}

\* workers_total is exact, a worker holds a job between queue_get and its
\* status, and the phases of the exit go with the state of the queue.
WorkersInv ==
    /\ workers_total = Cardinality(Workers)
    /\ \A w \in Threads : held[w] # 0 <=> pc[w] \in {"got", "run", "skip"}
    /\ closed <=> t \in {"wait", "asleep", "hdd_term", "gone"}
    /\ closed => freewaiting = 0
    /\ Deleted => workers_total = 0
    /\ t \notin {"run", "want"} => submit["main"] = Idle

\* The four places of a job.
Creating == {submit[s].id : s \in Submitter} \ {0}
Queued == {jobqueue[k] : k \in 1 .. Len(jobqueue)}
Held == {held[w] : w \in Threads} \ {0}
Statuses == {statusqueue[k].id : k \in 1 .. Len(statusqueue)}

\* A job is in one place at most, and there once.
Once ==
    /\ submit["main"].id = submit["hs"].id => submit["main"].id = 0
    /\ \A k, l \in 1 .. Len(jobqueue) : jobqueue[k] = jobqueue[l] => k = l
    /\ \A v, w \in Threads : held[v] = held[w] /\ held[v] # 0 => v = w
    /\ \A k, l \in 1 .. Len(statusqueue) : statusqueue[k].id = statusqueue[l].id => k = l
Apart ==
    /\ Creating \cap Queued = {} /\ Creating \cap Held = {} /\ Creating \cap Statuses = {}
    /\ Queued \cap Held = {} /\ Queued \cap Statuses = {} /\ Held \cap Statuses = {}

\* A job in one of the places has a record and no outcome yet; a job with an
\* outcome has no record; numbers not given out have neither.
Alive ==
    /\ ~Deleted => \A i \in Creating \cup Queued \cup Held \cup Statuses :
                     Exists(i) /\ outcome[i] = "none"
    /\ \A i \in Id : outcome[i] # "none" => ~Exists(i)
    /\ \A i \in Id : i >= nextjobid => ~Exists(i) /\ outcome[i] = "none"
    /\ Deleted => statusqueue = <<>> /\ \A i \in Id : ~Exists(i)

Inv == TypeOK /\ WorkersInv /\ PipeMatchesQueue /\ Once /\ Apart /\ Alive

-----------------------------------------------------------------------------
\* The limits bound the workers by the threads there are.
LEMMA ThreadsFacts ==
    /\ IsFiniteSet(Threads) /\ Cardinality(Threads) \in Nat
    /\ \A l \in Limits : /\ l.max \in 1 .. Cardinality(Threads)
                         /\ l.idle \in 0 .. Cardinality(Threads)
                         /\ l = [max |-> l.max, idle |-> l.idle]
    /\ Limits # {} => Threads # {}
<1>1. IsFiniteSet(Threads) /\ Cardinality(Threads) \in Nat
  BY LimitsAssumption, FS_CardinalityType
<1>2. \A l \in Limits : /\ l.max \in 1 .. Cardinality(Threads)
                        /\ l.idle \in 0 .. Cardinality(Threads)
                        /\ l = [max |-> l.max, idle |-> l.idle]
  BY LimitsAssumption
<1>3. Threads = {} => Cardinality(Threads) = 0
  BY FS_EmptySet
<1> QED
  BY <1>1, <1>2, <1>3

LEMMA InitTypeOK == Init => TypeOK
<1> SUFFICES ASSUME Init PROVE TypeOK
  OBVIOUS
<1>1. /\ jobhash \in [Id -> JobRec \cup {NoJob}] /\ held \in [Threads -> Id \cup {0}]
      /\ submit \in [Submitter -> SubmitRec \cup {Idle}]
  BY DEF Init
<1>2. /\ pc \in [Threads -> {"none", "get", "sleep", "got", "run", "skip", "back"}]
      /\ outcome \in [Id -> {"none", "ok", "notdone", "dropped"}]
  BY DEF Init
<1>3. nextjobid \in 1 .. MaxJobs + 1 /\ jobqueue \in Seq(Id) /\ statusqueue \in Seq(StatusRec)
  BY LimitsAssumption DEF Init
<1>4. /\ freewaiting \in Nat /\ pipe \in Nat /\ term_waiting \in Nat
      /\ workers_avail \in Int /\ workers_total \in Int
  BY DEF Init
<1>5. /\ pool \in {"hp", "lp"} /\ closed \in BOOLEAN /\ limits \in Limits
      /\ t \in Phases /\ term \in BOOLEAN
  BY Zenon DEF Init, Phases
<1> QED
  BY <1>1, <1>2, <1>3, <1>4, <1>5 DEF TypeOK

\* The records of jobs, and what the setters of the model make of them.
LEMMA JobRecords ==
    /\ \A k \in Kinds, j \in {"enabled", "inprogress", "disabled"} :
         [kind |-> k, jstate |-> j] \in JobRec /\ [kind |-> k, jstate |-> j] # NoJob
    /\ \A j \in JobRec \cup {NoJob} : j = NoJob <=> j.jstate = "none"
    /\ \A j \in JobRec \cup {NoJob} : j # NoJob => j.kind \in Kinds
  BY DEF JobRec, NoJob, Kinds

LEMMA WorkerTypeOK ==
    ASSUME TypeOK, WorkersInv, NEW w \in Threads, WorkerStep(w) \/ SpuriousWakeup(w)
    PROVE  TypeOK'
<1>1. CASE queue_get(w)
  <2>1. CASE jobqueue = <<>> /\ freewaiting' = freewaiting + 1 /\ pc' = [pc EXCEPT ![w] = "sleep"]
               /\ UNCHANGED <<jobqueue, held, counts, t, term_waiting>>
    BY <1>1, <2>1 DEF queue_get, TypeOK, counts, status, rebalance
  <2>2. CASE job_close_worker(w, workers_avail, workers_total)
               /\ UNCHANGED <<jobqueue, freewaiting, held>>
    BY <1>1, <2>2 DEF queue_get, job_close_worker, TypeOK, counts, status, rebalance, Phases
  <2>3. CASE jobqueue # <<>> /\ jobqueue' = Tail(jobqueue)
               /\ held' = [held EXCEPT ![w] = Head(jobqueue)] /\ pc' = [pc EXCEPT ![w] = "got"]
               /\ UNCHANGED <<freewaiting, counts, t, term_waiting>>
    BY <1>1, <2>3 DEF queue_get, TypeOK, counts, status, rebalance
  <2> QED
    BY <1>1, <2>1, <2>2, <2>3 DEF queue_get
<1>2. CASE SpuriousWakeup(w)
  BY <1>2 DEF SpuriousWakeup, TypeOK, queue, counts, status, exit, rebalance
<1>3. CASE BeginJob(w)
  <2>1. held[w] \in Id
    BY <1>3 DEF BeginJob, WorkersInv, TypeOK
  <2>2. jobhash' \in [Id -> JobRec \cup {NoJob}]
    <3>1. jobhash[held[w]] \in JobRec \cup {NoJob}
      BY <2>1 DEF TypeOK
    <3>2. CASE jobhash[held[w]].jstate = "enabled"
      <4>1. [kind |-> jobhash[held[w]].kind, jstate |-> "inprogress"] \in JobRec
        BY <3>1, <3>2, JobRecords, Zenon DEF NoJob
      <4> QED
        BY <1>3, <2>1, <3>2, <4>1 DEF BeginJob, TypeOK
    <3> QED
      BY <1>3, <3>2 DEF BeginJob, TypeOK
  <2>3. pc' \in [Threads -> {"none", "get", "sleep", "got", "run", "skip", "back"}]
    BY <1>3, Zenon DEF BeginJob, TypeOK
  <2> QED
    BY <1>3, <2>2, <2>3 DEF BeginJob, TypeOK, queue, counts, status, exit, rebalance
<1>4. CASE DoJob(w)
  <2>1. held[w] \in Id
    BY <1>4 DEF DoJob, WorkersInv, TypeOK
  <2>2. [id |-> held[w], status |-> IF pc[w] = "run" THEN "ok" ELSE "notdone"] \in StatusRec
    BY <2>1 DEF StatusRec
  <2>3. statusqueue' \in Seq(StatusRec) /\ pipe' \in Nat
    BY <1>4, <2>2 DEF DoJob, job_send_status, TypeOK
  <2> QED
    BY <1>4, <2>3 DEF DoJob, TypeOK, queue, counts, exit, rebalance
<1>5. CASE EndJob(w)
  <2>1. CASE job_close_worker(w, workers_avail + 1, workers_total)
    BY <1>5, <2>1 DEF EndJob, job_close_worker, TypeOK, queue, counts, status, exit, rebalance, Phases
  <2>2. CASE /\ workers_avail' = workers_avail + 1
             /\ pc' = [pc EXCEPT ![w] = "get"]
             /\ UNCHANGED <<workers_total, t, term_waiting>>
    BY <1>5, <2>2 DEF EndJob, TypeOK, queue, counts, status, exit, rebalance
  <2> QED
    BY <1>5, <2>1, <2>2 DEF EndJob
<1> QED
  BY <1>1, <1>2, <1>3, <1>4, <1>5 DEF WorkerStep

LEMMA SubmitTypes ==
    ASSUME TypeOK, NEW s \in Submitter
    PROVE  /\ submit[s] # Idle => submit[s].id \in Id
           /\ submit[s].id = 0 <=> submit[s] = Idle
           /\ submit[s].id \in Id \cup {0}
           /\ submit[s].busy \in Int
<1>1. submit[s] \in SubmitRec \cup {Idle}
  BY DEF TypeOK
<1> QED
  BY <1>1 DEF SubmitRec, Idle, Id

LEMMA NewJobTypes ==
    ASSUME TypeOK, NEW s \in Submitter, NEW kind \in Kinds, NewJob(s, kind)
    PROVE  /\ nextjobid \in Id
           /\ jobhash' \in [Id -> JobRec \cup {NoJob}]
           /\ nextjobid' \in 1 .. MaxJobs + 1
           /\ submit' \in [Submitter -> SubmitRec \cup {Idle}]
<1>1. nextjobid \in Id /\ nextjobid' \in 1 .. MaxJobs + 1
  BY LimitsAssumption DEF NewJob, TypeOK, Id
<1>2. [kind |-> kind, jstate |-> "enabled"] \in JobRec
  BY JobRecords, Zenon
<1>3. [id |-> nextjobid, kind |-> kind, busy |-> Busy] \in SubmitRec
  BY <1>1 DEF SubmitRec, Busy, TypeOK
<1> QED
  BY <1>1, <1>2, <1>3 DEF NewJob, TypeOK

\* The three ways the second half of job_new may end.
GivenBack(s) ==
    /\ jobhash' = [jobhash EXCEPT ![submit[s].id] = NoJob]
    /\ UNCHANGED <<jobqueue, freewaiting, statusqueue, pipe, pc>>
Rejected(s) ==
    /\ job_send_status(submit[s].id, "notdone")
    /\ UNCHANGED <<jobhash, jobqueue, freewaiting, pc>>
Accepted(s) ==
    /\ queue_put(submit[s].id)
    /\ UNCHANGED <<jobhash, statusqueue, pipe>>

LEMMA PutJobCases ==
    ASSUME NEW s \in Submitter, PutJob(s)
    PROVE  /\ submit[s] # Idle
           /\ GivenBack(s) \/ Rejected(s) \/ Accepted(s)
           /\ submit' = [submit EXCEPT ![s] = Idle]
           /\ UNCHANGED <<pool, nextjobid, closed, workers_avail, workers_total, limits, held,
                          outcome, t, term_waiting, term>>
  BY DEF PutJob, GivenBack, Rejected, Accepted, counts, exit, status

LEMMA PutJobTypes ==
    ASSUME TypeOK, NEW s \in Submitter, PutJob(s)
    PROVE  TypeOK'
<1>1. submit[s].id \in Id
  BY PutJobCases, SubmitTypes
<1>2. submit' \in [Submitter -> SubmitRec \cup {Idle}]
  BY PutJobCases DEF TypeOK
<1>3. CASE GivenBack(s)
  <2>1. jobhash' \in [Id -> JobRec \cup {NoJob}]
    BY <1>1, <1>3 DEF GivenBack, TypeOK
  <2> QED
    BY <1>2, <1>3, <2>1, PutJobCases, Zenon DEF GivenBack, TypeOK
<1>4. CASE Rejected(s)
  <2>1. [id |-> submit[s].id, status |-> "notdone"] \in StatusRec
    BY <1>1 DEF StatusRec
  <2>2. statusqueue' \in Seq(StatusRec) /\ pipe' \in Nat
    BY <1>4, <2>1 DEF Rejected, job_send_status, TypeOK
  <2> QED
    BY <1>2, <1>4, <2>2, PutJobCases DEF Rejected, TypeOK
<1>5. CASE Accepted(s)
  <2>1. jobqueue' \in Seq(Id)
    BY <1>1, <1>5 DEF Accepted, queue_put, TypeOK
  <2>2. freewaiting' \in Nat
    BY <1>5 DEF Accepted, queue_put, TypeOK
  <2>3. pc' \in [Threads -> {"none", "get", "sleep", "got", "run", "skip", "back"}]
    BY <1>5, Zenon DEF Accepted, queue_put, TypeOK
  <2> QED
    BY <1>2, <1>5, <2>1, <2>2, <2>3, PutJobCases DEF Accepted, TypeOK
<1> QED
  BY <1>3, <1>4, <1>5, PutJobCases

LEMMA ReceivedTypes ==
    ASSUME TypeOK
    PROVE  /\ Received = Statuses /\ Statuses \subseteq Id
           /\ \A k \in 1 .. Len(statusqueue) :
                statusqueue[k].id \in Id /\ statusqueue[k].status \in {"ok", "notdone"}
<1>1. statusqueue \in Seq(StatusRec)
  BY DEF TypeOK
<1>2. DOMAIN statusqueue = 1 .. Len(statusqueue)
  BY <1>1
<1>3. \A k \in 1 .. Len(statusqueue) : statusqueue[k] \in StatusRec
  BY <1>1
<1> QED
  BY <1>2, <1>3 DEF Received, Statuses, StatusRec

\* The status of a job in the queue is one of the two there are.
LEMMA StatusOfType ==
    ASSUME TypeOK, NEW i \in Received
    PROVE  StatusOf(i) \in {"ok", "notdone"}
<1>1. PICK k \in DOMAIN statusqueue : i = statusqueue[k].id
  BY DEF Received
<1>2. statusqueue[k] \in {statusqueue[l] : l \in DOMAIN statusqueue} /\ statusqueue[k].id = i
  BY <1>1
<1>3. PICK l \in DOMAIN statusqueue :
        (CHOOSE s \in {statusqueue[m] : m \in DOMAIN statusqueue} : s.id = i) = statusqueue[l]
  BY <1>2
<1>4. l \in 1 .. Len(statusqueue)
  BY <1>3 DEF TypeOK
<1> QED
  BY <1>3, <1>4, ReceivedTypes, Zenon DEF StatusOf

LEMMA MainTypeOK ==
    ASSUME TypeOK,
           \/ \E kind \in {"rw", "op", "info"} : MainJob(kind)
           \/ \E i \in Id : job_pool_disable_job(i)
           \/ job_pool_check_jobs_in_pool
           \/ MainStep \/ Terminate \/ job_reload
    PROVE  TypeOK'
<1>1. ASSUME NEW kind \in {"rw", "op", "info"}, MainJob(kind) PROVE TypeOK'
  <2>1. NewJob("main", kind) /\ kind \in Kinds /\ "main" \in Submitter
    BY <1>1 DEF MainJob, Kinds, Submitter
  <2> QED
    BY <1>1, <2>1, NewJobTypes DEF MainJob, TypeOK, queue, status, counts, exit
<1>2. ASSUME NEW i \in Id, job_pool_disable_job(i) PROVE TypeOK'
  <2>1. jobhash[i] \in JobRec \cup {NoJob} /\ jobhash[i] # NoJob
    BY <1>2 DEF job_pool_disable_job, TypeOK, NoJob
  <2>2. [kind |-> jobhash[i].kind, jstate |-> "disabled"] \in JobRec
    BY <2>1, JobRecords, Zenon
  <2> QED
    BY <1>2, <2>2 DEF job_pool_disable_job, TypeOK, queue, status, counts, exit
<1>3. CASE job_pool_check_jobs_in_pool
  <2>1. jobhash' \in [Id -> JobRec \cup {NoJob}]
    BY <1>3 DEF job_pool_check_jobs_in_pool, TypeOK
  <2>2. outcome' \in [Id -> {"none", "ok", "notdone", "dropped"}]
    BY <1>3, StatusOfType DEF job_pool_check_jobs_in_pool, TypeOK
  <2>3. statusqueue' \in Seq(StatusRec) /\ pipe' \in Nat
    BY <1>3 DEF job_pool_check_jobs_in_pool, TypeOK
  <2> QED
    BY <1>3, <2>1, <2>2, <2>3 DEF job_pool_check_jobs_in_pool, TypeOK, queue, counts, exit
<1>4. CASE MainPut
  BY <1>4, PutJobTypes DEF MainPut, Submitter
<1>5. CASE job_canexit
  BY <1>5 DEF job_canexit, Main, TypeOK, queue, status, counts, Phases
<1>6. CASE ClosePool
  <2>1. pc' \in [Threads -> {"none", "get", "sleep", "got", "run", "skip", "back"}]
    BY <1>6 DEF ClosePool, queue_close, TypeOK
  <2> QED
    BY <1>6, <2>1 DEF ClosePool, queue_close, Main, TypeOK, status, counts, Phases
<1>7. CASE WaitForWorkers
  BY <1>7 DEF WaitForWorkers, Main, TypeOK, queue, status, counts, Phases
<1>8. CASE DeletePool
  <2>1. jobhash' \in [Id -> JobRec \cup {NoJob}]
    BY <1>8 DEF DeletePool
  <2>2. outcome' \in [Id -> {"none", "ok", "notdone", "dropped"}]
    BY <1>8 DEF DeletePool, TypeOK
  <2>3. statusqueue' \in Seq(StatusRec) /\ pipe' \in Nat /\ t' \in Phases
    BY <1>8 DEF DeletePool, Main, Phases
  <2> QED
    BY <1>8, <2>1, <2>2, <2>3 DEF DeletePool, TypeOK, queue, counts
<1>9. CASE hdd_term
  <2>1. t' \in Phases /\ term' \in BOOLEAN
    BY <1>9, Zenon DEF hdd_term, TypeOK, Phases
  <2> QED
    BY <1>9, <2>1 DEF hdd_term, TypeOK, queue, status, counts
<1>10. CASE Terminate
  BY <1>10 DEF Terminate, Main, TypeOK, queue, status, counts, Phases
<1>11. CASE job_reload
  BY <1>11 DEF job_reload, TypeOK, queue, status, counts, exit
<1> QED
  BY <1>1, <1>2, <1>3, <1>4, <1>5, <1>6, <1>7, <1>8, <1>9, <1>10, <1>11 DEF MainStep

LEMMA HsTypeOK ==
    ASSUME TypeOK, HsStep \/ HsJob
    PROVE  TypeOK'
<1>1. CASE HsJob
  <2>1. NewJob("hs", "move") /\ "move" \in Kinds /\ "hs" \in Submitter
    BY <1>1 DEF HsJob, Kinds, Submitter
  <2> QED
    BY <1>1, <2>1, NewJobTypes DEF HsJob, TypeOK, queue, status, counts, exit
<1>2. CASE HsPut
  BY <1>2, PutJobTypes DEF HsPut, Submitter
<1>3. CASE HsUnchanged
  BY <1>3 DEF HsUnchanged, TypeOK, queue, status, counts, exit
<1> QED
  BY <1>1, <1>2, <1>3 DEF HsStep, HsExit, HsWait, HsUndefined

LEMMA NextTypeOK == TypeOK /\ WorkersInv /\ [Next]_vars => TypeOK'
<1> SUFFICES ASSUME TypeOK, WorkersInv, [Next]_vars PROVE TypeOK'
  OBVIOUS
<1>1. CASE UNCHANGED vars
  BY <1>1 DEF vars, TypeOK, queue, status, counts, exit
<1> QED
  BY <1>1, WorkerTypeOK, MainTypeOK, HsTypeOK DEF Next

-----------------------------------------------------------------------------
\* The workers

LEMMA WorkersCounted ==
    ASSUME TypeOK, WorkersInv
    PROVE  /\ IsFiniteSet(Workers) /\ Cardinality(Workers) \in Nat
           /\ \A w \in Workers : workers_total >= 1
           /\ workers_total = 0 => Workers = {}
           /\ workers_total < Cardinality(Threads) => \E v \in Threads : pc[v] = "none"
<1>1. IsFiniteSet(Workers) /\ Cardinality(Workers) \in Nat
  BY ThreadsFacts, FS_Subset, FS_CardinalityType DEF Workers
<1>2. Cardinality(Workers) = 0 <=> Workers = {}
  BY <1>1, FS_EmptySet
<1>3. ~(\E v \in Threads : pc[v] = "none") => Workers = Threads
  BY DEF Workers
<1> QED
  BY <1>1, <1>2, <1>3, ThreadsFacts DEF WorkersInv

\* job_close_worker by the worker w, whatever count of available workers it
\* is called with.
LEMMA CloseWorker ==
    ASSUME TypeOK, WorkersInv, NEW w \in Threads, NEW avail,
           pc[w] \in {"get", "back"}, job_close_worker(w, avail, workers_total),
           UNCHANGED <<held, closed, freewaiting, submit>>
    PROVE  WorkersInv'
<1>1. w \in Workers /\ held[w] = 0 /\ ~Deleted
  BY WorkersCounted DEF Workers, WorkersInv, TypeOK
<1>2. Workers' = Workers \ {w}
  BY DEF job_close_worker, Workers, TypeOK
<1>3. workers_total' = Cardinality(Workers')
  BY <1>1, <1>2, WorkersCounted, FS_RemoveElement, Zenon DEF job_close_worker, WorkersInv
<1>4. \A v \in Threads : held'[v] # 0 <=> pc'[v] \in {"got", "run", "skip"}
  BY <1>1 DEF job_close_worker, WorkersInv, TypeOK
<1>5. t' = t \/ (t = "asleep" /\ t' = "wait")
  BY DEF job_close_worker
<1> QED
  BY <1>1, <1>3, <1>4, <1>5 DEF WorkersInv, Deleted

LEMMA WorkerWorkersInv ==
    ASSUME TypeOK, WorkersInv, NEW w \in Threads, WorkerStep(w) \/ SpuriousWakeup(w)
    PROVE  WorkersInv'
<1>1. CASE queue_get(w)
  <2>1. CASE jobqueue = <<>> /\ ~closed /\ freewaiting' = freewaiting + 1
               /\ pc' = [pc EXCEPT ![w] = "sleep"]
               /\ UNCHANGED <<jobqueue, held, counts, t, term_waiting>>
    <3>1. Workers' = Workers
      BY <1>1, <2>1 DEF queue_get, Workers, TypeOK
    <3> QED
      BY <1>1, <2>1, <3>1 DEF queue_get, WorkersInv, Deleted, counts, TypeOK
  <2>2. CASE job_close_worker(w, workers_avail, workers_total)
               /\ UNCHANGED <<jobqueue, freewaiting, held>>
    BY <1>1, <2>2, CloseWorker DEF queue_get
  <2>3. CASE jobqueue # <<>> /\ ~closed /\ jobqueue' = Tail(jobqueue)
               /\ held' = [held EXCEPT ![w] = Head(jobqueue)] /\ pc' = [pc EXCEPT ![w] = "got"]
               /\ UNCHANGED <<freewaiting, counts, t, term_waiting>>
    <3>1. Workers' = Workers
      BY <1>1, <2>3 DEF queue_get, Workers, TypeOK
    <3>2. Head(jobqueue) \in Id
      BY <2>3 DEF TypeOK
    <3>3. Head(jobqueue) # 0
      BY <3>2 DEF Id
    <3> QED
      BY <1>1, <2>3, <3>1, <3>3 DEF queue_get, WorkersInv, Deleted, counts, TypeOK
  <2> QED
    BY <1>1, <2>1, <2>2, <2>3 DEF queue_get
<1>2. CASE SpuriousWakeup(w)
  <2>1. Workers' = Workers
    BY <1>2 DEF SpuriousWakeup, Workers, TypeOK
  <2> QED
    BY <1>2, <2>1 DEF SpuriousWakeup, WorkersInv, Deleted, counts, queue, exit, TypeOK
<1>3. CASE BeginJob(w)
  <2>1. w \in Workers /\ ~Deleted
    BY <1>3, WorkersCounted DEF BeginJob, Workers, WorkersInv
  <2> DEFINE after == IF jobhash[held[w]].jstate = "disabled" THEN "skip" ELSE "run"
             v == CHOOSE u \in Threads : pc[u] = "none"
  <2>2. CASE /\ workers_total < limits.max /\ workers_total' = workers_total + 1
             /\ pc' = [[pc EXCEPT ![w] = after] EXCEPT ![v] = "get"]
    <3>1. v \in Threads /\ pc[v] = "none"
      <4>1. limits.max \in Nat /\ limits.max <= Cardinality(Threads)
        BY ThreadsFacts DEF TypeOK
      <4>2. \E u \in Threads : pc[u] = "none"
        BY <2>2, <4>1, WorkersCounted, ThreadsFacts DEF TypeOK
      <4> QED
        BY <4>2
    <3> HIDE DEF v, after
    <3>2. Workers' = Workers \cup {v} /\ v \notin Workers
      BY <1>3, <2>2, <3>1 DEF BeginJob, Workers, TypeOK, after
    <3>3. workers_total' = Cardinality(Workers')
      BY <2>2, <3>2, WorkersCounted, FS_AddElement, Zenon DEF WorkersInv
    <3>4. \A u \in Threads : held'[u] # 0 <=> pc'[u] \in {"got", "run", "skip"}
      BY <1>3, <2>2, <3>1 DEF BeginJob, WorkersInv, TypeOK, after
    <3> QED
      BY <1>3, <2>1, <3>3, <3>4 DEF BeginJob, WorkersInv, Deleted, queue, exit
  <2>3. CASE pc' = [pc EXCEPT ![w] = after] /\ UNCHANGED workers_total
    <3>1. Workers' = Workers
      BY <1>3, <2>3 DEF BeginJob, Workers, TypeOK
    <3> QED
      BY <1>3, <2>3, <3>1 DEF BeginJob, WorkersInv, Deleted, queue, exit, TypeOK
  <2> QED
    BY <1>3, <2>2, <2>3 DEF BeginJob
<1>4. CASE DoJob(w)
  <2>1. Workers' = Workers
    BY <1>4 DEF DoJob, Workers, TypeOK
  <2> QED
    BY <1>4, <2>1 DEF DoJob, WorkersInv, Deleted, counts, queue, exit, TypeOK
<1>5. CASE EndJob(w)
  <2>1. CASE job_close_worker(w, workers_avail + 1, workers_total)
    BY <1>5, <2>1, CloseWorker DEF EndJob, queue
  <2>2. CASE pc' = [pc EXCEPT ![w] = "get"] /\ UNCHANGED <<workers_total, t, term_waiting>>
    <3>1. Workers' = Workers
      BY <1>5, <2>2 DEF EndJob, Workers, TypeOK
    <3> QED
      BY <1>5, <2>2, <3>1 DEF EndJob, WorkersInv, Deleted, queue, TypeOK
  <2> QED
    BY <1>5, <2>1, <2>2 DEF EndJob
<1> QED
  BY <1>1, <1>2, <1>3, <1>4, <1>5 DEF WorkerStep

LEMMA PutJobWorkersInv ==
    ASSUME TypeOK, WorkersInv, NEW s \in Submitter, PutJob(s)
    PROVE  WorkersInv'
<1>1. \A w \in Threads : pc'[w] = pc[w] \/ (pc[w] = "sleep" /\ pc'[w] = "get")
  BY PutJobCases DEF GivenBack, Rejected, Accepted, queue_put, Asleep, TypeOK
<1>2. Workers' = Workers
  BY <1>1 DEF Workers
<1>3. \A w \in Threads : held'[w] # 0 <=> pc'[w] \in {"got", "run", "skip"}
  BY <1>1, PutJobCases, Zenon DEF WorkersInv
<1>4. closed => freewaiting' = 0
  <2>1. freewaiting = 0 => freewaiting' = 0
    BY PutJobCases DEF GivenBack, Rejected, Accepted, queue_put
  <2> QED
    BY <2>1 DEF WorkersInv
<1>5. submit["main"] = Idle => submit'["main"] = Idle
  BY PutJobCases DEF TypeOK, Submitter
<1> QED
  BY <1>2, <1>3, <1>4, <1>5, PutJobCases, Zenon DEF WorkersInv, Deleted

LEMMA MainWorkersInv ==
    ASSUME TypeOK, WorkersInv,
           \/ \E kind \in {"rw", "op", "info"} : MainJob(kind)
           \/ \E i \in Id : job_pool_disable_job(i)
           \/ job_pool_check_jobs_in_pool
           \/ MainStep \/ Terminate \/ job_reload
    PROVE  WorkersInv'
<1> USE DEF Deleted
<1>1. ASSUME NEW kind \in {"rw", "op", "info"}, MainJob(kind) PROVE WorkersInv'
  BY <1>1 DEF MainJob, WorkersInv, Workers, queue, counts, exit
<1>2. ASSUME NEW i \in Id, job_pool_disable_job(i) PROVE WorkersInv'
  BY <1>2 DEF job_pool_disable_job, WorkersInv, Workers, queue, counts, exit
<1>3. CASE job_pool_check_jobs_in_pool
  BY <1>3 DEF job_pool_check_jobs_in_pool, WorkersInv, Workers, queue, counts, exit
<1>4. CASE MainPut
  BY <1>4, PutJobWorkersInv DEF MainPut, Submitter
<1>5. CASE job_canexit
  BY <1>5, Zenon DEF job_canexit, Main, WorkersInv, Workers, queue, counts
<1>6. CASE ClosePool
  <2>1. \A w \in Threads : pc'[w] = pc[w] \/ (pc[w] = "sleep" /\ pc'[w] = "get")
    BY <1>6 DEF ClosePool, queue_close, Asleep, TypeOK
  <2>2. Workers' = Workers
    BY <2>1 DEF Workers
  <2>3. \A w \in Threads : held'[w] # 0 <=> pc'[w] \in {"got", "run", "skip"}
    BY <1>6, <2>1 DEF ClosePool, WorkersInv
  <2> QED
    BY <1>6, <2>2, <2>3 DEF ClosePool, queue_close, Main, WorkersInv, counts
<1>7. CASE WaitForWorkers
  BY <1>7 DEF WaitForWorkers, Main, WorkersInv, Workers, queue, counts
<1>8. CASE DeletePool
  BY <1>8 DEF DeletePool, Main, WorkersInv, Workers, queue, counts
<1>9. CASE hdd_term
  BY <1>9 DEF hdd_term, WorkersInv, Workers, queue, counts
<1>10. CASE Terminate
  BY <1>10 DEF Terminate, Main, WorkersInv, Workers, queue, counts
<1>11. CASE job_reload
  BY <1>11 DEF job_reload, WorkersInv, Workers, queue, counts, exit
<1> QED
  BY <1>1, <1>2, <1>3, <1>4, <1>5, <1>6, <1>7, <1>8, <1>9, <1>10, <1>11 DEF MainStep

LEMMA HsWorkersInv ==
    ASSUME TypeOK, WorkersInv, HsStep \/ HsJob
    PROVE  WorkersInv'
<1>1. CASE HsJob
  <2>1. submit'["main"] = submit["main"]
    BY <1>1 DEF HsJob, NewJob, TypeOK, Submitter
  <2> QED
    BY <1>1, <2>1 DEF HsJob, WorkersInv, Workers, Deleted, queue, counts, exit
<1>2. CASE HsPut
  BY <1>2, PutJobWorkersInv DEF HsPut, Submitter
<1>3. CASE HsUnchanged
  BY <1>3 DEF HsUnchanged, WorkersInv, Workers, Deleted, queue, counts, exit
<1> QED
  BY <1>1, <1>2, <1>3 DEF HsStep, HsExit, HsWait, HsUndefined

LEMMA InitWorkersInv == Init => WorkersInv
<1> SUFFICES ASSUME Init PROVE WorkersInv
  OBVIOUS
<1> DEFINE first == CHOOSE v \in Threads : TRUE
<1>1. first \in Threads
  BY ThreadsFacts DEF Init
<1>2. Workers = {first}
  BY <1>1 DEF Init, Workers
<1>3. workers_total = Cardinality(Workers)
  BY <1>2, FS_Singleton, Zenon DEF Init
<1>4. \A w \in Threads : held[w] = 0 /\ pc[w] \in {"none", "get"}
  BY DEF Init
<1>5. submit["main"] = Idle
  BY DEF Init, Submitter
<1> QED
  BY <1>3, <1>4, <1>5 DEF Init, WorkersInv, Deleted

LEMMA NextWorkersInv == TypeOK /\ WorkersInv /\ [Next]_vars => WorkersInv'
<1> SUFFICES ASSUME TypeOK, WorkersInv, [Next]_vars PROVE WorkersInv'
  OBVIOUS
<1>1. CASE UNCHANGED vars
  BY <1>1 DEF vars, WorkersInv, Workers, Deleted, queue, counts, exit
<1> QED
  BY <1>1, WorkerWorkersInv, MainWorkersInv, HsWorkersInv DEF Next

\* When job_pool_delete frees a pool, no worker thread is left and the count
\* of threads waiting on the queue, which queue_delete asserts to be zero, is
\* zero; and so it stays.
THEOREM DeletedPoolIsIdleAlways == Spec => []DeletedPoolIsIdle
<1>1. Init => TypeOK /\ WorkersInv
  BY InitTypeOK, InitWorkersInv
<1>2. TypeOK /\ WorkersInv /\ [Next]_vars => TypeOK' /\ WorkersInv'
  BY NextTypeOK, NextWorkersInv
<1>3. TypeOK /\ WorkersInv => DeletedPoolIsIdle
  <2> SUFFICES ASSUME TypeOK, WorkersInv, Deleted
               PROVE  freewaiting = 0 /\ \A w \in Threads : pc[w] = "none"
    BY DEF DeletedPoolIsIdle
  <2>1. Workers = {}
    BY WorkersCounted DEF WorkersInv
  <2> QED
    BY <2>1 DEF WorkersInv, Workers, Deleted
<1> QED
  BY <1>1, <1>2, <1>3, PTL DEF Spec

-----------------------------------------------------------------------------
\* The pipe

LEMMA StatusSent ==
    ASSUME TypeOK, PipeMatchesQueue, NEW i, NEW s, job_send_status(i, s)
    PROVE  PipeMatchesQueue' /\ statusqueue' # <<>>
<1>1. statusqueue' # <<>>
  BY DEF job_send_status, TypeOK
<1> QED
  BY <1>1 DEF job_send_status, PipeMatchesQueue

LEMMA PutJobPipe ==
    ASSUME TypeOK, PipeMatchesQueue, NEW s \in Submitter, PutJob(s)
    PROVE  PipeMatchesQueue'
<1>1. CASE Rejected(s)
  BY <1>1, StatusSent DEF Rejected
<1>2. CASE UNCHANGED <<statusqueue, pipe>>
  BY <1>2 DEF PipeMatchesQueue
<1> QED
  BY <1>1, <1>2, PutJobCases DEF GivenBack, Accepted

LEMMA NextPipe == TypeOK /\ PipeMatchesQueue /\ [Next]_vars => PipeMatchesQueue'
<1> SUFFICES ASSUME TypeOK, PipeMatchesQueue, [Next]_vars PROVE PipeMatchesQueue'
  OBVIOUS
<1>1. CASE UNCHANGED <<statusqueue, pipe>>
  BY <1>1 DEF PipeMatchesQueue
<1>2. ASSUME NEW w \in Threads, WorkerStep(w) \/ SpuriousWakeup(w) PROVE PipeMatchesQueue'
  <2>1. CASE DoJob(w)
    BY <2>1, StatusSent DEF DoJob
  <2> QED
    BY <1>1, <1>2, <2>1 DEF WorkerStep, SpuriousWakeup, queue_get, BeginJob, EndJob, status
<1>3. CASE MainPut \/ HsPut
  BY <1>3, PutJobPipe DEF MainPut, HsPut, Submitter
<1>4. CASE job_pool_check_jobs_in_pool \/ DeletePool
  <2>1. CASE job_pool_check_jobs_in_pool
    <3>1. statusqueue' = <<>> /\ pipe' = pipe - 1 /\ pipe > 0
      BY <2>1, Zenon DEF job_pool_check_jobs_in_pool
    <3> QED
      BY <3>1 DEF PipeMatchesQueue
  <2>2. CASE DeletePool
    BY <2>2 DEF DeletePool, PipeMatchesQueue
  <2> QED
    BY <1>4, <2>1, <2>2
<1>5. CASE \/ \E kind \in {"rw", "op", "info"} : MainJob(kind)
           \/ \E i \in Id : job_pool_disable_job(i)
           \/ job_canexit \/ ClosePool \/ WaitForWorkers \/ hdd_term \/ Terminate \/ job_reload
  BY <1>1, <1>5 DEF MainJob, job_pool_disable_job, job_canexit, ClosePool, WaitForWorkers,
                    hdd_term, Terminate, job_reload, status
<1>6. CASE HsExit \/ HsWait \/ HsUndefined \/ HsJob
  BY <1>1, <1>6 DEF HsExit, HsWait, HsUndefined, HsJob, HsUnchanged, status
<1>7. CASE UNCHANGED vars
  BY <1>1, <1>7 DEF vars, status
<1> QED
  BY <1>2, <1>3, <1>4, <1>5, <1>6, <1>7 DEF Next, MainStep, HsStep

\* The pipe that wakes the event loop holds one byte exactly when a status
\* waits in the queue, whichever threads send statuses and whenever the event
\* loop collects them: no status is left without a wakeup, and the read of the
\* pipe in job_receive_status never blocks.
THEOREM PipeMatchesQueueAlways == Spec => []PipeMatchesQueue
<1>1. Init => TypeOK /\ WorkersInv /\ PipeMatchesQueue
  BY InitTypeOK, InitWorkersInv DEF Init, PipeMatchesQueue
<1>2. TypeOK /\ WorkersInv /\ PipeMatchesQueue /\ [Next]_vars
        => TypeOK' /\ WorkersInv' /\ PipeMatchesQueue'
  BY NextTypeOK, NextWorkersInv, NextPipe
<1> QED
  BY <1>1, <1>2, PTL DEF Spec

-----------------------------------------------------------------------------
\* The places of a job, and what a step does to each of them

LEMMA QueueAppended ==
    ASSUME TypeOK, Once, NEW i \in Id, i \notin Queued, jobqueue' = Append(jobqueue, i)
    PROVE  /\ Queued' = Queued \cup {i}
           /\ \A k, l \in 1 .. Len(jobqueue') : jobqueue'[k] = jobqueue'[l] => k = l
<1>1. /\ Len(jobqueue') = Len(jobqueue) + 1 /\ Len(jobqueue) \in Nat
      /\ jobqueue'[Len(jobqueue) + 1] = i
      /\ \A k \in 1 .. Len(jobqueue) : jobqueue'[k] = jobqueue[k]
  BY DEF TypeOK
<1>2. Queued' = Queued \cup {i}
  BY <1>1 DEF Queued
<1>3. \A k \in 1 .. Len(jobqueue) : jobqueue[k] # i
  BY DEF Queued
<1> QED
  BY <1>1, <1>2, <1>3 DEF Once

LEMMA QueueTaken ==
    ASSUME TypeOK, Once, jobqueue # <<>>, jobqueue' = Tail(jobqueue)
    PROVE  /\ Head(jobqueue) \in Id /\ Head(jobqueue) \in Queued
           /\ Queued' = Queued \ {Head(jobqueue)}
           /\ \A k, l \in 1 .. Len(jobqueue') : jobqueue'[k] = jobqueue'[l] => k = l
<1>1. /\ Len(jobqueue') = Len(jobqueue) - 1 /\ Len(jobqueue) \in Nat /\ Len(jobqueue) >= 1
      /\ \A k \in 1 .. Len(jobqueue') : jobqueue'[k] = jobqueue[k + 1]
      /\ Head(jobqueue) = jobqueue[1] /\ Head(jobqueue) \in Id
  BY DEF TypeOK
<1>2. Head(jobqueue) \in Queued
  BY <1>1 DEF Queued
<1>3. \A k \in 2 .. Len(jobqueue) : k - 1 \in 1 .. Len(jobqueue') /\ jobqueue[k] = jobqueue'[k - 1]
  BY <1>1
<1>4. Queued' \subseteq Queued \ {Head(jobqueue)}
  BY <1>1 DEF Queued, Once
<1>5. Queued \ {Head(jobqueue)} \subseteq Queued'
  <2> SUFFICES ASSUME NEW k \in 1 .. Len(jobqueue), jobqueue[k] # Head(jobqueue)
               PROVE  jobqueue[k] \in Queued'
    BY DEF Queued
  <2>1. k \in 2 .. Len(jobqueue)
    BY <1>1
  <2> QED
    BY <1>3, <2>1, Zenon DEF Queued
<1>6. \A k, l \in 1 .. Len(jobqueue') : jobqueue'[k] = jobqueue'[l] => k = l
  <2> SUFFICES ASSUME NEW k \in 1 .. Len(jobqueue'), NEW l \in 1 .. Len(jobqueue'),
                      jobqueue'[k] = jobqueue'[l]
               PROVE  k = l
    OBVIOUS
  <2>1. k + 1 \in 1 .. Len(jobqueue) /\ l + 1 \in 1 .. Len(jobqueue)
    BY <1>1
  <2>2. k + 1 = l + 1
    BY <1>1, <2>1 DEF Once
  <2> QED
    BY <2>2
<1> QED
  BY <1>1, <1>2, <1>4, <1>5, <1>6

LEMMA StatusAppended ==
    ASSUME TypeOK, Once, NEW i \in Id, NEW s \in {"ok", "notdone"}, i \notin Statuses,
           job_send_status(i, s)
    PROVE  /\ Statuses' = Statuses \cup {i}
           /\ \A k, l \in 1 .. Len(statusqueue') : statusqueue'[k].id = statusqueue'[l].id => k = l
<1>1. [id |-> i, status |-> s] \in StatusRec
  BY DEF StatusRec
<1>2. /\ Len(statusqueue') = Len(statusqueue) + 1 /\ Len(statusqueue) \in Nat
      /\ statusqueue'[Len(statusqueue) + 1] = [id |-> i, status |-> s]
      /\ \A k \in 1 .. Len(statusqueue) : statusqueue'[k] = statusqueue[k]
  BY <1>1 DEF TypeOK, job_send_status
<1>3. statusqueue'[Len(statusqueue) + 1].id = i
  BY <1>2
<1>4. Statuses' = Statuses \cup {i}
  BY <1>2, <1>3 DEF Statuses
<1>5. \A k \in 1 .. Len(statusqueue) : statusqueue[k].id # i
  BY DEF Statuses
<1> QED
  BY <1>2, <1>3, <1>4, <1>5 DEF Once

LEMMA SubmitChanged ==
    ASSUME TypeOK, Once, NEW s \in Submitter, NEW r \in SubmitRec \cup {Idle},
           r.id \notin Creating, submit' = [submit EXCEPT ![s] = r]
    PROVE  /\ Creating' = (Creating \ {submit[s].id}) \cup ({r.id} \ {0})
           /\ submit'["main"].id = submit'["hs"].id => submit'["main"].id = 0
<1>1. /\ "main" \in Submitter /\ "hs" \in Submitter
      /\ \A u \in Submitter : u = "main" \/ u = "hs"
  BY DEF Submitter
<1>2. \A u \in Submitter : submit'[u] = IF u = s THEN r ELSE submit[u]
  BY DEF TypeOK
<1>3. \A x : x \in Creating <=> x # 0 /\ (x = submit["main"].id \/ x = submit["hs"].id)
  BY <1>1 DEF Creating
<1>4. \A x : x \in Creating' <=> x # 0 /\ (x = submit'["main"].id \/ x = submit'["hs"].id)
  BY <1>1 DEF Creating
<1>5. CASE s = "main"
  BY <1>1, <1>2, <1>3, <1>4, <1>5 DEF Once
<1>6. CASE s = "hs"
  BY <1>1, <1>2, <1>3, <1>4, <1>6 DEF Once
<1> QED
  BY <1>1, <1>5, <1>6

LEMMA HeldTaken ==
    ASSUME TypeOK, Once, NEW w \in Threads, held[w] = 0, NEW i \in Id, i \notin Held,
           held' = [held EXCEPT ![w] = i]
    PROVE  /\ Held' = Held \cup {i}
           /\ \A u, v \in Threads : held'[u] = held'[v] /\ held'[u] # 0 => u = v
<1>1. \A u \in Threads : held'[u] = IF u = w THEN i ELSE held[u]
  BY DEF TypeOK
<1>2. i # 0
  BY DEF Id
<1>3. Held' = Held \cup {i}
  BY <1>1, <1>2 DEF Held
<1>4. \A u \in Threads : held[u] # i
  BY <1>2 DEF Held
<1> QED
  BY <1>1, <1>3, <1>4 DEF Once

LEMMA HeldReleased ==
    ASSUME TypeOK, Once, NEW w \in Threads, held' = [held EXCEPT ![w] = 0]
    PROVE  /\ Held' = Held \ {held[w]}
           /\ \A u, v \in Threads : held'[u] = held'[v] /\ held'[u] # 0 => u = v
<1>1. \A u \in Threads : held'[u] = IF u = w THEN 0 ELSE held[u]
  BY DEF TypeOK
<1>2. Held' = Held \ {held[w]}
  BY <1>1 DEF Held, Once
<1> QED
  BY <1>1, <1>2 DEF Once

-----------------------------------------------------------------------------
\* A job is in one place at a time

PlacesInv == Once /\ Apart /\ Alive

\* The steps that move no job and neither make nor free a record.
LEMMA PlacesKept ==
    ASSUME PlacesInv, UNCHANGED <<submit, jobqueue, held, statusqueue, outcome, nextjobid>>,
           \A i \in Id : Exists(i)' <=> Exists(i),
           Creating \cup Queued \cup Held \cup Statuses \subseteq Id,
           Deleted' <=> Deleted
    PROVE  PlacesInv'
<1>1. Creating' = Creating /\ Queued' = Queued /\ Held' = Held /\ Statuses' = Statuses
  BY DEF Creating, Queued, Held, Statuses
<1>2. Once' /\ Apart'
  BY <1>1 DEF PlacesInv, Once, Apart
<1>3. Alive'
  BY <1>1 DEF PlacesInv, Alive
<1> QED
  BY <1>2, <1>3 DEF PlacesInv

LEMMA PlacesTypes ==
    ASSUME TypeOK
    PROVE  /\ Creating \subseteq Id /\ Queued \subseteq Id
           /\ Held \subseteq Id /\ Statuses \subseteq Id
           /\ \A w \in Threads : held[w] # 0 => held[w] \in Held
           /\ \A s \in Submitter : submit[s] # Idle => submit[s].id \in Creating
<1>1. Creating \subseteq Id
  BY SubmitTypes DEF Creating
<1>2. Queued \subseteq Id
  <2>1. \A k \in 1 .. Len(jobqueue) : jobqueue[k] \in Id
    BY DEF TypeOK
  <2> QED
    BY <2>1 DEF Queued
<1>3. Held \subseteq Id
  BY DEF TypeOK, Held
<1>4. \A s \in Submitter : submit[s] # Idle => submit[s].id \in Creating
  BY SubmitTypes DEF Creating
<1> QED
  BY <1>1, <1>2, <1>3, <1>4, ReceivedTypes DEF Held

LEMMA NewJobPlaces ==
    ASSUME TypeOK, PlacesInv, NEW s \in Submitter, NEW kind \in Kinds, NewJob(s, kind), ~Deleted,
           UNCHANGED <<jobqueue, held, statusqueue, outcome, t>>
    PROVE  PlacesInv'
<1> DEFINE r == [id |-> nextjobid, kind |-> kind, busy |-> Busy]
<1>1. nextjobid \in Id /\ r \in SubmitRec /\ r.id = nextjobid
  BY NewJobTypes DEF SubmitRec, Busy, TypeOK
<1>2. ~Exists(nextjobid) /\ outcome[nextjobid] = "none"
  BY <1>1 DEF PlacesInv, Alive, Id
<1>3. nextjobid \notin Creating \cup Queued \cup Held \cup Statuses
  BY <1>2 DEF PlacesInv, Alive
<1>4. submit' = [submit EXCEPT ![s] = r] /\ submit[s].id = 0
  BY DEF NewJob, Idle
<1> HIDE DEF r
<1>5. /\ Creating' = Creating \cup {nextjobid}
      /\ submit'["main"].id = submit'["hs"].id => submit'["main"].id = 0
  <2>1. r.id # 0 /\ 0 \notin Creating
    BY <1>1 DEF Id, Creating
  <2> QED
    BY <1>1, <1>3, <1>4, <2>1, SubmitChanged, ZenonT(40) DEF PlacesInv
<1>6. Queued' = Queued /\ Held' = Held /\ Statuses' = Statuses
  BY DEF Queued, Held, Statuses
<1>7. Once'
  BY <1>5 DEF PlacesInv, Once
<1>8. Apart'
  BY <1>3, <1>5, <1>6 DEF PlacesInv, Apart
<1>9. \A i \in Id : Exists(i)' <=> Exists(i) \/ i = nextjobid
  BY <1>1, JobRecords DEF NewJob, Exists, TypeOK
<1>10. Alive'
  <2>1. \A i \in Creating' \cup Queued' \cup Held' \cup Statuses' : Exists(i)' /\ outcome'[i] = "none"
    BY <1>1, <1>2, <1>5, <1>6, <1>9, PlacesTypes DEF PlacesInv, Alive
  <2>2. \A i \in Id : outcome'[i] # "none" => ~Exists(i)'
    BY <1>2, <1>9 DEF PlacesInv, Alive
  <2>3. \A i \in Id : i >= nextjobid' => ~Exists(i)' /\ outcome'[i] = "none"
    BY <1>1, <1>9 DEF PlacesInv, Alive, NewJob, Id
  <2> QED
    BY <2>1, <2>2, <2>3 DEF Alive, Deleted
<1> QED
  BY <1>7, <1>8, <1>10 DEF PlacesInv

LEMMA PutJobPlaces ==
    ASSUME TypeOK, PlacesInv, NEW s \in Submitter, PutJob(s), ~Deleted
    PROVE  PlacesInv'
<1> DEFINE i == submit[s].id
<1>1. i \in Id /\ i \in Creating /\ Exists(i) /\ outcome[i] = "none"
  BY PutJobCases, SubmitTypes, PlacesTypes, Zenon DEF PlacesInv, Alive
<1>2. i \notin Queued /\ i \notin Held /\ i \notin Statuses
  BY <1>1 DEF PlacesInv, Apart
<1>3. /\ Creating' = Creating \ {i}
      /\ submit'["main"].id = submit'["hs"].id => submit'["main"].id = 0
  <2>1. Idle.id = 0 /\ 0 \notin Creating /\ Idle \in SubmitRec \cup {Idle}
    BY DEF Creating, Idle
  <2> QED
    BY <2>1, PutJobCases, SubmitChanged DEF PlacesInv
<1>4. Held' = Held /\ \A v, w \in Threads : held'[v] = held'[w] /\ held'[v] # 0 => v = w
  BY PutJobCases DEF Held, PlacesInv, Once
<1>5. Deleted' <=> Deleted
  BY PutJobCases DEF Deleted
<1> HIDE DEF i
<1>6. CASE GivenBack(s)
  <2>1. Queued' = Queued /\ Statuses' = Statuses
    BY <1>6 DEF GivenBack, Queued, Statuses
  <2>2. Once' /\ Apart'
    BY <1>2, <1>3, <1>4, <1>6, <2>1 DEF GivenBack, PlacesInv, Once, Apart
  <2>3. \A j \in Id : Exists(j)' <=> Exists(j) /\ j # i
    BY <1>1, <1>6 DEF GivenBack, Exists, TypeOK, i
  <2>4. Alive'
    BY <1>2, <1>3, <1>4, <1>5, <2>1, <2>3, PlacesTypes, PutJobCases, Zenon DEF PlacesInv, Alive
  <2> QED
    BY <2>2, <2>4 DEF PlacesInv
<1>7. CASE Rejected(s)
  <2>1. /\ Statuses' = Statuses \cup {i}
        /\ \A k, l \in 1 .. Len(statusqueue') : statusqueue'[k].id = statusqueue'[l].id => k = l
    BY <1>1, <1>2, <1>7, StatusAppended, Zenon DEF Rejected, PlacesInv, i
  <2>2. Queued' = Queued /\ UNCHANGED jobqueue
    BY <1>7 DEF Rejected, Queued
  <2>3. Once' /\ Apart'
    BY <1>2, <1>3, <1>4, <2>1, <2>2, ZenonT(40) DEF PlacesInv, Once, Apart
  <2>4. \A j \in Id : Exists(j)' <=> Exists(j)
    BY <1>7 DEF Rejected, Exists
  <2>5. Alive
    BY DEF PlacesInv
  <2>6. /\ Creating' \subseteq Creating /\ Held' = Held
        /\ outcome' = outcome /\ nextjobid' = nextjobid /\ ~Deleted'
    BY <1>3, <1>4, <1>5, PutJobCases, Zenon
  <2>7. Creating \subseteq Id /\ Queued \subseteq Id /\ Held \subseteq Id /\ Statuses \subseteq Id
    BY PlacesTypes, Zenon
  <2>8. \A j \in Creating' \cup Queued' \cup Held' \cup Statuses' : Exists(j)' /\ outcome'[j] = "none"
    BY <1>1, <2>1, <2>2, <2>4, <2>5, <2>6, <2>7, Zenon DEF Alive
  <2>9. /\ \A j \in Id : outcome'[j] # "none" => ~Exists(j)'
        /\ \A j \in Id : j >= nextjobid' => ~Exists(j)' /\ outcome'[j] = "none"
    BY <2>4, <2>5, <2>6, Zenon DEF Alive
  <2>10. Alive'
    BY <2>6, <2>8, <2>9, Zenon DEF Alive
  <2> QED
    BY <2>3, <2>10 DEF PlacesInv
<1>8. CASE Accepted(s)
  <2>1. /\ Queued' = Queued \cup {i}
        /\ \A k, l \in 1 .. Len(jobqueue') : jobqueue'[k] = jobqueue'[l] => k = l
    BY <1>1, <1>2, <1>8, QueueAppended, Zenon DEF Accepted, queue_put, PlacesInv, i
  <2>2. Statuses' = Statuses /\ UNCHANGED statusqueue
    BY <1>8, Zenon DEF Accepted, Statuses
  <2>3. Once' /\ Apart'
    BY <1>2, <1>3, <1>4, <2>1, <2>2, ZenonT(40) DEF PlacesInv, Once, Apart
  <2>4. \A j \in Id : Exists(j)' <=> Exists(j)
    BY <1>8 DEF Accepted, Exists
  <2>5. Alive
    BY DEF PlacesInv
  <2>6. /\ Creating' \subseteq Creating /\ Held' = Held
        /\ outcome' = outcome /\ nextjobid' = nextjobid /\ ~Deleted'
    BY <1>3, <1>4, <1>5, PutJobCases, Zenon
  <2>7. Creating \subseteq Id /\ Queued \subseteq Id /\ Held \subseteq Id /\ Statuses \subseteq Id
    BY PlacesTypes, Zenon
  <2>8. \A j \in Creating' \cup Queued' \cup Held' \cup Statuses' : Exists(j)' /\ outcome'[j] = "none"
    BY <1>1, <2>1, <2>2, <2>4, <2>5, <2>6, <2>7, Zenon DEF Alive
  <2>9. /\ \A j \in Id : outcome'[j] # "none" => ~Exists(j)'
        /\ \A j \in Id : j >= nextjobid' => ~Exists(j)' /\ outcome'[j] = "none"
    BY <2>4, <2>5, <2>6, Zenon DEF Alive
  <2>10. Alive'
    BY <2>6, <2>8, <2>9, Zenon DEF Alive
  <2> QED
    BY <2>3, <2>10 DEF PlacesInv
<1> QED
  BY <1>6, <1>7, <1>8, PutJobCases

LEMMA BeginJobKeeps ==
    ASSUME TypeOK, WorkersInv, NEW w \in Threads, BeginJob(w)
    PROVE  \A i \in Id : Exists(i)' <=> Exists(i)
<1>1. held[w] \in Id
  BY DEF BeginJob, WorkersInv, TypeOK
<1>2. jobhash[held[w]] \in JobRec \cup {NoJob}
  BY <1>1 DEF TypeOK
<1>3. CASE jobhash[held[w]].jstate = "enabled"
  <2>1. jobhash[held[w]] # NoJob /\ jobhash[held[w]].kind \in Kinds
    BY <1>2, <1>3, JobRecords DEF NoJob
  <2>2. [kind |-> jobhash[held[w]].kind, jstate |-> "inprogress"] # NoJob
    BY <2>1, JobRecords
  <2> QED
    BY <1>1, <1>3, <2>1, <2>2 DEF BeginJob, Exists, TypeOK
<1> QED
  BY <1>3 DEF BeginJob, Exists

LEMMA DisableKeeps ==
    ASSUME TypeOK, NEW i \in Id, job_pool_disable_job(i)
    PROVE  \A j \in Id : Exists(j)' <=> Exists(j)
<1>1. jobhash[i] \in JobRec \cup {NoJob} /\ jobhash[i] # NoJob
  BY DEF job_pool_disable_job, TypeOK, NoJob
<1>2. [kind |-> jobhash[i].kind, jstate |-> "disabled"] # NoJob
  BY <1>1, JobRecords, Zenon
<1> QED
  BY <1>1, <1>2 DEF job_pool_disable_job, Exists, TypeOK

LEMMA WorkerPlaces ==
    ASSUME TypeOK, WorkersInv, PlacesInv, NEW w \in Threads, WorkerStep(w) \/ SpuriousWakeup(w)
    PROVE  PlacesInv'
<1>1. CASE queue_get(w)
  <2>1. CASE UNCHANGED <<jobqueue, held, t>>
    BY <1>1, <2>1, PlacesKept, PlacesTypes, Zenon DEF queue_get, Exists, Deleted, status
  <2>2. CASE job_close_worker(w, workers_avail, workers_total)
               /\ UNCHANGED <<jobqueue, freewaiting, held>>
    <3>1. Deleted' <=> Deleted
      BY <2>2 DEF job_close_worker, Deleted
    <3> QED
      BY <1>1, <2>2, <3>1, PlacesKept, PlacesTypes DEF queue_get, Exists, status
  <2>3. CASE jobqueue # <<>> /\ ~closed /\ jobqueue' = Tail(jobqueue)
               /\ held' = [held EXCEPT ![w] = Head(jobqueue)] /\ UNCHANGED t
    <3> DEFINE i == Head(jobqueue)
    <3>1. /\ i \in Id /\ i \in Queued /\ Queued' = Queued \ {i}
          /\ \A k, l \in 1 .. Len(jobqueue') : jobqueue'[k] = jobqueue'[l] => k = l
      BY <2>3, QueueTaken DEF PlacesInv
    <3>2. i \notin Held /\ held[w] = 0 /\ ~Deleted
      BY <1>1, <2>3, <3>1 DEF queue_get, PlacesInv, Apart, WorkersInv, Deleted
    <3>3. /\ Held' = Held \cup {i}
          /\ \A u, v \in Threads : held'[u] = held'[v] /\ held'[u] # 0 => u = v
      BY <2>3, <3>1, <3>2, HeldTaken, Zenon DEF PlacesInv
    <3> HIDE DEF i
    <3>4. /\ Creating' = Creating /\ Statuses' = Statuses
          /\ UNCHANGED <<submit, statusqueue, outcome, nextjobid, jobhash>>
      BY <1>1, Zenon DEF queue_get, Creating, Statuses, status
    <3>5. Once' /\ Apart'
      BY <3>1, <3>2, <3>3, <3>4 DEF PlacesInv, Once, Apart
    <3>6. Alive'
      BY <2>3, <3>1, <3>2, <3>3, <3>4 DEF PlacesInv, Alive, Exists, Deleted
    <3> QED
      BY <3>5, <3>6 DEF PlacesInv
  <2> QED
    BY <1>1, <2>1, <2>2, <2>3 DEF queue_get
<1>2. CASE SpuriousWakeup(w)
  BY <1>2, PlacesKept, PlacesTypes DEF SpuriousWakeup, Exists, Deleted, queue, status, exit
<1>3. CASE BeginJob(w)
  BY <1>3, PlacesKept, PlacesTypes, BeginJobKeeps, Zenon DEF BeginJob, Deleted, queue, status, exit
<1>4. CASE DoJob(w)
  <2> DEFINE i == held[w]
  <2>1. i \in Id /\ i \in Held /\ i # 0
    BY <1>4, PlacesTypes DEF DoJob, WorkersInv, TypeOK
  <2>2. ~Deleted
    BY <1>4, WorkersCounted DEF DoJob, WorkersInv, Workers
  <2>3. i \notin Creating /\ i \notin Queued /\ i \notin Statuses
    BY <2>1 DEF PlacesInv, Apart
  <2>4. /\ Held' = Held \ {i}
        /\ \A u, v \in Threads : held'[u] = held'[v] /\ held'[u] # 0 => u = v
    BY <1>4, HeldReleased, Zenon DEF DoJob, PlacesInv
  <2>5. /\ Statuses' = Statuses \cup {i}
        /\ \A k, l \in 1 .. Len(statusqueue') : statusqueue'[k].id = statusqueue'[l].id => k = l
    <3>1. (IF pc[w] = "run" THEN "ok" ELSE "notdone") \in {"ok", "notdone"}
      OBVIOUS
    <3> QED
      BY <1>4, <2>1, <2>3, <3>1, StatusAppended DEF DoJob, PlacesInv
  <2> HIDE DEF i
  <2>6. /\ Creating' = Creating /\ Queued' = Queued
        /\ UNCHANGED <<submit, jobqueue, outcome, nextjobid, jobhash, t>>
    BY <1>4, Zenon DEF DoJob, Creating, Queued, queue, exit
  <2>7. Once' /\ Apart'
    BY <2>3, <2>4, <2>5, <2>6, ZenonT(40) DEF PlacesInv, Once, Apart
  <2>8. Alive'
    BY <2>1, <2>2, <2>4, <2>5, <2>6 DEF PlacesInv, Alive, Exists, Deleted
  <2> QED
    BY <2>7, <2>8 DEF PlacesInv
<1>5. CASE EndJob(w)
  <2>1. Deleted' <=> Deleted
    BY <1>5 DEF EndJob, job_close_worker, Deleted
  <2> QED
    BY <1>5, <2>1, PlacesKept, PlacesTypes, Zenon DEF EndJob, Exists, queue, status
<1> QED
  BY <1>1, <1>2, <1>3, <1>4, <1>5 DEF WorkerStep

LEMMA CheckPlaces ==
    ASSUME TypeOK, PlacesInv, job_pool_check_jobs_in_pool
    PROVE  PlacesInv'
<1>1. ~Deleted /\ ~Deleted'
  BY Zenon DEF job_pool_check_jobs_in_pool, Deleted, exit
<1>2. Received = Statuses /\ Statuses \subseteq Id
  BY ReceivedTypes, Zenon
<1>0. statusqueue' = <<>>
  BY Zenon DEF job_pool_check_jobs_in_pool
<1>3. Len(statusqueue') = 0 /\ Statuses' = {}
  BY <1>0 DEF Statuses
<1>4. /\ Creating' = Creating /\ Queued' = Queued /\ Held' = Held
      /\ UNCHANGED <<submit, jobqueue, held, nextjobid>>
  BY Zenon DEF job_pool_check_jobs_in_pool, Creating, Queued, Held, queue
<1>5. Once' /\ Apart'
  <2>1. 1 .. Len(statusqueue') = {}
    BY <1>3
  <2>2. Once'
    BY <1>4, <2>1, Zenon DEF PlacesInv, Once
  <2>3. Apart'
    BY <1>3, <1>4, Zenon DEF PlacesInv, Apart
  <2> QED BY <2>2, <2>3
<1>6. \A i \in Id : Exists(i)' <=> Exists(i) /\ i \notin Statuses
  BY <1>2 DEF job_pool_check_jobs_in_pool, Exists
<1>7. \A i \in Id : /\ i \notin Statuses => outcome'[i] = outcome[i]
                    /\ outcome'[i] # outcome[i] => Exists(i)
  BY <1>2 DEF job_pool_check_jobs_in_pool
<1>8. Alive'
  <2>1. \A i \in Creating' \cup Queued' \cup Held' \cup Statuses' : Exists(i)' /\ outcome'[i] = "none"
    BY <1>1, <1>3, <1>4, <1>6, <1>7, PlacesTypes, Zenon DEF PlacesInv, Alive, Apart
  <2>2. \A i \in Id : outcome'[i] # "none" => ~Exists(i)'
    BY <1>6, <1>7 DEF PlacesInv, Alive
  <2>3. \A i \in Id : i >= nextjobid' => ~Exists(i)' /\ outcome'[i] = "none"
    BY <1>4, <1>6, <1>7 DEF PlacesInv, Alive
  <2> QED
    BY <1>1, <2>1, <2>2, <2>3 DEF Alive
<1> QED
  BY <1>5, <1>8 DEF PlacesInv

LEMMA DeletePlaces ==
    ASSUME TypeOK, PlacesInv, DeletePool
    PROVE  PlacesInv'
<1>1. Deleted' /\ statusqueue' = <<>> /\ \A i \in Id : ~Exists(i)'
  BY DEF DeletePool, Main, Deleted, Exists
<1>2. Len(statusqueue') = 0 /\ Statuses' = {}
  BY <1>1 DEF Statuses
<1>3. /\ Creating' = Creating /\ Queued' = Queued /\ Held' = Held
      /\ UNCHANGED <<submit, jobqueue, held, nextjobid>>
  BY DEF DeletePool, Creating, Queued, Held, queue
<1>4. Once' /\ Apart'
  BY <1>2, <1>3 DEF PlacesInv, Once, Apart
<1>5. \A i \in Id : outcome'[i] # outcome[i] => Exists(i)
  BY DEF DeletePool
<1>6. Alive'
  BY <1>1, <1>3, <1>5 DEF PlacesInv, Alive
<1> QED
  BY <1>4, <1>6 DEF PlacesInv

LEMMA MainPlaces ==
    ASSUME TypeOK, WorkersInv, PlacesInv,
           \/ \E kind \in {"rw", "op", "info"} : MainJob(kind)
           \/ \E i \in Id : job_pool_disable_job(i)
           \/ job_pool_check_jobs_in_pool
           \/ MainStep \/ Terminate \/ job_reload
    PROVE  PlacesInv'
<1>1. ASSUME NEW kind \in {"rw", "op", "info"}, MainJob(kind) PROVE PlacesInv'
  <2>1. NewJob("main", kind) /\ kind \in Kinds /\ "main" \in Submitter /\ ~Deleted
    BY <1>1 DEF MainJob, Kinds, Submitter, Deleted
  <2> QED
    BY <1>1, <2>1, NewJobPlaces DEF MainJob, queue, status, exit
<1>2. ASSUME NEW i \in Id, job_pool_disable_job(i) PROVE PlacesInv'
  BY <1>2, DisableKeeps, PlacesKept, PlacesTypes, Zenon
     DEF job_pool_disable_job, Deleted, queue, status, exit
<1>3. CASE job_pool_check_jobs_in_pool
  BY <1>3, CheckPlaces
<1>4. CASE MainPut
  <2>1. ~Deleted /\ "main" \in Submitter
    BY <1>4, PutJobCases, Zenon DEF MainPut, WorkersInv, Deleted, Submitter
  <2> QED
    BY <1>4, <2>1, PutJobPlaces DEF MainPut
<1>5. CASE job_canexit \/ WaitForWorkers \/ Terminate
  BY <1>5, PlacesKept, PlacesTypes, Zenon
     DEF job_canexit, WaitForWorkers, Terminate, Main, Exists, Deleted, queue, status
<1>6. CASE ClosePool
  BY <1>6, PlacesKept, PlacesTypes, Zenon DEF ClosePool, queue_close, Main, Exists, Deleted, status
<1>7. CASE DeletePool
  BY <1>7, DeletePlaces
<1>8. CASE hdd_term
  BY <1>8, PlacesKept, PlacesTypes DEF hdd_term, Exists, Deleted, queue, status
<1>9. CASE job_reload
  BY <1>9, PlacesKept, PlacesTypes DEF job_reload, Exists, Deleted, queue, status, exit
<1> QED
  BY <1>1, <1>2, <1>3, <1>4, <1>5, <1>6, <1>7, <1>8, <1>9 DEF MainStep

LEMMA HsPlaces ==
    ASSUME TypeOK, PlacesInv, HsStep \/ HsJob
    PROVE  PlacesInv'
<1>1. CASE HsJob
  <2>1. NewJob("hs", "move") /\ "move" \in Kinds /\ "hs" \in Submitter /\ ~Deleted
    BY <1>1 DEF HsJob, Kinds, Submitter
  <2> QED
    BY <1>1, <2>1, NewJobPlaces DEF HsJob, queue, status, exit
<1>2. CASE HsPut
  BY <1>2, PutJobPlaces DEF HsPut, Submitter
<1>3. CASE HsUnchanged
  BY <1>3, PlacesKept, PlacesTypes DEF HsUnchanged, Exists, Deleted, queue, status, exit
<1> QED
  BY <1>1, <1>2, <1>3 DEF HsStep, HsExit, HsWait, HsUndefined

LEMMA InitPlaces == Init => PlacesInv
<1> SUFFICES ASSUME Init PROVE PlacesInv
  OBVIOUS
<1>1. Creating = {} /\ Queued = {} /\ Held = {} /\ Statuses = {}
  BY DEF Init, Creating, Queued, Held, Statuses, Idle
<1>2. submit["main"].id = 0 /\ Len(jobqueue) = 0 /\ Len(statusqueue) = 0
        /\ \A w \in Threads : held[w] = 0
  BY DEF Init, Idle, Submitter
<1>3. \A i \in Id : ~Exists(i) /\ outcome[i] = "none"
  BY DEF Init, Exists
<1> QED
  BY <1>1, <1>2, <1>3 DEF Init, PlacesInv, Once, Apart, Alive, Deleted

LEMMA InitInv == Init => Inv
  BY InitTypeOK, InitWorkersInv, InitPlaces DEF Inv, PlacesInv, Init, PipeMatchesQueue

LEMMA NextInv == Inv /\ [Next]_vars => Inv'
<1> SUFFICES ASSUME Inv, [Next]_vars PROVE Inv'
  OBVIOUS
<1>1. TypeOK /\ WorkersInv /\ PipeMatchesQueue /\ PlacesInv
  BY DEF Inv, PlacesInv
<1>2. PlacesInv'
  <2>1. CASE UNCHANGED vars
    BY <1>1, <2>1, PlacesKept, PlacesTypes DEF vars, Exists, Deleted, queue, status, exit
  <2> QED
    BY <1>1, <2>1, WorkerPlaces, MainPlaces, HsPlaces DEF Next
<1> QED
  BY <1>1, <1>2, NextTypeOK, NextWorkersInv, NextPipe DEF Inv, PlacesInv

-----------------------------------------------------------------------------
\* The pool implements JobService

\* The jobs that wait for their callback with the status "ok".
Performed == {statusqueue[k].id : k \in {l \in 1 .. Len(statusqueue) : statusqueue[l].status = "ok"}}

\* Stage in terms of the places of a job.
StageByPlace(i) ==
    IF outcome[i] = "ok" THEN "done"
    ELSE IF outcome[i] = "notdone" THEN "refused"
    ELSE IF outcome[i] = "dropped" THEN "dropped"
    ELSE IF ~Exists(i) \/ i \in Creating THEN "none"
    ELSE IF i \in Performed THEN "performed"
    ELSE IF i \in Statuses THEN "cancelled"
    ELSE IF i \in Held THEN "taken" ELSE "queued"

StageIsByPlace == Inv => \A i \in Id : Stage(i) = StageByPlace(i)

LEMMA StatusIs ==
    ASSUME TypeOK, Once, NEW i \in Received
    PROVE  StatusOf(i) = "ok" <=> i \in Performed
<1> DEFINE S == {statusqueue[m] : m \in DOMAIN statusqueue}
           c == CHOOSE s \in S : s.id = i
<1>1. DOMAIN statusqueue = 1 .. Len(statusqueue)
  BY DEF TypeOK
<1>2. PICK k \in 1 .. Len(statusqueue) : statusqueue[k].id = i
  BY <1>1 DEF Received
<1>3. c \in S /\ c.id = i
  BY <1>1, <1>2
<1>4. PICK l \in 1 .. Len(statusqueue) : c = statusqueue[l]
  BY <1>1, <1>3
<1>5. l = k /\ c = statusqueue[k]
  BY <1>2, <1>3, <1>4 DEF Once
<1>6. StatusOf(i) = statusqueue[k].status
  BY <1>5, Zenon DEF StatusOf
<1>7. i \in Performed <=> statusqueue[k].status = "ok"
  BY <1>2 DEF Performed, Once
<1> QED
  BY <1>6, <1>7

LEMMA StageFact == StageIsByPlace
<1> SUFFICES ASSUME Inv, NEW i \in Id PROVE Stage(i) = StageByPlace(i)
  BY DEF StageIsByPlace
<1>1. TypeOK /\ Once /\ outcome[i] \in {"none", "ok", "notdone", "dropped"}
  BY DEF Inv, TypeOK
<1>2. BeingCreated(i) <=> i \in Creating
  BY DEF BeingCreated, Creating, Id
<1>3. (\E w \in Threads : held[w] = i) <=> i \in Held
  BY DEF Held, Id
<1>4. Received = Statuses /\ Performed \subseteq Statuses
  BY <1>1, ReceivedTypes DEF Performed, Statuses
<1>5. i \in Received => (StatusOf(i) = "ok" <=> i \in Performed)
  BY <1>1, StatusIs
<1> QED
  BY <1>1, <1>2, <1>3, <1>4, <1>5 DEF Stage, StageByPlace

LEMMA StageFactNext == StageIsByPlace'
  BY StageFact, PTL

Open == t \in {"run", "want", "canexit"}

\* A step that changes no job's stage and does not close the pool, and one that
\* moves the job i as JobService's Move does.
Stutters == (\A i \in Id : Stage(i)' = Stage(i)) /\ (Open' <=> Open)
Moves1(i, from, to) ==
    /\ Stage(i) = from
    /\ \A j \in Id : Stage(j)' = IF j = i THEN to ELSE Stage(j)
    /\ Open' <=> Open

LEMMA StuttersStep == Stutters => UNCHANGED Promise!vars
  BY DEF Stutters, Promise!vars, Open

LEMMA MovesStep ==
    ASSUME NEW i \in Id, NEW from, NEW to, Moves1(i, from, to)
    PROVE  Promise!Move({i}, from, to)
  BY DEF Moves1, Promise!Move, Open

\* Steps that touch neither the places of a job outside the queue nor its record.
LEMMA StagesKept ==
    ASSUME Inv, Inv', UNCHANGED <<submit, held, statusqueue, outcome>>, Open' <=> Open,
           \A i \in Id : Exists(i)' <=> Exists(i)
    PROVE  Stutters
<1>1. Creating' = Creating /\ Held' = Held /\ Statuses' = Statuses /\ Performed' = Performed
  BY DEF Creating, Held, Statuses, Performed
<1>2. \A i \in Id : StageByPlace(i)' = StageByPlace(i)
  BY <1>1 DEF StageByPlace
<1> QED
  BY <1>2, StageFact, StageFactNext DEF Stutters, StageIsByPlace

LEMMA NewJobStages ==
    ASSUME Inv, Inv', NEW s \in Submitter, NEW kind \in Kinds, NewJob(s, kind), ~Deleted,
           UNCHANGED <<held, statusqueue, outcome, t>>
    PROVE  Stutters
<1>1. TypeOK /\ Once /\ Alive
  BY DEF Inv
<1> DEFINE r == [id |-> nextjobid, kind |-> kind, busy |-> Busy]
<1>2. nextjobid \in Id /\ r \in SubmitRec /\ r.id = nextjobid
  BY <1>1, NewJobTypes DEF SubmitRec, Busy, TypeOK
<1>3. ~Exists(nextjobid)
  BY <1>1, <1>2 DEF Alive, Id
<1>4. submit' = [submit EXCEPT ![s] = r] /\ submit[s].id = 0
  BY DEF NewJob, Idle
<1> HIDE DEF r
<1>5. Creating' = Creating \cup {nextjobid}
  <2>1. r.id # 0 /\ 0 \notin Creating /\ r.id \notin Creating
    <3>1. r.id \in Nat \ {0}
      BY <1>2 DEF Id
    <3>2. 0 \notin Creating
      BY Zenon DEF Creating
    <3>3. ~Deleted => r.id \notin Creating
      BY <1>1, <1>2, <1>3, Zenon DEF Alive
    <3> QED
      BY <1>1, <3>1, <3>2, <3>3
  <2>2. Creating' = (Creating \ {submit[s].id}) \cup ({r.id} \ {0})
    BY <1>1, <1>2, <1>4, <2>1, SubmitChanged, Zenon
  <2> QED
    BY <1>2, <1>4, <2>1, <2>2
<1>6. \A i \in Id : Exists(i)' <=> Exists(i) \/ i = nextjobid
  BY <1>1, <1>2, JobRecords DEF NewJob, Exists, TypeOK
<1>7. Held' = Held /\ Statuses' = Statuses /\ Performed' = Performed
  BY Zenon DEF Held, Statuses, Performed
<1>8. \A i \in Id : StageByPlace(i)' = StageByPlace(i)
  BY <1>3, <1>5, <1>6, <1>7 DEF StageByPlace
<1> QED
  BY <1>8, StageFact, StageFactNext DEF Stutters, StageIsByPlace, Open

LEMMA PerformedAppended ==
    ASSUME TypeOK, NEW i \in Id, NEW s \in {"ok", "notdone"}, job_send_status(i, s)
    PROVE  Performed' = IF s = "ok" THEN Performed \cup {i} ELSE Performed
<1>1. [id |-> i, status |-> s] \in StatusRec
  BY DEF StatusRec
<1>2. /\ Len(statusqueue') = Len(statusqueue) + 1 /\ Len(statusqueue) \in Nat
      /\ statusqueue'[Len(statusqueue) + 1] = [id |-> i, status |-> s]
      /\ \A k \in 1 .. Len(statusqueue) : statusqueue'[k] = statusqueue[k]
  BY <1>1 DEF TypeOK, job_send_status
<1>3. \A x : x \in Performed <=> \E k \in 1 .. Len(statusqueue) :
                                   statusqueue[k].status = "ok" /\ statusqueue[k].id = x
  BY Zenon DEF Performed
<1>4. \A x : x \in Performed' <=> \E k \in 1 .. Len(statusqueue') :
                                    statusqueue'[k].status = "ok" /\ statusqueue'[k].id = x
  BY DEF Performed
<1>5. \A x : x \in Performed' <=> x \in Performed \/ (s = "ok" /\ x = i)
  <2> SUFFICES ASSUME NEW x PROVE x \in Performed' <=> x \in Performed \/ (s = "ok" /\ x = i)
    OBVIOUS
  <2>1. ASSUME x \in Performed' PROVE x \in Performed \/ (s = "ok" /\ x = i)
    <3>1. PICK k \in 1 .. Len(statusqueue') :
            statusqueue'[k].status = "ok" /\ statusqueue'[k].id = x
      BY <1>4, <2>1
    <3>2. CASE k = Len(statusqueue) + 1
      BY <1>2, <3>1, <3>2
    <3>3. CASE k \in 1 .. Len(statusqueue)
      BY <1>2, <1>3, <3>1, <3>3
    <3> QED
      BY <1>2, <3>2, <3>3
  <2>2. ASSUME x \in Performed PROVE x \in Performed'
    BY <1>2, <1>3, <1>4, <2>2
  <2>3. ASSUME s = "ok", x = i PROVE x \in Performed'
    <3>1. Len(statusqueue) + 1 \in 1 .. Len(statusqueue')
      BY <1>2
    <3> QED
      BY <1>2, <1>4, <2>3, <3>1
  <2> QED
    BY <2>1, <2>2, <2>3
<1> QED
  BY <1>5, Zenon

LEMMA PutJobStages ==
    ASSUME Inv, Inv', NEW s \in Submitter, PutJob(s), ~Deleted
    PROVE  \/ Stutters
           \/ \E i \in Id : Moves1(i, "none", "queued") \/ Moves1(i, "none", "cancelled")
<1> DEFINE i == submit[s].id
<1>1. TypeOK /\ Once /\ Apart /\ Alive
  BY DEF Inv
<1>2. i \in Id /\ i \in Creating /\ Exists(i) /\ outcome[i] = "none"
  BY <1>1, PutJobCases, SubmitTypes, PlacesTypes, Zenon DEF Alive
<1>3. i \notin Queued /\ i \notin Held /\ i \notin Statuses /\ i \notin Performed
  BY <1>1, <1>2, Zenon DEF Apart, Performed, Statuses
<1>4. Creating' = Creating \ {i}
  <2>1. Idle.id = 0 /\ 0 \notin Creating /\ Idle \in SubmitRec \cup {Idle}
    BY DEF Creating, Idle
  <2> QED
    BY <1>1, <2>1, PutJobCases, SubmitChanged
<1>5. Held' = Held /\ UNCHANGED <<outcome, t>>
  BY PutJobCases DEF Held
<1>6. Stage(i) = "none"
  BY <1>2, StageFact DEF StageIsByPlace, StageByPlace
<1>7. CASE GivenBack(s)
  <2>1. Statuses' = Statuses /\ Performed' = Performed
    BY <1>7 DEF GivenBack, Statuses, Performed
  <2>2. \A j \in Id : Exists(j)' <=> Exists(j) /\ j # i
    BY <1>1, <1>2, <1>7 DEF GivenBack, Exists, TypeOK
  <2> HIDE DEF i
  <2>3. \A j \in Id : StageByPlace(j)' = StageByPlace(j)
    BY <1>2, <1>4, <1>5, <2>1, <2>2 DEF StageByPlace
  <2> QED
    BY <1>5, <2>3, StageFact, StageFactNext DEF Stutters, StageIsByPlace, Open
<1>8. CASE Rejected(s)
  <2>1. Statuses' = Statuses \cup {i}
    BY <1>1, <1>2, <1>3, <1>8, StatusAppended, Zenon DEF Rejected
  <2>2. Performed' = Performed
    BY <1>1, <1>2, <1>8, PerformedAppended, Zenon DEF Rejected
  <2>3. \A j \in Id : Exists(j)' <=> Exists(j)
    BY <1>8 DEF Rejected, Exists
  <2> HIDE DEF i
  <2>4. \A j \in Id : StageByPlace(j)' = IF j = i THEN "cancelled" ELSE StageByPlace(j)
    BY <1>2, <1>3, <1>4, <1>5, <2>1, <2>2, <2>3 DEF StageByPlace
  <2>5. Moves1(i, "none", "cancelled")
    BY <1>5, <1>6, <2>4, StageFact, StageFactNext DEF Moves1, StageIsByPlace, Open
  <2> QED
    BY <1>2, <2>5
<1>9. CASE Accepted(s)
  <2>1. Statuses' = Statuses /\ Performed' = Performed
    BY <1>9 DEF Accepted, Statuses, Performed
  <2>2. \A j \in Id : Exists(j)' <=> Exists(j)
    BY <1>9 DEF Accepted, Exists
  <2> HIDE DEF i
  <2>3. \A j \in Id : StageByPlace(j)' = IF j = i THEN "queued" ELSE StageByPlace(j)
    BY <1>2, <1>3, <1>4, <1>5, <2>1, <2>2 DEF StageByPlace
  <2>4. Moves1(i, "none", "queued")
    BY <1>5, <1>6, <2>3, StageFact, StageFactNext DEF Moves1, StageIsByPlace, Open
  <2> QED
    BY <1>2, <2>4
<1> QED
  BY <1>7, <1>8, <1>9, PutJobCases

LEMMA WorkerStages ==
    ASSUME Inv, Inv', NEW w \in Threads, WorkerStep(w) \/ SpuriousWakeup(w)
    PROVE  \/ Stutters
           \/ \E i \in Id : \/ Moves1(i, "queued", "taken")
                            \/ Moves1(i, "taken", "performed")
                            \/ Moves1(i, "taken", "cancelled")
<1>0. TypeOK /\ WorkersInv /\ Once /\ Apart /\ Alive
  BY DEF Inv
<1>1. CASE queue_get(w)
  <2>1. CASE UNCHANGED <<jobqueue, held, t>>
    BY <1>1, <2>1, StagesKept DEF queue_get, Exists, Open, status
  <2>2. CASE job_close_worker(w, workers_avail, workers_total)
               /\ UNCHANGED <<jobqueue, freewaiting, held>>
    <3>1. Open' <=> Open
      BY <2>2 DEF job_close_worker, Open
    <3> QED
      BY <1>1, <2>2, <3>1, StagesKept DEF queue_get, Exists, status
  <2>3. CASE jobqueue # <<>> /\ ~closed /\ jobqueue' = Tail(jobqueue)
               /\ held' = [held EXCEPT ![w] = Head(jobqueue)] /\ UNCHANGED t
    <3> DEFINE i == Head(jobqueue)
    <3>1. i \in Id /\ i \in Queued
      BY <1>0, <2>3, QueueTaken
    <3>2. /\ i \notin Held /\ i \notin Creating /\ i \notin Statuses /\ i \notin Performed
          /\ held[w] = 0 /\ ~Deleted
      <4>1. i \notin Held /\ i \notin Creating /\ i \notin Statuses
        BY <1>0, <3>1 DEF Apart
      <4>2. Performed \subseteq Statuses
        BY DEF Performed, Statuses
      <4>3. held[w] = 0 /\ ~Deleted
        BY <1>0, <1>1, <2>3 DEF queue_get, WorkersInv, Deleted
      <4> QED
        BY <4>1, <4>2, <4>3
    <3>3. Exists(i) /\ outcome[i] = "none"
      BY <1>0, <3>1, <3>2 DEF Alive
    <3>4. Held' = Held \cup {i}
      BY <1>0, <2>3, <3>1, <3>2, HeldTaken, Zenon
    <3> HIDE DEF i
    <3>5. /\ Creating' = Creating /\ Statuses' = Statuses /\ Performed' = Performed
          /\ UNCHANGED <<outcome, jobhash>>
      BY <1>1 DEF queue_get, Creating, Statuses, Performed, status
    <3>6. \A j \in Id : StageByPlace(j)' = IF j = i THEN "taken" ELSE StageByPlace(j)
      BY <3>1, <3>2, <3>3, <3>4, <3>5 DEF StageByPlace, Exists
    <3>7. StageByPlace(i) = "queued"
      BY <3>2, <3>3 DEF StageByPlace
    <3>8. Moves1(i, "queued", "taken")
      BY <2>3, <3>1, <3>6, <3>7, StageFact, StageFactNext DEF Moves1, StageIsByPlace, Open
    <3> QED
      BY <3>1, <3>8
  <2> QED
    BY <1>1, <2>1, <2>2, <2>3 DEF queue_get
<1>2. CASE SpuriousWakeup(w)
  BY <1>2, StagesKept DEF SpuriousWakeup, Exists, Open, queue, status, exit
<1>3. CASE BeginJob(w)
  BY <1>0, <1>3, StagesKept, BeginJobKeeps DEF BeginJob, Open, queue, status, exit
<1>4. CASE DoJob(w)
  <2> DEFINE i == held[w]
             s == IF pc[w] = "run" THEN "ok" ELSE "notdone"
  <2>1. i \in Id /\ i \in Held
    BY <1>0, <1>4, PlacesTypes DEF DoJob, WorkersInv, TypeOK
  <2>2. ~Deleted
    BY <1>0, <1>4, WorkersCounted DEF DoJob, WorkersInv, Workers
  <2>3. /\ i \notin Creating /\ i \notin Statuses /\ i \notin Performed
        /\ Exists(i) /\ outcome[i] = "none"
    BY <1>0, <2>1, <2>2 DEF Apart, Alive, Statuses, Performed
  <2>4. Held' = Held \ {i}
    BY <1>0, <1>4, HeldReleased, Zenon DEF DoJob
  <2>5. s \in {"ok", "notdone"} /\ job_send_status(i, s)
    BY <1>4 DEF DoJob
  <2> HIDE DEF i, s
  <2>6. Statuses' = Statuses \cup {i}
    BY <1>0, <2>1, <2>3, <2>5, StatusAppended
  <2>7. Performed' = IF s = "ok" THEN Performed \cup {i} ELSE Performed
    BY <1>0, <2>1, <2>5, PerformedAppended
  <2>8. Creating' = Creating /\ UNCHANGED <<outcome, jobhash, t>>
    BY <1>4 DEF DoJob, Creating, exit
  <2>9. StageByPlace(i) = "taken"
    BY <2>1, <2>3 DEF StageByPlace
  <2>10. \A j \in Id : StageByPlace(j)' =
           IF j = i THEN IF s = "ok" THEN "performed" ELSE "cancelled" ELSE StageByPlace(j)
    BY <2>1, <2>3, <2>4, <2>6, <2>7, <2>8, Zenon DEF StageByPlace, Exists
  <2>11. CASE s = "ok"
    <3>1. Moves1(i, "taken", "performed")
      BY <2>1, <2>8, <2>9, <2>10, <2>11, StageFact, StageFactNext DEF Moves1, StageIsByPlace, Open
    <3> QED
      BY <2>1, <3>1
  <2>12. CASE s = "notdone"
    <3>1. Moves1(i, "taken", "cancelled")
      BY <2>1, <2>8, <2>9, <2>10, <2>12, StageFact, StageFactNext DEF Moves1, StageIsByPlace, Open
    <3> QED
      BY <2>1, <3>1
  <2> QED
    BY <2>5, <2>11, <2>12
<1>5. CASE EndJob(w)
  <2>1. Open' <=> Open
    BY <1>5 DEF EndJob, job_close_worker, Open
  <2> QED
    BY <1>5, <2>1, StagesKept DEF EndJob, Exists, queue, status
<1> QED
  BY <1>1, <1>2, <1>3, <1>4, <1>5 DEF WorkerStep

LEMMA StageTypes == Inv => \A i \in Id : Stage(i) \in Promise!Stages
  BY StageFact DEF StageIsByPlace, StageByPlace, Promise!Stages

LEMMA StageTypesNext == (Inv => \A i \in Id : Stage(i) \in Promise!Stages)'
  BY StageTypes, PTL

LEMMA CheckStages ==
    ASSUME Inv, Inv', job_pool_check_jobs_in_pool
    PROVE  Promise!Answer
<1>1. TypeOK /\ Once /\ Apart /\ Alive /\ PipeMatchesQueue /\ ~Deleted
  BY DEF Inv, job_pool_check_jobs_in_pool, Deleted
<1>2. Received = Statuses /\ Statuses \subseteq Id
  BY <1>1, ReceivedTypes
<1>3. \A i \in Statuses : Exists(i) /\ outcome[i] = "none" /\ i \notin Creating
  BY <1>1 DEF Alive, Apart
<1>4. \A i \in Statuses : Stage(i) = IF i \in Performed THEN "performed" ELSE "cancelled"
  BY <1>2, <1>3, StageFact DEF StageIsByPlace, StageByPlace
<1>5. \A i \in Statuses : outcome'[i] = IF i \in Performed THEN "ok" ELSE "notdone"
  BY <1>1, <1>2, <1>3, StatusIs, StatusOfType DEF job_pool_check_jobs_in_pool
<1>6. \A i \in Statuses : Stage(i)' = IF i \in Performed THEN "done" ELSE "refused"
  BY <1>2, <1>5, StageFactNext DEF StageIsByPlace, StageByPlace
<1>7. \A i \in Id \ Statuses : Stage(i)' = Stage(i)
  <2>1. \A i \in Id \ Statuses : outcome'[i] = outcome[i] /\ (Exists(i)' <=> Exists(i))
    BY <1>2 DEF job_pool_check_jobs_in_pool, Exists
  <2>2. Creating' = Creating /\ Held' = Held /\ Statuses' = {} /\ Performed' = {}
    BY DEF job_pool_check_jobs_in_pool, Creating, Held, Statuses, Performed
  <2>3. Performed \subseteq Statuses
    BY DEF Performed, Statuses
  <2>4. \A i \in Id \ Statuses : StageByPlace(i)' = StageByPlace(i)
    BY <2>1, <2>2, <2>3 DEF StageByPlace
  <2> QED
    BY <2>4, StageFact, StageFactNext DEF StageIsByPlace
<1>8. \E i \in Id : Stage(i) \in {"performed", "cancelled"}
  <2>0. pipe > 0
    BY Zenon DEF job_pool_check_jobs_in_pool
  <2>1. statusqueue # <<>>
    BY <1>1, <2>0 DEF PipeMatchesQueue
  <2>2. 1 \in 1 .. Len(statusqueue)
    BY <1>1, <2>1 DEF TypeOK
  <2>3. statusqueue[1].id \in Statuses
    BY <2>2 DEF Statuses
  <2> QED
    BY <1>2, <1>4, <2>3
<1>9. [i \in Id |-> Stage(i)]' \in [Id -> Promise!Stages]
  BY StageTypesNext
<1>10. \A i \in Id : \/ Stage(i)' = Stage(i)
                     \/ Stage(i) = "performed" /\ Stage(i)' = "done"
                     \/ Stage(i) = "cancelled" /\ Stage(i)' = "refused"
  BY <1>4, <1>6, <1>7
<1>11. UNCHANGED t
  BY DEF job_pool_check_jobs_in_pool, exit
<1> QED
  BY <1>8, <1>9, <1>10, <1>11 DEF Promise!Answer

LEMMA DeleteStages ==
    ASSUME Inv, Inv', DeletePool
    PROVE  Promise!Drop
<1>1. TypeOK /\ WorkersInv /\ Once /\ Apart /\ Alive
  BY DEF Inv
<1>2. Held = {}
  <2>1. Workers = {}
    BY <1>1, WorkersCounted DEF DeletePool
  <2> QED
    BY <1>1, <2>1 DEF Workers, WorkersInv, Held
<1>3. \A i \in Id : BeingCreated(i) <=> i \in Creating
  BY DEF BeingCreated, Creating, Id
<1>4. \A i \in Id : \/ Stage(i)' = Stage(i)
                    \/ /\ Stage(i) \in {"queued", "performed", "cancelled"}
                       /\ Stage(i)' = "dropped"
  <2> SUFFICES ASSUME NEW i \in Id
               PROVE  \/ StageByPlace(i)' = StageByPlace(i)
                      \/ /\ StageByPlace(i) \in {"queued", "performed", "cancelled"}
                         /\ StageByPlace(i)' = "dropped"
    BY StageFact, StageFactNext DEF StageIsByPlace
  <2>1. outcome'[i] = (IF Exists(i) /\ i \notin Creating THEN "dropped" ELSE outcome[i])
          /\ ~Exists(i)'
    BY <1>3, Zenon DEF DeletePool, Exists
  <2>2. outcome[i] # "none" => ~Exists(i)
    BY <1>1 DEF Alive
  <2>3. CASE Exists(i) /\ i \notin Creating
    BY <1>2, <2>1, <2>2, <2>3, Zenon DEF StageByPlace
  <2>4. CASE ~(Exists(i) /\ i \notin Creating)
    BY <2>1, <2>4 DEF StageByPlace
  <2> QED
    BY <2>3, <2>4
<1>5. [i \in Id |-> Stage(i)]' \in [Id -> Promise!Stages]
  BY StageTypesNext
<1>6. t = "wait" /\ t' = "hdd_term"
  BY DEF DeletePool, Main
<1> QED
  BY <1>4, <1>5, <1>6 DEF Promise!Drop

LEMMA CanExitStages ==
    ASSUME Inv, Inv', job_canexit
    PROVE  Stutters \/ Promise!Close
<1>1. \A i \in Id : Stage(i)' = Stage(i)
  <2>1. Creating' = Creating /\ Held' = Held /\ Statuses' = Statuses /\ Performed' = Performed
    BY DEF job_canexit, Creating, Held, Statuses, Performed, status
  <2>2. \A i \in Id : StageByPlace(i)' = StageByPlace(i)
    BY <2>1 DEF job_canexit, StageByPlace, Exists
  <2> QED
    BY <2>2, StageFact, StageFactNext DEF StageIsByPlace
<1>2. Open /\ t' \in {"want", "canexit", "close"}
  BY DEF job_canexit, Main, Open
<1>3. CASE t' = "close"
  BY <1>1, <1>2, <1>3 DEF Promise!Close, Open
<1>4. CASE t' \in {"want", "canexit"}
  BY <1>1, <1>2, <1>4 DEF Stutters, Open
<1> QED
  BY <1>2, <1>3, <1>4

\* Every step of the pool is a step of JobService, or changes nothing that its
\* users see.
LEMMA NextStages ==
    ASSUME Inv, Inv', [Next]_vars
    PROVE  [Promise!Next]_(Promise!vars)
<1> USE DEF Promise!Next
<1>0. TypeOK /\ WorkersInv
  BY DEF Inv
<1>1. CASE Stutters
  BY <1>1, StuttersStep
<1>2. ASSUME NEW i \in Id,
             \/ Moves1(i, "none", "queued") \/ Moves1(i, "none", "cancelled")
             \/ Moves1(i, "queued", "taken")
             \/ Moves1(i, "taken", "performed") \/ Moves1(i, "taken", "cancelled")
      PROVE  Promise!Next
  BY <1>2, MovesStep DEF Promise!Submit, Promise!Reject, Promise!Take, Promise!Perform, Promise!Cancel
<1>3. ASSUME NEW w \in Threads, WorkerStep(w) \/ SpuriousWakeup(w)
      PROVE  Stutters \/ Promise!Next
  BY <1>2, <1>3, WorkerStages
<1>4. ASSUME NEW kind \in {"rw", "op", "info"}, MainJob(kind) PROVE Stutters
  <2>1. NewJob("main", kind) /\ kind \in Kinds /\ "main" \in Submitter /\ ~Deleted
    BY <1>4 DEF MainJob, Kinds, Submitter, Deleted
  <2> QED
    BY <1>4, <2>1, NewJobStages DEF MainJob, status, exit
<1>5. ASSUME NEW i \in Id, job_pool_disable_job(i) PROVE Stutters
  BY <1>0, <1>5, DisableKeeps, StagesKept, Zenon DEF job_pool_disable_job, Open, status, exit
<1>6. CASE job_pool_check_jobs_in_pool
  BY <1>6, CheckStages
<1>7. CASE MainPut
  <2>1. ~Deleted /\ "main" \in Submitter
    BY <1>0, <1>7, PutJobCases DEF MainPut, WorkersInv, Deleted, Submitter
  <2> QED
    BY <1>1, <1>2, <1>7, <2>1, PutJobStages DEF MainPut
<1>8. CASE job_canexit
  BY <1>1, <1>8, CanExitStages
<1>9. CASE ClosePool \/ WaitForWorkers \/ Terminate
  <2>1. Open' <=> Open
    BY <1>9 DEF ClosePool, WaitForWorkers, Terminate, Main, Open
  <2> QED
    BY <1>1, <1>9, <2>1, StagesKept DEF ClosePool, WaitForWorkers, Terminate, Exists, status
<1>10. CASE DeletePool
  BY <1>10, DeleteStages
<1>11. CASE hdd_term
  <2>1. Open' <=> Open
    BY <1>11 DEF hdd_term, Open
  <2> QED
    BY <1>1, <1>11, <2>1, StagesKept DEF hdd_term, Exists, status
<1>12. CASE job_reload
  BY <1>1, <1>12, StagesKept DEF job_reload, Exists, Open, status, exit
<1>13. CASE HsJob
  <2>1. NewJob("hs", "move") /\ "move" \in Kinds /\ "hs" \in Submitter /\ ~Deleted
    BY <1>13 DEF HsJob, Kinds, Submitter
  <2> QED
    BY <1>1, <1>13, <2>1, NewJobStages DEF HsJob, status, exit
<1>14. CASE HsPut
  BY <1>1, <1>2, <1>14, PutJobStages DEF HsPut, Submitter
<1>15. CASE HsUnchanged
  BY <1>1, <1>15, StagesKept DEF HsUnchanged, Exists, Open, status, exit
<1>16. CASE UNCHANGED vars
  BY <1>1, <1>16, StagesKept DEF vars, Exists, Open, status, exit
<1>17. CASE HsStep
  BY <1>14, <1>15, <1>17 DEF HsStep, HsExit, HsWait, HsUndefined
<1>18. CASE MainStep
  BY <1>7, <1>8, <1>9, <1>10, <1>11, <1>18 DEF MainStep
<1> HIDE DEF Promise!Next
<1> QED
  BY <1>1, <1>3, <1>4, <1>5, <1>6, <1>9, <1>12, <1>13, <1>16, <1>17, <1>18 DEF Next

\* The pools keep JobService's promise, for any number of workers and jobs: a
\* job that job_new accepted is taken by one worker at most, performed at most
\* once, and its callback is called once, with a status that says whether it
\* was performed; only job_pool_delete, once the pool is closed, drops jobs.
THEOREM PoolImplementsJobService == Spec => ImplementsJobService
<1>1. Init => Promise!Init
  BY DEF Init, Promise!Init, Stage, Exists
<1>2. Inv /\ Inv' /\ [Next]_vars => [Promise!Next]_(Promise!vars)
  BY NextStages
<1> QED
  BY <1>1, <1>2, InitInv, NextInv, PTL DEF Spec, ImplementsJobService, Promise!Spec

==============================================================================
