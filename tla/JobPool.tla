-------------------------------- MODULE JobPool --------------------------------
(***************************************************************************)
(* A background job pool of the chunkserver (bgjobs.c) over its queue      *)
(* (pcqueue.c), with the threads that use it: the workers, the event loop  *)
(* ("main"), which creates jobs, collects their statuses and deletes the   *)
(* pool at exit, and the high speed rebalance thread ("hs") of             *)
(* hddspacemgr.c, which creates the jobs that move chunks between disks.   *)
(* A step is what a thread does while it holds one mutex.                  *)
(*                                                                         *)
(* The chunkserver has two pools, which share nothing but the numbering of *)
(* their jobs: "hp" runs reads, writes and the master's chunk operations,  *)
(* "lp" the requests for chunk information, replications and moves.  A     *)
(* behaviour follows one of the two; what the other one can do to it is    *)
(* nondeterministic.                                                       *)
(***************************************************************************)
EXTENDS Integers, Sequences, FiniteSets

CONSTANTS
    Threads,        \* the worker threads the pool may have
    MaxJobs,        \* bound: jobs created
    Limits,         \* the values of WORKERS_MAX and WORKERS_MAX_IDLE
    HSRebalanceLimit,
    MaxWaiting      \* bound: freewaiting, which spurious wakeups raise

Id == 1..MaxJobs
Submitter == {"main", "hs"}

ASSUME LimitsAssumption ==
    /\ Limits \subseteq [max : 1..Cardinality(Threads), idle : 0..Cardinality(Threads)]
    /\ IsFiniteSet(Threads)
    /\ MaxJobs \in Nat /\ HSRebalanceLimit \in Nat /\ MaxWaiting \in Nat

NoJob == [kind |-> "none", jstate |-> "none"]
Idle == [id |-> 0, kind |-> "none", busy |-> 0]

VARIABLES
    pool,             \* the pool this behaviour is about
    jobhash, nextjobid,
    jobqueue, freewaiting, closed,
    statusqueue, pipe,                  \* bytes in the pipe that wakes the event loop
    workers_avail, workers_total, limits,
    pc, held,         \* what each worker is doing, and the job it works on
    submit,           \* the job each submitter is creating, between the two halves of job_new
    outcome,          \* the status each callback was called with
    t, term_waiting, term,              \* the event loop's way out
    hs, rebalance_in_progress

queue == <<jobqueue, freewaiting, closed>>
status == <<statusqueue, pipe>>
counts == <<workers_avail, workers_total>>
exit == <<t, term_waiting, term>>
rebalance == <<hs, rebalance_in_progress>>
vars == <<pool, jobhash, nextjobid, queue, status, counts, limits, pc, held, submit, outcome,
          exit, rebalance>>

Exists(i) == jobhash[i] # NoJob
BeingCreated(i) == \E s \in Submitter : submit[s].id = i
Asleep == {w \in Threads : pc[w] = "sleep"}
Busy == workers_total - workers_avail
Deleted == t \in {"hdd_term", "gone"}

\* job_init: the pool starts with one worker.
Init ==
    /\ pool \in {"hp", "lp"}
    /\ jobhash = [i \in Id |-> NoJob] /\ nextjobid = 1
    /\ jobqueue = <<>> /\ freewaiting = 0 /\ closed = FALSE
    /\ statusqueue = <<>> /\ pipe = 0
    /\ workers_avail = 1 /\ workers_total = 1 /\ limits \in Limits
    /\ pc = [w \in Threads |-> IF w = CHOOSE v \in Threads : TRUE THEN "get" ELSE "none"]
    /\ held = [w \in Threads |-> 0]
    /\ submit = [s \in Submitter |-> Idle]
    /\ outcome = [i \in Id |-> "none"]
    /\ t = "run" /\ term_waiting = 0 /\ term = FALSE
    /\ hs = IF pool = "hp" \/ HSRebalanceLimit = 0 THEN "gone" ELSE "loop"
    /\ rebalance_in_progress = 0

-------------------------------------------------------------------------------
\* pcqueue.c

\* queue_put on an unbounded queue: it also accepts elements once closed.  The
\* sleepers are alike, so it does not matter which of them is woken.
queue_put(i) ==
    /\ jobqueue' = Append(jobqueue, i)
    /\ IF freewaiting > 0
       THEN /\ freewaiting' = freewaiting - 1
            /\ pc' = IF Asleep = {} THEN pc ELSE [pc EXCEPT ![CHOOSE w \in Asleep : TRUE] = "get"]
       ELSE UNCHANGED <<freewaiting, pc>>

\* Mutant: the count of waiting threads is left as it was.
queue_close_KeepsCount ==
    /\ closed' = TRUE
    /\ pc' = [w \in Threads |-> IF w \in Asleep THEN "get" ELSE pc[w]]
    /\ UNCHANGED freewaiting

\* queue_close wakes everybody; what is still queued is never taken.
queue_close ==
    /\ closed' = TRUE
    /\ freewaiting' = 0
    /\ pc' = IF freewaiting > 0
             THEN [w \in Threads |-> IF w \in Asleep THEN "get" ELSE pc[w]]
             ELSE pc

\* job_close_worker; avail and total are the counts before the call.
job_close_worker(w, avail, total) ==
    /\ workers_avail' = avail - 1
    /\ workers_total' = total - 1
    /\ pc' = [pc EXCEPT ![w] = "none"]
    /\ IF total = 1 /\ term_waiting > 0
       THEN /\ term_waiting' = term_waiting - 1
            /\ t' = IF t = "asleep" THEN "wait" ELSE t
       ELSE UNCHANGED <<term_waiting, t>>

\* queue_get by a worker: it sleeps while the queue is empty, takes the first
\* element, or learns that the queue has been closed and ends.
queue_get(w) ==
    /\ pc[w] = "get"
    /\ \/ /\ jobqueue = <<>> /\ ~closed
          /\ freewaiting' = freewaiting + 1
          /\ pc' = [pc EXCEPT ![w] = "sleep"]
          /\ UNCHANGED <<jobqueue, held, counts, t, term_waiting>>
       \/ /\ closed
          /\ job_close_worker(w, workers_avail, workers_total)
          /\ UNCHANGED <<jobqueue, freewaiting, held>>
       \/ /\ jobqueue # <<>> /\ ~closed
          /\ jobqueue' = Tail(jobqueue)
          /\ held' = [held EXCEPT ![w] = Head(jobqueue)]
          /\ pc' = [pc EXCEPT ![w] = "got"]
          /\ UNCHANGED <<freewaiting, counts, t, term_waiting>>
    /\ UNCHANGED <<pool, jobhash, nextjobid, closed, status, limits, submit, outcome, term, rebalance>>

\* pthread_cond_wait may return without a signal; the loop in queue_get waits
\* again, and freewaiting then counts more sleepers than there are.
SpuriousWakeup(w) ==
    /\ pc[w] = "sleep" /\ freewaiting < MaxWaiting
    /\ pc' = [pc EXCEPT ![w] = "get"]
    /\ UNCHANGED <<pool, jobhash, nextjobid, queue, status, counts, limits, held, submit, outcome,
                   exit, rebalance>>

-------------------------------------------------------------------------------
\* The workers (job_worker)

\* Mutant: a byte for every status.
job_send_status_EveryByte(i, s) ==
    /\ pipe' = pipe + 1
    /\ statusqueue' = Append(statusqueue, [id |-> i, status |-> s])

\* job_send_status: the pipe gets a byte when the status is the first one.
job_send_status(i, s) ==
    /\ pipe' = IF statusqueue = <<>> THEN pipe + 1 ELSE pipe
    /\ statusqueue' = Append(statusqueue, [id |-> i, status |-> s])

\* The worker counts itself busy, spawns a worker when no other is available,
\* and starts the job unless it has been disabled.
BeginJob(w) ==
    LET avail == workers_avail - 1
        j == jobhash[held[w]]
        next == [pc EXCEPT ![w] = IF j.jstate = "disabled" THEN "skip" ELSE "run"]
    IN
    /\ pc[w] = "got"
    /\ IF avail = 0 /\ workers_total < limits.max
       THEN /\ workers_avail' = avail + 1
            /\ workers_total' = workers_total + 1
            /\ pc' = [next EXCEPT ![CHOOSE v \in Threads : pc[v] = "none"] = "get"]
       ELSE /\ workers_avail' = avail
            /\ pc' = next
            /\ UNCHANGED workers_total
    /\ jobhash' = IF j.jstate = "enabled"
                  THEN [jobhash EXCEPT ![held[w]] = [kind |-> j.kind, jstate |-> "inprogress"]]
                  ELSE jobhash
    /\ UNCHANGED <<pool, nextjobid, queue, status, limits, held, submit, outcome, exit, rebalance>>

\* The operation itself (hdd_chunkop, mainserv_read, replicate, ...), or its
\* refusal when the job was disabled, the counters of the job's type, and the
\* status.
DoJob(w) ==
    /\ pc[w] \in {"run", "skip"}
    /\ job_send_status(held[w], IF pc[w] = "run" THEN "ok" ELSE "notdone")
    /\ pc' = [pc EXCEPT ![w] = "back"]
    /\ held' = [held EXCEPT ![w] = 0]
    /\ UNCHANGED <<pool, jobhash, nextjobid, queue, counts, limits, submit, outcome, exit, rebalance>>

\* Mutants: a worker ends when idle workers are left, itself included; and one
\* that ends without having counted itself available.
EndJob_OffByOne(w) ==
    LET avail == workers_avail + 1 IN
    /\ pc[w] = "back"
    /\ IF avail >= limits.idle
       THEN job_close_worker(w, avail, workers_total)
       ELSE /\ workers_avail' = avail
            /\ pc' = [pc EXCEPT ![w] = "get"]
            /\ UNCHANGED <<workers_total, t, term_waiting>>
    /\ UNCHANGED <<pool, jobhash, nextjobid, queue, status, limits, held, submit, outcome, term,
                   rebalance>>

\* The worker is available again, or ends when enough others are.
EndJob(w) ==
    LET avail == workers_avail + 1 IN
    /\ pc[w] = "back"
    /\ IF avail > limits.idle
       THEN job_close_worker(w, avail, workers_total)
       ELSE /\ workers_avail' = avail
            /\ pc' = [pc EXCEPT ![w] = "get"]
            /\ UNCHANGED <<workers_total, t, term_waiting>>
    /\ UNCHANGED <<pool, jobhash, nextjobid, queue, status, limits, held, submit, outcome, term,
                   rebalance>>

-------------------------------------------------------------------------------
\* job_new

\* First half, under jobslock: the record is entered in the hash and the number
\* of busy workers is read.
NewJob(s, kind) ==
    /\ submit[s] = Idle /\ nextjobid <= MaxJobs
    /\ nextjobid' = nextjobid + 1
    /\ jobhash' = [jobhash EXCEPT ![nextjobid] = [kind |-> kind, jstate |-> "enabled"]]
    /\ submit' = [submit EXCEPT ![s] = [id |-> nextjobid, kind |-> kind, busy |-> Busy]]

TooManyJobs(j) == Len(jobqueue) + j.busy > limits.max

\* Mutant: a job that was refused is queued all the same.
PutJob_RefusedAndQueued(s) ==
    LET j == submit[s] IN
    /\ j # Idle
    /\ IF TooManyJobs(j) THEN job_send_status(j.id, "notdone") ELSE UNCHANGED status
    /\ queue_put(j.id)
    /\ submit' = [submit EXCEPT ![s] = Idle]
    /\ UNCHANGED <<pool, jobhash, nextjobid, closed, counts, limits, held, outcome, exit>>

\* Second half: the queue is read after jobslock has been released.  A read or
\* write is given back to the caller when there are too many jobs
\* (JOB_MODE_LIMITED_RETURN), any other job gets the status "notdone" at once
\* (JOB_MODE_LIMITED_QUEUE).
PutJob(s) ==
    LET j == submit[s] IN
    /\ j # Idle
    /\ IF TooManyJobs(j)
       THEN IF j.kind = "rw"
            THEN /\ jobhash' = [jobhash EXCEPT ![j.id] = NoJob]
                 /\ UNCHANGED <<jobqueue, freewaiting, status, pc>>
            ELSE /\ job_send_status(j.id, "notdone")
                 /\ UNCHANGED <<jobhash, jobqueue, freewaiting, pc>>
       ELSE /\ queue_put(j.id)
            /\ UNCHANGED <<jobhash, status>>
    /\ submit' = [submit EXCEPT ![s] = Idle]
    /\ UNCHANGED <<pool, nextjobid, closed, counts, limits, held, outcome, exit>>

\* The jobs the event loop creates: reads and writes for clients and chunk
\* operations of the master in the high priority pool, requests for chunk
\* information (and replications, which differ in not being disabled) in the
\* low priority one.
MainJob(kind) ==
    /\ t \in {"run", "want"}
    /\ kind \in IF pool = "hp" THEN {"rw", "op"} ELSE {"info"}
    /\ NewJob("main", kind)
    /\ UNCHANGED <<pool, queue, status, counts, limits, pc, held, outcome, exit, rebalance>>

MainPut == PutJob("main") /\ UNCHANGED rebalance

\* job_pool_disable_job when the connection that asked for chunk information is
\* closed.  It looks the number up in both pools: a job of the high priority
\* pool is disabled by its namesake in the other one.
job_pool_disable_job(i) ==
    /\ t \in {"run", "want"} /\ submit["main"] = Idle
    /\ jobhash[i].jstate = "enabled" /\ (pool = "hp" \/ jobhash[i].kind = "info")
    /\ jobhash' = [jobhash EXCEPT ![i] = [kind |-> @.kind, jstate |-> "disabled"]]
    /\ UNCHANGED <<pool, nextjobid, queue, status, counts, limits, pc, held, submit, outcome,
                   exit, rebalance>>

\* job_pool_check_jobs_in_pool: all the statuses are received, and the
\* callbacks called, under jobslock.
Received == {statusqueue[k].id : k \in DOMAIN statusqueue}
StatusOf(i) == (CHOOSE s \in {statusqueue[k] : k \in DOMAIN statusqueue} : s.id = i).status
Moves == {i \in Received : jobhash[i].kind = "move"}

\* hdd_move_finished, the callback of the jobs of the rebalance thread.
hdd_move_finished(n) ==
    /\ rebalance_in_progress' = rebalance_in_progress - n
    /\ hs' = IF n > 0 /\ hs = "wait" THEN "loop" ELSE hs

job_pool_check_jobs_in_pool ==
    /\ t \in {"run", "want"} /\ submit["main"] = Idle /\ pipe > 0
    /\ jobhash' = [i \in Id |-> IF i \in Received THEN NoJob ELSE jobhash[i]]
    /\ outcome' = [i \in Id |-> IF i \in Received /\ Exists(i) THEN StatusOf(i) ELSE outcome[i]]
    /\ statusqueue' = <<>>
    /\ pipe' = pipe - 1
    /\ hdd_move_finished(Cardinality(Moves))
    /\ UNCHANGED <<pool, nextjobid, queue, counts, limits, pc, held, submit, exit>>

job_reload ==
    /\ t \in {"run", "want"} /\ submit["main"] = Idle
    /\ limits' \in Limits \ {limits}
    /\ UNCHANGED <<pool, jobhash, nextjobid, queue, status, counts, pc, held, submit, outcome,
                   exit, rebalance>>

-------------------------------------------------------------------------------
\* The way out: mainloop, job_canexit, job_term, hdd_term

Main(from, to) == t = from /\ t' = to /\ submit["main"] = Idle

Terminate ==
    /\ Main("run", "want")
    /\ UNCHANGED <<pool, jobhash, nextjobid, queue, status, counts, limits, pc, held, submit,
                   outcome, term_waiting, term, rebalance>>

jobs_count == Busy + Len(jobqueue)

\* job_canexit reads the high priority pool, then the low priority one, which
\* may still be busy.
job_canexit ==
    /\ \/ Main("want", IF jobs_count > 0 THEN "want" ELSE IF pool = "hp" THEN "canexit" ELSE "close")
       \/ Main("canexit", "close")
       \/ Main("canexit", "want")
    /\ UNCHANGED <<pool, jobhash, nextjobid, queue, status, counts, limits, pc, held, submit,
                   outcome, term_waiting, term, rebalance>>

\* job_pool_delete: close the queue, wait until the last worker has gone,
\* then drop the statuses nobody received.
ClosePool ==
    /\ Main("close", "wait")
    /\ queue_close
    /\ UNCHANGED <<pool, jobhash, nextjobid, jobqueue, status, counts, limits, held, submit, outcome,
                   term_waiting, term, rebalance>>

WaitForWorkers ==
    /\ Main("wait", "asleep") /\ workers_total > 0
    /\ term_waiting' = term_waiting + 1
    /\ UNCHANGED <<pool, jobhash, nextjobid, queue, status, counts, limits, pc, held, submit,
                   outcome, term, rebalance>>

DeletePool ==
    /\ Main("wait", "hdd_term") /\ workers_total = 0
    /\ outcome' = [i \in Id |-> IF Exists(i) /\ ~BeingCreated(i) THEN "dropped" ELSE outcome[i]]
    /\ jobhash' = [i \in Id |-> NoJob]
    /\ statusqueue' = <<>> /\ pipe' = 0
    /\ UNCHANGED <<pool, nextjobid, queue, counts, limits, pc, held, submit, term_waiting, term,
                   rebalance>>

\* hdd_term: tell the threads to stop, then join the rebalance thread.
hdd_term ==
    /\ t = "hdd_term"
    /\ \/ ~term /\ term' = TRUE /\ UNCHANGED t
       \/ term /\ hs = "gone" /\ t' = "gone" /\ UNCHANGED term
    /\ UNCHANGED <<pool, jobhash, nextjobid, queue, status, counts, limits, pc, held, submit,
                   outcome, term_waiting, rebalance>>

-------------------------------------------------------------------------------
\* hdd_highspeed_rebalance_thread, with one source and one destination disk

HsUnchanged == UNCHANGED <<pool, jobhash, nextjobid, queue, status, counts, limits, pc, held,
                           submit, outcome, exit>>

HsExit == hs = "loop" /\ term /\ hs' = "gone" /\ UNCHANGED rebalance_in_progress /\ HsUnchanged

\* hdd_rebalance_find_servers found that the destination has room for a job ...
HsJob ==
    /\ hs = "loop" /\ rebalance_in_progress < HSRebalanceLimit /\ ~Deleted
    /\ NewJob("hs", "move")
    /\ rebalance_in_progress' = rebalance_in_progress + 1
    /\ hs' = "put"
    /\ UNCHANGED <<pool, queue, status, counts, limits, pc, held, outcome, exit>>

HsPut ==
    /\ hs = "put" /\ ~Deleted
    /\ PutJob("hs")
    /\ hs' = "loop" /\ UNCHANGED rebalance_in_progress

\* The pool is gone, but not yet the thread, which may have read term before it
\* was set: what job_new does is undefined.
HsUndefined ==
    /\ hs = "put" \/ (hs = "loop" /\ rebalance_in_progress < HSRebalanceLimit)
    /\ Deleted
    /\ hs' = "undefined" /\ UNCHANGED rebalance_in_progress
    /\ HsUnchanged

\* ... or not: it waits for highspeed_cond.  Nothing else wakes it.
HsWait ==
    /\ hs = "loop" /\ ~term /\ rebalance_in_progress >= HSRebalanceLimit
    /\ hs' = "wait" /\ UNCHANGED rebalance_in_progress
    /\ HsUnchanged

WorkerStep(w) == queue_get(w) \/ BeginJob(w) \/ DoJob(w) \/ EndJob(w)

MainStep == MainPut \/ job_canexit \/ ClosePool \/ WaitForWorkers \/ DeletePool \/ hdd_term

HsStep == HsExit \/ HsPut \/ HsWait \/ HsUndefined

Next ==
    \/ \E w \in Threads : WorkerStep(w) \/ SpuriousWakeup(w)
    \/ \E kind \in {"rw", "op", "info"} : MainJob(kind)
    \/ \E i \in Id : job_pool_disable_job(i)
    \/ job_pool_check_jobs_in_pool
    \/ MainStep \/ Terminate \/ job_reload
    \/ HsStep \/ HsJob

\* Every thread that can run is run.
Spec == /\ Init /\ [][Next]_vars
        /\ \A w \in Threads : WF_vars(WorkerStep(w))
        /\ WF_vars(MainStep) /\ WF_vars(HsStep)
        /\ WF_vars(job_pool_check_jobs_in_pool)

-------------------------------------------------------------------------------
\* The pipe of a pool holds one byte exactly when a status waits in its queue
\* (job_send_status, job_receive_status): the event loop is always woken for a
\* status and never blocks reading an empty pipe.
PipeMatchesQueue == pipe = IF statusqueue = <<>> THEN 0 ELSE 1

\* When job_pool_delete frees a pool no worker can still touch it, and the
\* waiting count that queue_delete asserts to be zero is zero.
DeletedPoolIsIdle == Deleted => freewaiting = 0 /\ \A w \in Threads : pc[w] = "none"

\* The stage of a job as its owner sees it.
Stage(i) ==
    CASE outcome[i] = "ok" -> "done"
      [] outcome[i] = "notdone" -> "refused"
      [] outcome[i] = "dropped" -> "dropped"
      [] outcome[i] = "none" /\ (~Exists(i) \/ BeingCreated(i)) -> "none"
      [] OTHER -> IF i \in Received
                  THEN IF StatusOf(i) = "ok" THEN "performed" ELSE "cancelled"
                  ELSE IF \E w \in Threads : held[w] = i THEN "taken" ELSE "queued"

Promise == INSTANCE JobService WITH
    Job <- Id,
    stage <- [i \in Id |-> Stage(i)],
    open <- t \in {"run", "want", "canexit"}

\* The pools do what JobService promises: a job is taken by one worker, performed
\* at most once, and its record and buffers are freed by its callback only after
\* the worker has finished with them.
ImplementsJobService == Promise!Spec

\* A job does not stay in the hash for ever: its callback is called, or it is
\* given back to its creator, unless the process exits (job_worker,
\* job_pool_check_jobs_in_pool).
JobsAnswered == \A i \in Id : Exists(i) ~> (~Exists(i) \/ t \notin {"run", "want"})

\* Once job_canexit has let the event loop go, the process exits: the pools are
\* deleted (job_term) and the threads of hddspacemgr.c joined (hdd_term).  A
\* use of the deleted pool, after which anything may happen, is set aside.
ExitCompletes == (t = "close") ~> (t = "gone" \/ hs = "undefined")
===============================================================================
