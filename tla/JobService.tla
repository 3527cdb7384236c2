------------------------------ MODULE JobService ------------------------------
(***************************************************************************)
(* What the background job pools of the chunkserver (bgjobs.c) promise to  *)
(* the event loop that hands them work: a job that has been accepted is    *)
(* taken by one worker at most, performed at most once, and its callback   *)
(* is called once, after the worker has finished with the buffers of the   *)
(* request, with a status that says whether the operation was performed.   *)
(* Only the deletion of the pools at exit may drop a job.                  *)
(***************************************************************************)
EXTENDS FiniteSets

CONSTANT Job          \* the job identifiers of both pools

VARIABLES
    stage,            \* where each job is between job_new and its callback
    open              \* FALSE once the process has started to delete the pools

vars == <<stage, open>>

Stages == {"none", "queued", "taken", "performed", "cancelled",
           "done", "refused", "dropped"}

TypeOK == /\ stage \in [Job -> Stages]
          /\ open \in BOOLEAN

Init == /\ stage = [j \in Job |-> "none"]
        /\ open = TRUE

Move(J, from, to) == /\ \A j \in J : stage[j] = from
                     /\ stage' = [j \in Job |-> IF j \in J THEN to ELSE stage[j]]
                     /\ UNCHANGED open

Submit(j)  == Move({j}, "none", "queued")
Reject(j)  == Move({j}, "none", "cancelled")     \* too many jobs already
Take(j)    == Move({j}, "queued", "taken")
Perform(j) == Move({j}, "taken", "performed")
Cancel(j)  == Move({j}, "taken", "cancelled")    \* disabled by its owner

\* The event loop calls the callbacks of all the jobs that have a status.
Answer ==
    /\ \E j \in Job : stage[j] \in {"performed", "cancelled"}
    /\ stage' \in [Job -> Stages]
    /\ \A j \in Job : \/ stage'[j] = stage[j]
                      \/ stage[j] = "performed" /\ stage'[j] = "done"
                      \/ stage[j] = "cancelled" /\ stage'[j] = "refused"
    /\ UNCHANGED open

Close == open /\ open' = FALSE /\ UNCHANGED stage

Drop ==
    /\ ~open
    /\ stage' \in [Job -> Stages]
    /\ \A j \in Job : \/ stage'[j] = stage[j]
                      \/ stage[j] \in {"queued", "performed", "cancelled"} /\ stage'[j] = "dropped"
    /\ UNCHANGED open

Next == \/ \E j \in Job : Submit(j) \/ Reject(j) \/ Take(j) \/ Perform(j) \/ Cancel(j)
        \/ Answer \/ Close \/ Drop

Spec == Init /\ [][Next]_vars
===============================================================================
