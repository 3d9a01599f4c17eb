------------------------------ MODULE JobQueue ------------------------------
(***************************************************************************)
(* One BullMQ queue with the options of queue-config.ts, as its producers, *)
(* its worker and the DLQ inspector meet it: a job added twice under one   *)
(* id is one job; a job that throws is tried again until its attempts are  *)
(* used up and then stays in the queue as failed; the job of a worker that *)
(* died is given to another; an administrator may put a failed job back.   *)
(* What a job does when it runs is in the modules that extend this one.    *)
(***************************************************************************)
EXTENDS Naturals, FiniteSets, FiniteSetsExt

CONSTANTS
  Jobs,          \* job ids
  Attempts,      \* BULLMQ_MAX_RETRIES
  MaxStalls,     \* BullMQ's limit on lost workers per job
  MaxRetries     \* bound: retries by administrators, of all jobs together

ASSUME QueueAssumption == Attempts \in Nat \ {0} /\ MaxStalls \in Nat /\ MaxRetries \in Nat /\ IsFiniteSet(Jobs)

VARIABLE jobs    \* the queue's record of each job

States == {"none", "waiting", "active", "completed", "failed"}
\* made: attemptsMade; ran: the run under way has had its effect; retries: the bound's.
JobRecords == [state : States, made : Nat, stalls : Nat, retries : Nat, ran : BOOLEAN]
NoJob == [state |-> "none", made |-> 0, stalls |-> 0, retries |-> 0, ran |-> FALSE]
QueueInit == jobs = [j \in Jobs |-> NoJob]
QueueTypeOK == jobs \in [Jobs -> JobRecords]

Is(j, state) == jobs[j].state = state
Settled(j) == jobs[j].state \in {"completed", "failed"}

\* queue.add: a job whose id is in the queue already is not added again.
Add(j) == jobs' = IF Is(j, "none") THEN [jobs EXCEPT ![j].state = "waiting"] ELSE jobs

\* A worker takes the job; the processor's `process` begins.
Take(j) ==
  /\ Is(j, "waiting")
  /\ jobs' = [jobs EXCEPT ![j].state = "active"]

Running(j) == Is(j, "active") /\ ~jobs[j].ran
Ran(j) == jobs' = [jobs EXCEPT ![j].ran = TRUE]

CompleteAnyway(j) == Is(j, "active") /\ jobs' = [jobs EXCEPT ![j].state = "completed"]
\* `process` returned.
Complete(j) ==
  /\ Is(j, "active") /\ jobs[j].ran
  /\ jobs' = [jobs EXCEPT ![j].state = "completed", ![j].ran = FALSE]

ExhaustedLate(j) == jobs[j].made > Attempts
Exhausted(j) == jobs[j].made + 1 >= Attempts

ThrowUncounted(j) == Is(j, "active") /\ jobs' = [jobs EXCEPT ![j].state = "waiting"]
\* `process` threw: back to the queue after the backoff, or to the failed set.
Throw(j) ==
  /\ Is(j, "active")
  /\ jobs' = [jobs EXCEPT ![j].made = @ + 1,
                          ![j].state = IF Exhausted(j) THEN "failed" ELSE "waiting",
                          ![j].ran = FALSE]

\* The worker died with the job, or lost its lock on it.
Stall(j) ==
  /\ Is(j, "active")
  /\ jobs' = [jobs EXCEPT ![j].stalls = @ + 1,
                          ![j].state = IF jobs[j].stalls < MaxStalls THEN "waiting" ELSE "failed",
                          ![j].ran = FALSE]

Retried == MapThenSumSet(LAMBDA i : jobs[i].retries, Jobs)
\* DlqInspectorService.retryJob: only a failed job can be retried. The attempts it made
\* stay counted, so it gets one more.
RetryJob(j) ==
  /\ Is(j, "failed") /\ Retried < MaxRetries
  /\ jobs' = [jobs EXCEPT ![j].state = "waiting", ![j].retries = @ + 1]
=============================================================================
