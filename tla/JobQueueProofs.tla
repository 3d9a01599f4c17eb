--------------------------- MODULE JobQueueProofs ---------------------------
(***************************************************************************)
(* What a queue's record of a job can say, whatever the job does: for any  *)
(* number of jobs, attempts, lost workers and retries.                     *)
(***************************************************************************)
EXTENDS JobQueue, TLAPS

QueueStep(j) ==
  \/ Add(j) \/ Take(j) \/ (Running(j) /\ Ran(j)) \/ Complete(j)
  \/ Throw(j) \/ Stall(j) \/ RetryJob(j)

\* The runs of a job that are over, and the one that is not.
Runs(r) == r.made + r.stalls + (IF r.ran \/ r.state = "completed" THEN 1 ELSE 0)

\* A run under way is one that neither the attempts nor the lost workers have used up yet,
\* and the state `ran` is about a run.
Budgeted(r) ==
  /\ r.made <= Attempts + r.retries
  /\ r.stalls <= MaxStalls + r.retries + 1
  /\ r.made + r.stalls <= Attempts + MaxStalls + r.retries
  /\ r.state # "failed" =>
       /\ r.made < Attempts + r.retries
       /\ r.stalls <= MaxStalls + r.retries
       /\ r.made + r.stalls < Attempts + MaxStalls + r.retries
  /\ r.ran => r.state = "active"

QueueInv == QueueTypeOK /\ \A j \in Jobs : Budgeted(jobs[j])

LEMMA RecordFields ==
  ASSUME NEW r \in JobRecords
  PROVE  /\ r.state \in States /\ r.made \in Nat /\ r.stalls \in Nat /\ r.retries \in Nat
         /\ r.ran \in BOOLEAN
  BY DEF JobRecords

LEMMA QueueStarts == QueueInit => QueueInv
  <1> SUFFICES ASSUME QueueInit PROVE QueueInv
    OBVIOUS
  <1>1. NoJob \in JobRecords
    BY DEF NoJob, JobRecords, States
  <1>2. Budgeted(NoJob)
    BY QueueAssumption DEF NoJob, Budgeted
  <1> QED BY <1>1, <1>2 DEF QueueInit, QueueInv, QueueTypeOK

\* One step of the queue: the other jobs stay, and the job's record changes as the step says.
LEMMA QueueSteps ==
  ASSUME QueueInv, NEW j \in Jobs, QueueStep(j)
  PROVE  QueueInv' /\ \A i \in Jobs \ {j} : jobs'[i] = jobs[i]
  <1> DEFINE r == jobs[j]
  <1>1. r \in JobRecords /\ Budgeted(r) /\ jobs = [i \in Jobs |-> jobs[i]]
    BY DEF QueueInv, QueueTypeOK
  <1>2. /\ r.state \in States /\ r.made \in Nat /\ r.stalls \in Nat /\ r.retries \in Nat
        /\ r.ran \in BOOLEAN
        /\ r.made + 1 \in Nat /\ r.stalls + 1 \in Nat /\ r.retries + 1 \in Nat
    <2>1. /\ r.state \in States /\ r.made \in Nat /\ r.stalls \in Nat /\ r.retries \in Nat
          /\ r.ran \in BOOLEAN
      BY <1>1, RecordFields
    <2> QED BY <2>1
  <1>3. SUFFICES ASSUME NEW s \in JobRecords, Budgeted(s), jobs' = [jobs EXCEPT ![j] = s]
                 PROVE  QueueInv' /\ \A i \in Jobs \ {j} : jobs'[i] = jobs[i]
    <2>1. CASE Add(j)
      <3>1. CASE Is(j, "none")
        <4> DEFINE s == [r EXCEPT !.state = "waiting"]
        <4>1. s \in JobRecords /\ Budgeted(s)
          BY <1>1, <1>2, <3>1 DEF Budgeted, JobRecords, States, Is
        <4> QED BY <1>3, <2>1, <3>1, <4>1 DEF Add
      <3>2. CASE ~Is(j, "none")
        <4>1. jobs' = [jobs EXCEPT ![j] = r]
          BY <1>1, <2>1, <3>2 DEF Add
        <4> QED BY <1>1, <1>3, <4>1
      <3> QED BY <3>1, <3>2
    <2>2. CASE Take(j)
      <3> DEFINE s == [r EXCEPT !.state = "active"]
      <3>1. s \in JobRecords /\ Budgeted(s)
        BY <1>1, <1>2, <2>2 DEF Budgeted, JobRecords, States, Is, Take
      <3> QED BY <1>3, <2>2, <3>1 DEF Take
    <2>3. CASE Running(j) /\ Ran(j)
      <3> DEFINE s == [r EXCEPT !.ran = TRUE]
      <3>1. s \in JobRecords /\ Budgeted(s)
        BY <1>1, <1>2, <2>3 DEF Budgeted, JobRecords, Is, Running
      <3> QED BY <1>3, <2>3, <3>1 DEF Ran
    <2>4. CASE Complete(j)
      <3> DEFINE s == [r EXCEPT !.state = "completed", !.ran = FALSE]
      <3>1. s \in JobRecords /\ Budgeted(s)
        BY <1>1, <1>2, <2>4 DEF Budgeted, JobRecords, States, Is, Complete
      <3> QED BY <1>3, <2>4, <3>1 DEF Complete
    <2>5. CASE Throw(j)
      <3>1. PICK next \in {"failed", "waiting"} :
              /\ next = IF Exhausted(j) THEN "failed" ELSE "waiting"
              /\ next = "waiting" => r.made + 1 < Attempts
        BY <1>2, QueueAssumption DEF Exhausted
      <3> DEFINE s == [r EXCEPT !.made = @ + 1, !.state = next, !.ran = FALSE]
      <3>2. s \in JobRecords
        BY <1>1, <1>2, <3>1 DEF JobRecords, States
      <3>3. Budgeted(s)
        BY <1>1, <1>2, <2>5, <3>1, QueueAssumption DEF Budgeted, JobRecords, Is, Throw
      <3>4. jobs' = [jobs EXCEPT ![j] = s]
        BY <1>1, <2>5, <3>1 DEF Throw
      <3> QED BY <1>3, <3>2, <3>3, <3>4
    <2>6. CASE Stall(j)
      <3>1. PICK next \in {"failed", "waiting"} :
              /\ next = IF r.stalls < MaxStalls THEN "waiting" ELSE "failed"
              /\ next = "waiting" => r.stalls < MaxStalls
        OBVIOUS
      <3> DEFINE s == [r EXCEPT !.stalls = @ + 1, !.state = next, !.ran = FALSE]
      <3>2. s \in JobRecords
        BY <1>1, <1>2, <3>1 DEF JobRecords, States
      <3>3. Budgeted(s)
        BY <1>1, <1>2, <2>6, <3>1, QueueAssumption DEF Budgeted, JobRecords, Is, Stall
      <3>4. jobs' = [jobs EXCEPT ![j] = s]
        BY <1>1, <2>6, <3>1 DEF Stall
      <3> QED BY <1>3, <3>2, <3>3, <3>4
    <2>7. CASE RetryJob(j)
      <3> DEFINE s == [r EXCEPT !.state = "waiting", !.retries = @ + 1]
      <3>1. s \in JobRecords
        BY <1>1, <1>2 DEF JobRecords, States
      <3>2. Budgeted(s)
        BY <1>1, <1>2, <2>7, QueueAssumption DEF Budgeted, JobRecords, Is, RetryJob
      <3> QED BY <1>3, <2>7, <3>1, <3>2 DEF RetryJob
    <2> QED BY <2>1, <2>2, <2>3, <2>4, <2>5, <2>6, <2>7 DEF QueueStep
  <1> QED BY <1>1, <1>3 DEF QueueInv, QueueTypeOK
=============================================================================
