------------------------- MODULE AuditPipelineProofs -------------------------
(***************************************************************************)
(* The audit worker's promises, for any number of overrides, attempts,     *)
(* lost workers and retries.                                               *)
(***************************************************************************)
EXTENDS AuditPipeline, JobQueueProofs

\* Every row, and every run that may still write one, is a run the queue knows of; a run
\* that had its effect wrote a row.
Kept(r, written, lost) ==
  /\ written + lost <= Runs(r)
  /\ r.ran \/ r.state = "completed" => written >= 1
\* What is left of a job the worker refuses.
Untouched(r, written, lost) ==
  written = 0 /\ lost = 0 /\ ~r.ran /\ r.state # "completed"
Accounted(j) ==
  /\ Kept(jobs[j], rows[j], orphaned[j])
  /\ j \in NewerJobs => Untouched(jobs[j], rows[j], orphaned[j])

AInv ==
  /\ QueueInv
  /\ txn \in [Overrides -> TxnStates] /\ rows \in [Jobs -> Nat] /\ orphaned \in [Jobs -> Nat]
  /\ \A j \in Jobs : Accounted(j)

LEMMA RecordOf ==
  ASSUME AInv, NEW j \in Jobs
  PROVE  /\ jobs[j] \in JobRecords /\ Budgeted(jobs[j]) /\ Accounted(j)
         /\ jobs[j].state \in States /\ jobs[j].made \in Nat /\ jobs[j].stalls \in Nat
         /\ jobs[j].retries \in Nat /\ jobs[j].ran \in BOOLEAN
         /\ rows[j] \in Nat /\ orphaned[j] \in Nat
         /\ jobs = [i \in Jobs |-> jobs[i]]
  <1>1. jobs[j] \in JobRecords
    BY DEF AInv, QueueInv, QueueTypeOK
  <1> QED BY <1>1, RecordFields DEF AInv, QueueInv, QueueTypeOK

LEMMA Starts == Init => AInv
  <1> SUFFICES ASSUME Init PROVE AInv
    OBVIOUS
  <1>1. QueueInv
    BY QueueStarts DEF Init
  <1>2. \A j \in Jobs : Accounted(j)
    BY DEF Init, QueueInit, NoJob, Accounted, Kept, Untouched, Runs
  <1> QED BY <1>1, <1>2 DEF Init, AInv, TxnStates

\* A step is about one job: the others' records and rows stay.
LEMMA OneJob ==
  ASSUME AInv, NEW j \in Jobs, NEW written \in Nat, NEW lost \in Nat,
         QueueStep(j) \/ jobs' = jobs,
         rows' = [rows EXCEPT ![j] = written], orphaned' = [orphaned EXCEPT ![j] = lost],
         txn' \in [Overrides -> TxnStates],
         Kept(jobs'[j], written, lost),
         j \in NewerJobs => Untouched(jobs'[j], written, lost)
  PROVE  AInv'
  <1>1. QueueInv' /\ \A i \in Jobs \ {j} : jobs'[i] = jobs[i]
    <2>1. CASE QueueStep(j)
      BY <2>1, QueueSteps DEF AInv
    <2>2. CASE jobs' = jobs
      BY <2>2 DEF AInv, QueueInv, QueueTypeOK
    <2> QED BY <2>1, <2>2
  <1>2. rows' \in [Jobs -> Nat] /\ orphaned' \in [Jobs -> Nat]
    BY DEF AInv
  <1>3. ASSUME NEW i \in Jobs PROVE Accounted(i)'
    <2>1. CASE i = j
      BY <2>1 DEF AInv, Accounted
    <2>2. CASE i # j
      <3>1. jobs'[i] = jobs[i] /\ rows'[i] = rows[i] /\ orphaned'[i] = orphaned[i] /\ Accounted(i)
        BY <1>1, <2>2 DEF AInv
      <3> QED BY <3>1 DEF Accounted
    <2> QED BY <2>1, <2>2
  <1> QED BY <1>1, <1>2, <1>3 DEF AInv

\* A step of the queue that writes no row and loses no worker that still runs.
LEMMA QueueOnly ==
  ASSUME AInv, NEW j \in Jobs, QueueStep(j), UNCHANGED <<rows, orphaned>>,
         txn' \in [Overrides -> TxnStates],
         Runs(jobs[j]) <= Runs(jobs'[j]),
         jobs'[j].ran \/ jobs'[j].state = "completed" => jobs[j].ran \/ jobs[j].state = "completed"
  PROVE  AInv'
  <1>1. /\ rows' = [rows EXCEPT ![j] = rows[j]] /\ orphaned' = [orphaned EXCEPT ![j] = orphaned[j]]
        /\ rows[j] \in Nat /\ orphaned[j] \in Nat
    BY RecordOf DEF AInv
  <1>2. jobs'[j] \in JobRecords
    BY QueueSteps DEF AInv, QueueInv, QueueTypeOK
  <1>3. Runs(jobs[j]) \in Nat /\ Runs(jobs'[j]) \in Nat
    BY <1>2, RecordOf, RecordFields DEF Runs
  <1>4. Kept(jobs'[j], rows[j], orphaned[j])
    BY <1>1, <1>3, RecordOf DEF Accounted, Kept
  <1>5. j \in NewerJobs => Untouched(jobs'[j], rows[j], orphaned[j])
    BY RecordOf DEF Accounted, Untouched
  <1> QED BY <1>1, <1>4, <1>5, OneJob

-----------------------------------------------------------------------------
LEMMA TxnTyped ==
  ASSUME AInv,
         \E o \in Overrides, s \in TxnStates : txn' = [txn EXCEPT ![o] = s]
  PROVE  txn' \in [Overrides -> TxnStates]
  BY DEF AInv

\* The override's transaction moves on; its job may be added.
LEMMA TransactionSteps ==
  ASSUME AInv, NEW o \in Overrides,
         WriteOverride(o) \/ QueueAudit(o) \/ QueueInvalidate(o) \/ Commit(o) \/ Rollback(o)
  PROVE  AInv'
  <1>1. txn' \in [Overrides -> TxnStates]
    <2>1. \E s \in TxnStates : txn' = [txn EXCEPT ![o] = s]
      BY DEF WriteOverride, QueueAudit, QueueInvalidate, Commit, Rollback, TxnStates
    <2> QED BY <2>1, TxnTyped
  <1>2. o \in Jobs
    BY DEF Overrides
  <1>3. CASE QueueAudit(o)
    <2>1. QueueStep(o) /\ UNCHANGED <<rows, orphaned>>
      BY <1>3 DEF QueueAudit, QueueStep
    <2>2. jobs'[o] = IF Is(o, "none") THEN [jobs[o] EXCEPT !.state = "waiting"] ELSE jobs[o]
      BY <1>2, <1>3, RecordOf DEF QueueAudit, Add
    <2>3. /\ Runs(jobs[o]) <= Runs(jobs'[o])
          /\ jobs'[o].ran \/ jobs'[o].state = "completed" => jobs[o].ran \/ jobs[o].state = "completed"
      BY <1>2, <2>2, RecordOf DEF Is, Runs, JobRecords
    <2> QED BY <1>1, <1>2, <2>1, <2>3, QueueOnly
  <1>4. CASE ~QueueAudit(o)
    <2>1. UNCHANGED <<jobs, rows, orphaned>>
      BY <1>4 DEF WriteOverride, QueueInvalidate, Commit, Rollback
    <2> QED BY <1>1, <2>1 DEF AInv, QueueInv, QueueTypeOK, Accounted
  <1> QED BY <1>3, <1>4

LEMMA AddNewerStep == ASSUME AInv, NEW j \in Jobs, AddNewer(j) PROVE AInv'
  <1>1. QueueStep(j) /\ UNCHANGED <<rows, orphaned>> /\ txn' \in [Overrides -> TxnStates]
    BY DEF AddNewer, QueueStep, AInv
  <1>2. jobs'[j] = [jobs[j] EXCEPT !.state = "waiting"]
    BY RecordOf DEF AddNewer, Add
  <1>3. /\ Runs(jobs[j]) <= Runs(jobs'[j])
        /\ jobs'[j].ran \/ jobs'[j].state = "completed" => jobs[j].ran \/ jobs[j].state = "completed"
    BY <1>2, RecordOf DEF AddNewer, Is, Runs, JobRecords
  <1> QED BY <1>1, <1>3, QueueOnly

\* Taking, finishing and retrying: no run begins or ends without being counted.
LEMMA PassiveSteps ==
  ASSUME AInv, NEW j \in Jobs, TakeAudit(j) \/ FinishAudit(j) \/ RetryAudit(j)
  PROVE  AInv'
  <1>1. QueueStep(j) /\ UNCHANGED <<rows, orphaned>> /\ txn' \in [Overrides -> TxnStates]
    BY DEF TakeAudit, FinishAudit, RetryAudit, QueueStep, AInv
  <1>2. /\ Runs(jobs[j]) <= Runs(jobs'[j])
        /\ jobs'[j].ran \/ jobs'[j].state = "completed" => jobs[j].ran \/ jobs[j].state = "completed"
    <2>1. CASE Take(j)
      <3>1. jobs'[j] = [jobs[j] EXCEPT !.state = "active"]
        BY <2>1, RecordOf DEF Take
      <3> QED BY <2>1, <3>1, RecordOf DEF Take, Is, Runs, JobRecords
    <2>2. CASE Complete(j)
      <3>1. jobs'[j] = [jobs[j] EXCEPT !.state = "completed", !.ran = FALSE]
        BY <2>2, RecordOf DEF Complete
      <3> QED BY <2>2, <3>1, RecordOf DEF Complete, Is, Runs, JobRecords
    <2>3. CASE RetryJob(j)
      <3>1. jobs'[j] = [jobs[j] EXCEPT !.state = "waiting", !.retries = @ + 1]
        BY <2>3, RecordOf DEF RetryJob
      <3> QED BY <2>3, <3>1, RecordOf DEF RetryJob, Is, Runs, JobRecords
    <2> QED BY <2>1, <2>2, <2>3 DEF TakeAudit, FinishAudit, RetryAudit
  <1> QED BY <1>1, <1>2, QueueOnly

\* What a run that threw or was lost leaves in the queue: it is counted, and has no effect
\* to come.
LEMMA Broken ==
  ASSUME AInv, NEW j \in Jobs, Throw(j) \/ Stall(j)
  PROVE  /\ QueueStep(j)
         /\ jobs'[j].ran = FALSE /\ jobs'[j].state # "completed"
         /\ Runs(jobs[j]) <= Runs(jobs'[j])
         /\ ~jobs[j].ran => Runs(jobs'[j]) = Runs(jobs[j]) + 1
  <1>1. QueueStep(j)
    BY DEF QueueStep
  <1>2. CASE Throw(j)
    <2>1. PICK next \in {"failed", "waiting"} :
            jobs'[j] = [jobs[j] EXCEPT !.made = @ + 1, !.state = next, !.ran = FALSE]
      BY <1>2, RecordOf DEF Throw
    <2> QED BY <1>1, <1>2, <2>1, RecordOf DEF Throw, Is, Runs, JobRecords
  <1>3. CASE Stall(j)
    <2>1. PICK next \in {"failed", "waiting"} :
            jobs'[j] = [jobs[j] EXCEPT !.stalls = @ + 1, !.state = next, !.ran = FALSE]
      BY <1>3, RecordOf DEF Stall
    <2> QED BY <1>1, <1>3, <2>1, RecordOf DEF Stall, Is, Runs, JobRecords
  <1> QED BY <1>2, <1>3

LEMMA BreakSteps ==
  ASSUME AInv, NEW j \in Jobs, RefuseVersion(j) \/ BreakOff(j) \/ WorkerDies(j)
  PROVE  AInv'
  <1>1. UNCHANGED <<rows, orphaned>> /\ txn' \in [Overrides -> TxnStates]
    BY DEF RefuseVersion, BreakOff, WorkerDies, AInv
  <1>2. Throw(j) \/ Stall(j)
    BY DEF RefuseVersion, BreakOff, WorkerDies
  <1> QED BY <1>1, <1>2, Broken, QueueOnly

LEMMA LoseLockStep == ASSUME AInv, NEW j \in Jobs, LoseLock(j) PROVE AInv'
  <1>1. /\ QueueStep(j) /\ jobs'[j].ran = FALSE /\ jobs'[j].state # "completed"
        /\ Runs(jobs'[j]) = Runs(jobs[j]) + 1
    BY Broken DEF LoseLock, Running
  <1>2. Runs(jobs[j]) \in Nat
    BY RecordOf DEF Runs
  <1>3. /\ rows' = [rows EXCEPT ![j] = rows[j]] /\ orphaned' = [orphaned EXCEPT ![j] = orphaned[j] + 1]
        /\ rows[j] \in Nat /\ orphaned[j] + 1 \in Nat /\ txn' \in [Overrides -> TxnStates]
    BY RecordOf DEF LoseLock, AInv
  <1>4. Kept(jobs'[j], rows[j], orphaned[j] + 1)
    BY <1>1, <1>2, RecordOf DEF Kept, Accounted
  <1>5. j \notin NewerJobs
    BY DEF LoseLock, Supported
  <1> QED BY <1>1, <1>3, <1>4, <1>5, OneJob

LEMMA WriteRowStep == ASSUME AInv, NEW j \in Jobs, WriteRow(j) PROVE AInv'
  <1>1. QueueStep(j) /\ j \notin NewerJobs /\ Running(j)
    BY DEF WriteRow, QueueStep, Supported
  <1>2. jobs'[j] = [jobs[j] EXCEPT !.ran = TRUE]
    BY RecordOf DEF WriteRow, Ran
  <1>3. Runs(jobs'[j]) = Runs(jobs[j]) + 1 /\ Runs(jobs[j]) \in Nat
    BY <1>1, <1>2, RecordOf DEF Running, Is, Runs, JobRecords
  <1>4. /\ rows' = [rows EXCEPT ![j] = rows[j] + 1] /\ orphaned' = [orphaned EXCEPT ![j] = orphaned[j]]
        /\ rows[j] + 1 \in Nat /\ orphaned[j] \in Nat /\ txn' \in [Overrides -> TxnStates]
    BY RecordOf DEF WriteRow, AInv
  <1>5. Kept(jobs'[j], rows[j] + 1, orphaned[j])
    BY <1>3, RecordOf DEF Kept, Accounted
  <1> QED BY <1>1, <1>4, <1>5, OneJob

LEMMA OrphanSteps ==
  ASSUME AInv, NEW j \in Jobs, OrphanWrites(j) \/ OrphanDies(j) PROVE AInv'
  <1>1. /\ orphaned' = [orphaned EXCEPT ![j] = orphaned[j] - 1] /\ orphaned[j] - 1 \in Nat
        /\ jobs' = jobs /\ txn' \in [Overrides -> TxnStates]
        /\ jobs'[j] = jobs[j]
    BY RecordOf DEF OrphanWrites, OrphanDies, AInv
  <1>2. PICK written \in {rows[j], rows[j] + 1} : rows' = [rows EXCEPT ![j] = written]
    <2>1. CASE OrphanWrites(j)
      BY <2>1 DEF OrphanWrites
    <2>2. CASE OrphanDies(j)
      BY <2>2 DEF OrphanDies, AInv
    <2> QED BY <2>1, <2>2
  <1>3. Runs(jobs[j]) \in Nat /\ written \in Nat
    BY <1>2, RecordOf DEF Runs
  <1>4. Kept(jobs'[j], written, orphaned[j] - 1)
    BY <1>1, <1>2, <1>3, RecordOf DEF Kept, Accounted
  <1>5. j \notin NewerJobs
    BY <1>1, RecordOf DEF Accounted, Untouched
  <1> QED BY <1>1, <1>2, <1>3, <1>4, <1>5, OneJob

-----------------------------------------------------------------------------
THEOREM AuditInvariance == Spec => []AInv
  <1>1. AInv /\ [Next]_vars => AInv'
    <2> SUFFICES ASSUME AInv, [Next]_vars PROVE AInv'
      OBVIOUS
    <2>1. CASE \E o \in Overrides : WriteOverride(o) \/ QueueAudit(o) \/ QueueInvalidate(o)
                                    \/ Commit(o) \/ Rollback(o)
      BY <2>1, TransactionSteps
    <2>2. ASSUME NEW j \in Jobs,
                 AddNewer(j) \/ Worker(j) \/ BreakOff(j) \/ WorkerDies(j) \/ RetryAudit(j)
                 \/ LoseLock(j) \/ OrphanWrites(j) \/ OrphanDies(j)
          PROVE  AInv'
      BY <2>2, AddNewerStep, PassiveSteps, BreakSteps, LoseLockStep, WriteRowStep, OrphanSteps
      DEF Worker
    <2>3. CASE UNCHANGED vars
      BY <2>3 DEF vars, AInv, QueueInv, QueueTypeOK, Accounted
    <2> QED BY <2>1, <2>2, <2>3 DEF Next, Finished
  <1> QED BY <1>1, Starts, PTL DEF Spec

THEOREM AuditTypeCorrect == Spec => []TypeOK
  <1>1. AInv => TypeOK
    BY DEF AInv, QueueInv, TypeOK
  <1> QED BY <1>1, AuditInvariance, PTL

\* A completed job wrote its row.
THEOREM Completed == Spec => []CompletedWrote
  <1>1. AInv => CompletedWrote
    BY RecordOf DEF AInv, CompletedWrote, Is, Accounted, Kept
  <1> QED BY <1>1, AuditInvariance, PTL

\* However attempts, lost workers and retries are mixed, the rows are at most the runs the
\* queue allows.
THEOREM Bounded == Spec => []RowsBounded
  <1>1. AInv => RowsBounded
    <2> SUFFICES ASSUME AInv, NEW j \in Jobs
                 PROVE  rows[j] <= Attempts + MaxStalls + jobs[j].retries
      BY DEF RowsBounded
    <2> DEFINE r == jobs[j]
    <2>1. rows[j] <= Runs(r)
      <3>1. Runs(r) \in Nat
        BY RecordOf DEF Runs
      <3> QED BY <3>1, RecordOf DEF Accounted, Kept
    <2>2. Runs(r) <= Attempts + MaxStalls + r.retries
      BY RecordOf, QueueAssumption DEF Runs, Budgeted
    <2> QED BY <2>1, <2>2, RecordOf, QueueAssumption DEF Runs
  <1> QED BY <1>1, AuditInvariance, PTL

\* A job of another version leaves nothing behind.
THEOREM Refused == Spec => []NewerNeverWritten
  <1>1. AInv => NewerNeverWritten
    BY RecordOf, AuditAssumption DEF AInv, NewerNeverWritten, Is, Accounted, Untouched
  <1> QED BY <1>1, AuditInvariance, PTL
=============================================================================
