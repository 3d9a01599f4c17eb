---------------------------- MODULE AuditPipeline ----------------------------
(***************************************************************************)
(* The audit trail of result overrides. Each override writes an audit row  *)
(* in its own transaction and, before it commits, adds an audit-log-write  *)
(* job; AuditLogProcessor in the worker writes a row for each run of it.   *)
(* A job's id is its override's. NewerJobs are added by a release that     *)
(* numbers its envelopes 2, while this worker is still running.            *)
(***************************************************************************)
EXTENDS JobQueue

CONSTANTS
  NewerJobs,     \* jobs whose envelope has a version other than 1
  Failures       \* whether awaited calls may fail and processes may die

ASSUME AuditAssumption == NewerJobs \subseteq Jobs /\ Failures \in BOOLEAN

VARIABLES
  txn,           \* how far each override's transaction is
  rows,          \* audit_logs: how many rows the worker wrote for each override
  orphaned       \* runs of each job whose worker lost it and may still be alive

vars == <<jobs, txn, rows, orphaned>>
Overrides == Jobs \ NewerJobs
TxnStates == {"idle", "written", "queued", "announced", "committed", "aborted"}

Init == /\ QueueInit /\ txn = [o \in Overrides |-> "idle"]
        /\ rows = [j \in Jobs |-> 0]
        /\ orphaned = [j \in Jobs |-> 0]

\* Inside the transaction: the score, and the audit row.
WriteOverride(o) ==
  /\ txn[o] = "idle" /\ txn' = [txn EXCEPT ![o] = "written"]
  /\ UNCHANGED <<jobs, rows, orphaned>>

\* auditQueue.add, before the commit.
QueueAudit(o) ==
  /\ txn[o] = "written" /\ txn' = [txn EXCEPT ![o] = "queued"]
  /\ Add(o)
  /\ UNCHANGED <<rows, orphaned>>

\* leaderboardQueue.add, still before the commit.
QueueInvalidate(o) ==
  /\ txn[o] = "queued" /\ txn' = [txn EXCEPT ![o] = "announced"]
  /\ UNCHANGED <<jobs, rows, orphaned>>

Commit(o) ==
  /\ txn[o] = "announced" /\ txn' = [txn EXCEPT ![o] = "committed"]
  /\ UNCHANGED <<jobs, rows, orphaned>>

\* Anything in the transaction throws, the commit included: the rows it wrote are gone,
\* the jobs it added are not.
Rollback(o) ==
  /\ Failures
  /\ txn[o] \in {"written", "queued", "announced"} /\ txn' = [txn EXCEPT ![o] = "aborted"]
  /\ UNCHANGED <<jobs, rows, orphaned>>

AddNewer(j) ==
  /\ j \in NewerJobs /\ Is(j, "none") /\ Add(j)
  /\ UNCHANGED <<txn, rows, orphaned>>

-----------------------------------------------------------------------------
SupportedAll(j) == TRUE
Supported(j) == j \notin NewerJobs

TakeAudit(j) == Take(j) /\ UNCHANGED <<txn, rows, orphaned>>

\* The INSERT commits: one row for each run, whatever earlier runs wrote.
WriteRow(j) ==
  /\ Running(j) /\ Supported(j)
  /\ rows' = [rows EXCEPT ![j] = @ + 1]
  /\ Ran(j)
  /\ UNCHANGED <<txn, orphaned>>

FinishAudit(j) == Complete(j) /\ UNCHANGED <<txn, rows, orphaned>>

\* The version check throws.
RefuseVersion(j) == ~Supported(j) /\ Throw(j) /\ UNCHANGED <<txn, rows, orphaned>>

\* The INSERT is refused, or commits and its answer is lost.
BreakOff(j) == Failures /\ Throw(j) /\ UNCHANGED <<txn, rows, orphaned>>

WorkerDies(j) == Failures /\ Stall(j) /\ UNCHANGED <<txn, rows, orphaned>>

\* The worker lives but was too busy to renew its lock on the job (lockDuration), which
\* goes to another; what it had begun goes on ...
LoseLock(j) ==
  /\ Failures /\ Running(j) /\ Supported(j)
  /\ Stall(j)
  /\ orphaned' = [orphaned EXCEPT ![j] = @ + 1]
  /\ UNCHANGED <<txn, rows>>

\* ... up to its INSERT. BullMQ refuses what it reports after that.
OrphanWrites(j) ==
  /\ orphaned[j] > 0
  /\ orphaned' = [orphaned EXCEPT ![j] = @ - 1]
  /\ rows' = [rows EXCEPT ![j] = @ + 1]
  /\ UNCHANGED <<jobs, txn>>

\* ... or dies after all.
OrphanDies(j) ==
  /\ Failures /\ orphaned[j] > 0
  /\ orphaned' = [orphaned EXCEPT ![j] = @ - 1]
  /\ UNCHANGED <<jobs, txn, rows>>

RetryAudit(j) == RetryJob(j) /\ UNCHANGED <<txn, rows, orphaned>>

Worker(j) == TakeAudit(j) \/ WriteRow(j) \/ FinishAudit(j) \/ RefuseVersion(j)

Finished ==
  /\ \A o \in Overrides : txn[o] \in {"committed", "aborted"}
  /\ \A j \in Jobs : Settled(j) \/ (Is(j, "none") /\ j \in Overrides /\ txn[j] = "aborted")
  /\ UNCHANGED vars

Next ==
  \/ \E o \in Overrides : WriteOverride(o) \/ QueueAudit(o) \/ QueueInvalidate(o)
                          \/ Commit(o) \/ Rollback(o)
  \/ \E j \in Jobs : AddNewer(j) \/ Worker(j) \/ BreakOff(j) \/ WorkerDies(j) \/ RetryAudit(j)
                 \/ LoseLock(j) \/ OrphanWrites(j) \/ OrphanDies(j)
  \/ Finished

Spec == Init /\ [][Next]_vars
\* Some worker runs, and takes the jobs in turn.
FairSpec == Spec /\ \A j \in Jobs : WF_vars(Worker(j))

-----------------------------------------------------------------------------
TypeOK ==
  /\ QueueTypeOK
  /\ txn \in [Overrides -> TxnStates] /\ rows \in [Jobs -> Nat] /\ orphaned \in [Jobs -> Nat]

\* A completed job left its row, however many runs of it threw or died: no run is taken
\* for a success that was none (audit-log.processor.ts:22-50).
CompletedWrote == \A j \in Jobs : Is(j, "completed") => rows[j] >= 1

\* How often a job that is not idempotent can have run: its attempts, the workers it
\* lost, and what administrators asked for (queue-config.ts:3-6); a run that lost its job
\* and writes after the job was run again, or retried, is one of them.
RowsBounded ==
  \A j \in Jobs : rows[j] <= Attempts + MaxStalls + jobs[j].retries

\* "consumers MUST check version before destructuring payload" (event-envelope.ts:3):
\* a job of another version leaves nothing behind, also after retries.
NewerNeverWritten == \A j \in NewerJobs : rows[j] = 0 /\ ~Is(j, "completed")

\* No job is lost or tried for ever: it is done or in the DLQ in the end.
JobsSettle == \A j \in Jobs : Is(j, "waiting") ~> Settled(j)

\* "so it rolls back with the match update" (admin-override.service.ts:74): no audit row
\* tells of an override that was rolled back.
NoRowWithoutOverride ==
  \A o \in Overrides : txn[o] = "aborted" => rows[o] = 0
=============================================================================
