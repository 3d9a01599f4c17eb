SPECIFICATION FairSpec
CONSTANTS
  override = override newer = newer
  Jobs = {override, newer}
  NewerJobs = {newer}
  Attempts = 3
  MaxStalls = 1
  MaxRetries = 2
  Failures = TRUE
INVARIANTS CompletedWrote RowsBounded NewerNeverWritten
PROPERTIES JobsSettle
