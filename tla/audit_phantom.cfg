SPECIFICATION Spec
CONSTANTS
  override = override newer = newer
  Jobs = {override}
  NewerJobs = {}
  Attempts = 3
  MaxStalls = 1
  MaxRetries = 0
  Failures = TRUE
INVARIANTS NoRowWithoutOverride
