SPECIFICATION Spec
CONSTANTS
  quorum = quorum correction = correction deletion = deletion
  users = users pairs = pairs page = page
  NoEntry = NoEntry
  Quorums = {quorum}
  Corrections = {}
  Deletions = {}
  Jobs = {quorum}
  Keys = {users}
  Readers = {page}
  MaxReads = 1
  Failures = FALSE
  Attempts = 3
  MaxStalls = 1
  MaxRetries = 0
INVARIANTS SweptMeansFresh
