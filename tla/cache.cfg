SPECIFICATION LeaderboardSpec
CONSTANTS
  quorum = quorum correction = correction deletion = deletion
  byUser = byUser byPair = byPair page = page other = other
  NoEntry = NoEntry
  Quorums = {quorum}
  Corrections = {correction}
  Deletions = {deletion}
  Jobs = {quorum, correction}
  Keys = {byUser, byPair}
  Readers = {page, other}
  MaxReads = 2
  Failures = TRUE
  Attempts = 1
  MaxStalls = 0
  MaxRetries = 1
  Members = {1, 2, 3}
  Fixtures = {1, 2}
  NoScore = NoScore
  NoTime = NoTime
  Now = 400
  Days = {34, 392, 393}
INVARIANTS OnlyCrossedFillsAreStale UserWinsCount PairWinsCount
SYMMETRY Symmetry
