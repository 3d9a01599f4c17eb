SPECIFICATION Spec
CONSTANTS
  limit = 2
  NoCursor = NoCursor
  Zones <- Offsets
  MaxMatches = 5
  MaxTime = 2
  MaxFlips = 1
  MaxPages = 4
INVARIANTS PagesDescend NothingSkipped
