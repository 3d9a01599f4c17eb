SPECIFICATION FairSpec
CONSTANTS
  ann = ann bob = bob cyd = cyd dan = dan
  tab1 = tab1 tab2 = tab2 phone = phone desk = desk
  s1 = s1 s2 = s2 s3 = s3 s4 = s4
  zero = zero one = one
  NoSlot = NoSlot NoScore = NoScore NotGiven = NotGiven NoCall = NoCall NoRow = NoRow NoClient = NoClient
  Clients = {tab1, tab2, phone, desk}
  Users = {ann, bob, cyd, dan}
  Creator = ann
  Admins = {dan}
  Slots = {s1, s2, s3, s4}
  Scores = {zero, one}
  Capacity = 4
  Workload <- Voting
  InitRow <- Submitted
  InitPlayers <- Four
  MaxRequests = 4
  PoolSize = 2
  Failures = TRUE
INVARIANTS QuorumIsDecisive
PROPERTIES QuorumCommittedOnce RequestsAnswered QuorumAnnounced
