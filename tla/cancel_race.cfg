SPECIFICATION Spec
CONSTANTS
  ann = ann bob = bob cyd = cyd dan = dan
  tab1 = tab1 tab2 = tab2 phone = phone desk = desk
  s1 = s1 s2 = s2 s3 = s3 s4 = s4
  zero = zero one = one
  NoSlot = NoSlot NoScore = NoScore NotGiven = NotGiven NoCall = NoCall NoRow = NoRow NoClient = NoClient
  Clients = {tab1, phone, desk}
  Users = {ann, bob, cyd}
  Creator = ann
  Admins = {}
  Slots = {s1, s2, s3}
  Scores = {zero, one}
  Capacity = 2
  Workload <- Cancelling
  InitRow <- Submitted
  InitPlayers <- Two
  MaxRequests = 3
  PoolSize = 10
  Failures = FALSE
PROPERTIES ConfirmedIsFinal
