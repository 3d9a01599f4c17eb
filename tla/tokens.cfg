SPECIFICATION SessionsSpec
CONSTANTS
  ann = ann bob = bob tab = tab phone = phone old = old new = new
  Clients = {tab, phone}
  Users = {ann, bob}
  NoUser = NoUser
  Names = {old, new}
  NoAccount = NoAccount
  MaxRequests = 3
  Failures = TRUE
PROPERTIES SpentStaysSpent
INVARIANTS SessionsTypeOK ChainForward OnlyPresentedAreSpent ReplayRejected TokensHaveAccounts OnlyCrossedSignInsRevert ClaimsWereTrue LostOnlyByFailure
SYMMETRY Symmetry
