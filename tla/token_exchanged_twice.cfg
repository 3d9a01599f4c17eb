SPECIFICATION Spec
CONSTANTS
  ann = ann bob = bob tab = tab phone = phone
  Clients = {tab, phone}
  Users = {ann}
  NoUser = NoUser
  MaxRequests = 3
  Failures = FALSE
SYMMETRY Symmetry
INVARIANTS SingleUse
