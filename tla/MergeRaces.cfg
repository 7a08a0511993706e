\* Requests, merges, a push, failures and crashes in every order.
CONSTANTS
  Plain = Plain
  Config = Config
  Product = Product
  Dev = Dev
  Finished = {Config, Product}
  Conflict <- MCConflict
  Clients = {c1}
  Mergers = {m1, m2}
  MaxMerges = 2
  MaxPushes = 1
SPECIFICATION MergesSpec
SYMMETRY Symmetry
INVARIANTS ApprovedLandsOnce 
CHECK_DEADLOCK FALSE
