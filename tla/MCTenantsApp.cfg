SPECIFICATION Spec
CONSTANTS
  main = main
  acme = acme
  duda = duda
  k1 = k1
  k2 = k2
  None = None
  Name = {main, acme, duda}
  Installation = {main, acme}
  Key = {k1, k2}
  Seeds <- TwoTenants
  Existing <- Accounts
  Deployed = {main}
  Request = {1, 2}
  Visitor = {1}
  Watched = main
  MaxAttempts = 2
  CacheTtl = 1
  MaxLookup = 1
  MaxAccount = 4
  MaxEvents = 3
INVARIANT AccountHasOneApp
