CONSTANTS
  c1 = c1  c2 = c2
  n1 = n1  n2 = n2
  shop = shop  other = other
  Counterparties = {shop, other}
  Calls = {c1, c2}
  Nodes = {n1}
  Actions <- ManyActions
  Capabilities <- Capabilities3
  MintTerms <- Mintable
  Limits <- TightLimits
  PrincipalOps = {"mint", "updatePolicy", "revoke"}
  MaxPrincipalOps = 1
  Blocking = {c2}
  MaxAttempts = 2
  MaxFaults = 2
  MaxInt = 3
SPECIFICATION FairSpec
INVARIANTS TypeOK ExactlyOnce AllowedSound DeniedNeverCommits NoDoomedTransaction
PROPERTIES KeepsPromise EveryCallEnds
CHECK_DEADLOCK FALSE
