CONSTANTS
  c1 = c1  c2 = c2
  n1 = n1  n2 = n2
  shop = shop  other = other
  Counterparties = {shop, other}
  Calls = {c1}
  Nodes = {n1, n2}
  Actions <- LargeAction
  Capabilities <- OpenCapability
  MintTerms <- Mintable
  Limits <- TightLimits
  PrincipalOps = {}
  MaxPrincipalOps = 0
  Blocking = {}
  MaxAttempts = 1
  MaxFaults = 1
  MaxInt = 7
SPECIFICATION Spec
INVARIANTS DeniedNeverCommits
CHECK_DEADLOCK FALSE
