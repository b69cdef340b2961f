CONSTANTS
  c1 = c1  c2 = c2  c3 = c3
  n1 = n1  n2 = n2
  shop = shop  other = other
  Calls = {c1, c2, c3}
  Nodes = {n1}
  Counterparties = {shop, other}
  Actions <- ManyActions
  Capabilities <- AllCapabilities
  MintTerms <- NoLimits
  Limits <- ExpiringLimits
  PrincipalOps = {"updatePolicy", "revoke", "allow"}
  MaxPrincipalOps = 2
  Discipline = "settled"
SPECIFICATION Spec
SYMMETRY CallSymmetry
INVARIANTS TypeOK AllowedSound DeniedNeverCommits FastDenyFinal NoDoomedTransaction
PROPERTIES FastDenyJustified KeepsPromise
CHECK_DEADLOCK FALSE
