CONSTANTS
  c1 = c1  c2 = c2  c3 = c3
  n1 = n1  n2 = n2
  shop = shop  other = other
  Calls = {c1, c2}
  Nodes = {n1, n2}
  Counterparties = {shop, other}
  Actions <- OneActions
  Capabilities <- OpenCapability
  MintTerms <- NoLimits
  Limits <- TwoLimits
  PrincipalOps = {}
  MaxPrincipalOps = 0
  Discipline = "settled"
SPECIFICATION Spec
SYMMETRY CallSymmetry
INVARIANTS AllowedSound
CHECK_DEADLOCK FALSE
