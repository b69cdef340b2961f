CONSTANTS
  c1 = c1  c2 = c2  c3 = c3
  n1 = n1  n2 = n2
  shop = shop  other = other
  Calls = {c1}
  Nodes = {n1}
  Counterparties = {shop, other}
  Actions <- OneActions
  Capabilities <- NotYetMinted
  MintTerms <- OpenCapability
  Limits <- TwoLimits
  PrincipalOps = {"mint"}
  MaxPrincipalOps = 1
  Discipline = "quiet"
SPECIFICATION Spec
SYMMETRY CallSymmetry
INVARIANTS DeniedNeverCommits
CHECK_DEADLOCK FALSE
