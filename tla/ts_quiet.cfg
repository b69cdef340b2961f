CONSTANTS
  c1 = c1  c2 = c2  c3 = c3
  n1 = n1  n2 = n2
  shop = shop  other = other
  Calls = {c1, c2}
  Nodes = {n1, n2}
  Counterparties = {shop, other}
  Actions <- OneActions
  Capabilities <- NotYetMinted
  MintTerms <- MintedCapabilities
  Limits <- TwoLimits
  PrincipalOps = {"mint", "updatePolicy", "allow"}
  MaxPrincipalOps = 2
  Discipline = "quiet"
SPECIFICATION FairSpec
INVARIANTS AllowedSound
PROPERTIES VisibleDenyJustified EveryCallEnds
CHECK_DEADLOCK FALSE
