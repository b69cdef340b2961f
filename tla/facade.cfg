CONSTANTS
  n1 = n1  n2 = n2
  Nodes = {n1}
  Scripts <- AllScripts
  Standing <- Standing2
  Malformed = {"bad"}
  ContextHash <- MCContextHash
  SameContext <- MCSameContext
  Utf16 <- MCUtf16
  CodePoint <- MCCodePoint
  ArrayIndex <- MCArrayIndex
SPECIFICATION FairSpec
INVARIANTS TypeOK MintReadsBack RevokeReadsBack AttestReadsBack TamperEvident AttestBinds AllowlistScoped
PROPERTIES EveryCallEnds
CHECK_DEADLOCK FALSE
