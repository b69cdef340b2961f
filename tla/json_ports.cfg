CONSTANTS
  n1 = n1  n2 = n2
  Nodes = {n1}
  Scripts <- PortScripts
  Standing <- Standing2
  Malformed = {"bad"}
  ContextHash <- MCContextHash
  SameContext <- MCSameContext
  Utf16 <- MCUtf16
  CodePoint <- MCCodePoint
  ArrayIndex <- MCArrayIndex
SPECIFICATION Spec
INVARIANTS AttestReadsBack
CHECK_DEADLOCK FALSE
