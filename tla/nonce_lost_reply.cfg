CONSTANTS
  s1 = s1  s2 = s2  s3 = s3  s4 = s4
  agent = agent  treasury = treasury
  None = None
  Calls = {s1, s2}
  Addrs = {treasury}
  Signer <- OneSigner
  Lossy = {treasury}
  DrainedRestart = TRUE
  InitialNonces = {0, 2}
  MaxRestarts = 0
  Hung = {}
SPECIFICATION Spec
INVARIANTS NonceNeverReused
CHECK_DEADLOCK FALSE
