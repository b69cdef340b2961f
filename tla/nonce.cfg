CONSTANTS
  s1 = s1  s2 = s2  s3 = s3  s4 = s4
  agent = agent  treasury = treasury
  None = None
  Calls = {s1, s2, s3, s4}
  Addrs = {agent, treasury}
  Signer <- TwoSigners
  Lossy = {agent}
  DrainedRestart = TRUE
  InitialNonces = {0, 2}
  MaxRestarts = 1
  Hung = {agent}
SPECIFICATION FairSpec
INVARIANTS TypeOK NonceUnique SucceededUnique NoGap
PROPERTIES IsAuthority DistinctParallel
CHECK_DEADLOCK FALSE
