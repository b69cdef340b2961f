CONSTANTS
  w1 = w1  w2 = w2  w3 = w3
  pay = pay  payAgain = payAgain
  None = None
  Calls = {w1, w2, w3}
  Payload <- TwoPayloads
  MaxOutside = 1
SPECIFICATION FairSpec
INVARIANTS TypeOK AtMostOnce OwnTransaction NonceUnique NoGap
PROPERTIES CacheMonotone EveryCallEnds
CHECK_DEADLOCK FALSE
