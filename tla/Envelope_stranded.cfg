SPECIFICATION RetrySpec
CONSTANTS
  s1 = s1
  s2 = s2
  w1 = w1
  w2 = w2
  NoSigner = NoSigner
  Signers <- TwoSigners
  Order <- FirstThenSecond
  Workers <- TwoWorkers
  Sequential = FALSE
  Consumers = {}
  Locked = {}
  SealMayStall = FALSE
  MaxDispatches = 1
  MaxSignatures = 1
  MaxFaults = 1
  Ops = {"send", "submit", "resubmit", "sweep"}
CHECK_DEADLOCK FALSE
PROPERTY SealingEnds
