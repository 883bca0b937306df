SPECIFICATION Spec
CONSTANTS
  s1 = s1
  s2 = s2
  w1 = w1
  w2 = w2
  NoSigner = NoSigner
  Signers <- TwoSigners
  Order <- FirstThenSecond
  Workers <- TwoWorkers
  Sequential = TRUE
  Consumers = {}
  Locked = {}
  SealMayStall = FALSE
  MaxDispatches = 1
  MaxSignatures = 2
  MaxFaults = 1
  Ops = {"send", "void", "view", "submit", "resubmit", "withdraw", "decline", "sweep"}
CHECK_DEADLOCK FALSE
SYMMETRY Symmetry
INVARIANTS SealedByAll SignedInOrder OneSealer SealedOnce InvitedInTurn
PROPERTY ImplementsLedger
