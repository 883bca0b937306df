SPECIFICATION Spec
CONSTANTS
  s1 = s1
  s2 = s2
  w1 = w1
  w2 = w2
  NoSigner = NoSigner
  Signers <- TwoSigners
  Order <- FirstThenSecond
  Workers <- OneWorker
  Sequential = TRUE
  Consumers = {s2}
  Locked = {s1}
  SealMayStall = TRUE
  MaxDispatches = 2
  MaxSignatures = 2
  MaxFaults = 2
  Ops = {"send", "remind", "void", "view", "consent", "submit", "resubmit", "withdraw", "decline", "sweep"}
CHECK_DEADLOCK FALSE
INVARIANTS TypeOK SignedWithEvidence CompletedAllSigned ExecutedIsRecorded
