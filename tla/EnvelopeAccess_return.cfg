\* A signer of two envelopes comes back, in two requests at a time.
SPECIFICATION Spec
CONSTANTS
  e1 = e1
  e2 = e2
  w1 = w1
  w2 = w2
  Envelopes <- TwoEnvelopes
  Workers <- TwoWorkers
  FailLimit = 2
  MaxRequests = 4
  MaxFaults = 1
SYMMETRY Symmetry
CHECK_DEADLOCK FALSE
INVARIANTS
  TypeOK
  LockHolds
  PassIsCurrent
  CodeSpentOnce
  
