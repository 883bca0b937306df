SPECIFICATION Spec
CONSTANTS
  a1 = a1
  a2 = a2
  w1 = w1
  w2 = w2
  Addresses <- TwoAddresses
  Workers <- TwoWorkers
  FailLimit = 2
  RateLimit = 4
  MaxAnswers = 6
  MaxLapses = 2
  MaxFaults = 1
CHECK_DEADLOCK FALSE
INVARIANTS TypeOK GuessesBounded LockedByOwnAnswers LockedInTime
