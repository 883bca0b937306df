\* Sign-up by Google.
SPECIFICATION Spec
CONSTANTS
  w1 = w1
  w2 = w2
  l1 = l1
  Workers <- TwoWorkers
  Links <- OneLink
  SignupsOpen = TRUE
  FailLimit = 2
  MaxSteps = 1
  MaxRequests = 2
  MaxFaults = 0
CHECK_DEADLOCK FALSE
INVARIANT GoogleIsVerified
