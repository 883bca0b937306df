\* Two requests at a time, four of them.
SPECIFICATION Spec
CONSTANTS
  w1 = w1
  w2 = w2
  l1 = l1
  Workers <- TwoWorkers
  Links <- OneLink
  SignupsOpen = TRUE
  FailLimit = 2
  MaxSteps = 2
  MaxRequests = 4
  MaxFaults = 1
SYMMETRY Symmetry
CHECK_DEADLOCK FALSE
INVARIANTS
  TypeOK
  LinkOpensOnce
  NoWayRound
  SuspensionEndsSessions
  CodeAcceptedOnce
