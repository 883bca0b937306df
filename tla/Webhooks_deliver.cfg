SPECIFICATION FairSpec
CONSTANTS
  h1 = h1
  sent = sent
  completed = completed
  Hooks <- OneHook
  Events <- TwoEvents
  Sent = sent
  Wants <- One
  MaxAttempts = 2
  DisableAfter = 2
  MaxEmits = 3
  MaxRotations = 2
  MaxFaults = 1
CHECK_DEADLOCK FALSE
INVARIANTS TypeOK DisabledByDeliveries LogTellsOutcome
PROPERTY DeliveriesEnd
