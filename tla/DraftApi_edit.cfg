\* The drafts of one account, under two requests at a time.
SPECIFICATION Spec
CONSTANTS
  d1 = d1
  d2 = d2
  p1 = p1
  p2 = p2
  w1 = w1
  w2 = w2
  Docs <- TwoDocs
  Parties <- TwoParties
  Workers <- TwoWorkers
  SignerLists <- Lists
  RecipientLists <- Recipients
  FirstSigners <- Together
  MaxRequests = 3
  MaxFaults = 1
SYMMETRY Symmetry
CHECK_DEADLOCK FALSE
INVARIANTS
  TypeOK
  
  SentWithLinks
  NoOrphans
PROPERTIES
  SentIsKept
  EffectsAuthorised
