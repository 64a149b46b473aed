CONSTANTS
  Worker = {w1, w2, w3}
  NoWorker = NoWorker
  MAX_ATTEMPTS = 3
  MaxStalls = 2
  MaxCrashes = 2
  MaxRevivals = 1
SPECIFICATION FairSpec
INVARIANTS
  OneClaim
  DuplicatesExplained
PROPERTIES
  DeliverySpec
  Settles
CHECK_DEADLOCK FALSE
