\* One article, two turns of two calls, a change of the settings, two versions by others.
SPECIFICATION FairSpec
CONSTANTS
  None = None
  Article = {a1}
  AutoAvailable = TRUE
  MaxSteps = 2
  MaxCalls = 2
  MaxUpdates = 1
  MaxEdits = 2
INVARIANTS
  OneConclusion
  OutcomeTrue
PROPERTIES
  ModeHonoured
  OwnerKept
  RunEnds
CHECK_DEADLOCK FALSE
