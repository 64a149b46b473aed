\* One ticket at three versions, two workers, and one thing that goes wrong; a call
\* may cost one unit or two, and the cap is one.
SPECIFICATION FairSpec
CONSTANTS
  Ticket = {t1}
  None = None
  Worker = {w1, w2}
  Editor = {e1}
  Mode = {"off", "assist"}
  MAX_ATTEMPTS = 2
  STALE_RUN = 1
  AGENT_LOCK = 2
  RetryWait = 1
  BreakerFailures = 1
  Cooldown = 2
  DailyCap = 1
  MaxCost = 2
  HourlyLimit = 3
  MaxVersion = 2
  MaxTroubles = 1
INVARIANTS
  OneRunPerVersion
  SpendBounded
  MarkAndProposalAgree
PROPERTIES
  ResultKept
  EventsSettle
CHECK_DEADLOCK FALSE
