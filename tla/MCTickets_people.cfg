CONSTANTS
  a1 = a1
  r1 = r1
  r2 = r2
  Assignee = {a1}
  Group = {a1}
  Unassigned = Unassigned
  NoRun = NoRun
  None = None
  AnyVersion = AnyVersion
  SlaHours <- MCSlaHours
  DueSoon = 1
  Caller = {c1, c2}
  Ops = {"patch", "comment", "sla", "delete"}
  Patch <- PeoplePatch
  Run = {}
  StaffRole = {"admin", "technician"}
  MaxVersion = 2
  MaxComments = 1
  MaxTime = 1
  MaxAttempts = 2
  MaxBatches = 3
SPECIFICATION Spec
SYMMETRY Callers
VIEW Memory
CHECK_DEADLOCK FALSE
INVARIANTS
  VersionPinsContent
  ResolvedAtIffTerminal
PROPERTIES
  HistoryIsTrue
  StatusAnnounced
  WorkflowHonoured
  ConditionalNeverStale
  BreachedOnce
