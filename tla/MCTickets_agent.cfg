CONSTANTS
  a1 = a1
  r1 = r1
  r2 = r2
  Assignee = {a1}
  Group = {a1}
  Unassigned = Unassigned
  NoRun = NoRun
  None = None
  AnyVersion = AnyVersion
  SlaHours <- MCSlaHours
  DueSoon = 1
  Caller = {c1, c2}
  Ops = {"patch", "agent", "escalate", "resolve", "decide"}
  Patch <- AgentPatch
  Run = {r1, r2}
  StaffRole = {"technician"}
  MaxVersion = 2
  MaxComments = 1
  MaxTime = 0
  MaxAttempts = 1
  MaxBatches = 3
SPECIFICATION Spec
SYMMETRY CallersAndRuns
VIEW Memory
CHECK_DEADLOCK FALSE
PROPERTIES
  StatusAnnounced
  AutoReplyAllowed
  TriageCredited
