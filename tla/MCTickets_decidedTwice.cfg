CONSTANTS
  a1 = a1
  r1 = r1
  r2 = r2
  Assignee = {a1}
  Group = {a1}
  Unassigned = Unassigned
  NoRun = NoRun
  None = None
  AnyVersion = AnyVersion
  SlaHours <- MCSlaHours
  DueSoon = 1
  Caller = {c1, c2}
  Ops = {"patch", "agent", "decide"}
  Patch <- AgentPatch
  Run = {r1}
  StaffRole = {"technician"}
  MaxVersion = 3
  MaxComments = 0
  MaxTime = 0
  MaxAttempts = 1
  MaxBatches = 3
SPECIFICATION Spec
SYMMETRY Callers
VIEW Memory
CHECK_DEADLOCK FALSE
INVARIANTS
  ReplyPostedOnce
