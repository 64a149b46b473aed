CONSTANTS
  a1 = a1
  r1 = r1
  r2 = r2
  Assignee = {a1}
  Group = {a1}
  Unassigned = Unassigned
  NoRun = NoRun
  None = None
  AnyVersion = AnyVersion
  SlaHours <- MCSlaHours
  DueSoon = 1
  Caller = {c1, c2}
  Ops = {"patch", "comment", "sla", "delete", "agent", "escalate", "resolve", "decide"}
  Patch <- DeskPatch
  Run = {r1}
  StaffRole = {"technician"}
  MaxVersion = 1
  MaxComments = 1
  MaxTime = 0
  MaxAttempts = 2
  MaxBatches = 3
SPECIFICATION FairSpec
CHECK_DEADLOCK FALSE
PROPERTIES
  DeskSpec
  CallsFinish
