\* Three golden tickets, or a mislabelled set, under every command line.
SPECIFICATION Spec
CONSTANTS
  Assignee = {}
  Unassigned = Unassigned
  Run = {}
  NoRun = NoRun
  None = None
  SlaHours <- MCSlaHours
  DueSoon = 1
  Files <- GoldenFiles
  SmokeIds = {"T001", "T002"}
  KnowledgeBase = {"KB-006", "KB-007"}
  Requests <- CommandLines
  RunCost = {1, 2}
  FAILURES = 2
  MaxSteps = 8
  MaxCited = 5
INVARIANTS
  CasesApart
  GreenIsEarned
  OracleIsPerfect
  SpendBounded
CHECK_DEADLOCK FALSE
