\* Two tabs, two calls and two role changes at once, three refresh tokens.
SPECIFICATION Spec
CONSTANTS
  User = {u1, u2}
  Founding <- AllAdmins
  None = None
  Tab = {b1, b2}
  Request = {r1, r2}
  Change <- Demotions
  MaxSignIns = 2
  MaxTokens = 3
SYMMETRY Symmetric
INVARIANTS
  OneLivePerFamily
  EndedIsEnded
  SomeAdmin
  ReuseExplained
CHECK_DEADLOCK FALSE
