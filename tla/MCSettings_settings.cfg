\* Two admins, two updates in any order, and the pages that go out of date.
SPECIFICATION Spec
CONSTANTS
  Admin = {a1, a2}
  Call = {k1, k2}
  Policy = {p0, p1}
  Default = p0
  Bad = Bad
  None = None
  Sent = Sent
  Over = Over
  MaxSpent = 1
  MaxMoves = 4
SYMMETRY Symmetric
INVARIANTS
  FormFollowsPage
PROPERTIES
  SwitchIntended
CHECK_DEADLOCK FALSE
