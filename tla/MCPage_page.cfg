\* One ticket on a page: two calls in any order, the requester also writing elsewhere.
SPECIFICATION Spec
CONSTANTS
  Call = {c1, c2}
  None = None
  Over = Over
  Sent = Sent
  Absent = Absent
  MaxChanges = 3
  MaxMoves = 2
SYMMETRY Symmetric
INVARIANTS
  QuietShowsServer
  EditSawItsVersion
CHECK_DEADLOCK FALSE
