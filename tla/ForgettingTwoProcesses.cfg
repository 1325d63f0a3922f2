CONSTANTS
  Process = {p1, p2}
  Cell = {c1, c2}
  NoKek = none
  NoCell = nocell
  MaxForgets = 1
  MaxFailures = 0
  MaxCrashes = 0
SPECIFICATION Spec
CHECK_DEADLOCK FALSE
INVARIANTS
  KeysStayDestroyed
