CONSTANTS
  Process = {p1}
  Cell = {c1, c2, c3}
  NoKek = none
  NoCell = nocell
  MaxForgets = 3
  MaxFailures = 2
  MaxCrashes = 2
SPECIFICATION Spec
CHECK_DEADLOCK FALSE
INVARIANTS
  TypeOK
  KeptReadable
  ForgettingOnRecord
  KeysStayDestroyed
