CONSTANTS
  t1 = t1
  t2 = t2
  p1 = p1
  Thread = {t1, t2}
  Process = {p1}
  Home <- OneProcess
  Lanes = {"replay", "index"}
  None = none
  Raised = raised
  Threshold = 1
  MaxAppends = 3
  MaxSize = 3
  MaxRewrites = 1
  MaxCalls = 3
SPECIFICATION Spec
CHECK_DEADLOCK FALSE
INVARIANTS
  TypeOK
  ResultIsOfCall
