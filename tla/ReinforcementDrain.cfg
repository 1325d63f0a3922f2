CONSTANTS
  Item = {s1, s2, s3}
  Flusher = {f1, f2}
  Task = task
  NoSpec = none
  MaxFailures = 2
SPECIFICATION FairSpec
CHECK_DEADLOCK FALSE
INVARIANTS
  TypeOK
  NothingLostAlone
  AppendsFaithful
PROPERTIES
  FlushReturns
