CONSTANTS
  Task = {t1, t2}
  Name = {actor, job, untyped}
  Content = {known, proposed, completed}
  actor = actor
  job = job
  untyped = untyped
  known = known
  proposed = proposed
  completed = completed
  Extracts <- MCExtracts
  Open = open
  None = none
  MaxLog = 3
  MaxBatch = 2
  MaxFaults = 1
  MaxTools = 2
SPECIFICATION Spec
CHECK_DEADLOCK FALSE
INVARIANTS
  TypeOK
  PresentIsOne
  GraphTellsLog
PROPERTIES
  ReprojectionRestores
