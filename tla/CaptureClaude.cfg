CONSTANTS
  Importer = {p1, p2}
  Watcher = {p1}
  Client = "claude"
  Window = 2
  a = a
  ProducerRef = {a}
  NoRef = noRef
  Batches <- MCBatches
  MaxRecords = 3
  MaxIngests = 2
  MaxCuts = 1
SPECIFICATION FairSpec
CHECK_DEADLOCK FALSE
INVARIANTS
  TypeOK
  CapturedFaithfully
PROPERTIES
  ReturnedIsImported
  EventuallyImported
