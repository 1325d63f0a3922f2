CONSTANTS
  Importer = {p1}
  Watcher = {p1}
  Client = "codex"
  Window = 2
  a = a
  ProducerRef = {a}
  NoRef = noRef
  Batches = {}
  MaxRecords = 2
  MaxIngests = 0
  MaxCuts = 0
SPECIFICATION Spec
CHECK_DEADLOCK FALSE
PROPERTIES
  ReturnedIsImported
