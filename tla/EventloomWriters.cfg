CONSTANTS
  Writer = {w1, w2}
  Reader = {}
  NoHash = NoHash
  Nobody = Nobody
  MaxOps = 2
  MaxBatch = 2
  MaxReplays = 0
SPECIFICATION FairSpec
CHECK_DEADLOCK FALSE
INVARIANTS
  TypeOK
  ChainUnbroken
  AckedDurable
PROPERTIES
  TornTailIsFinal
  ImplementsAppendOnlyLog
  EveryCallEnds
