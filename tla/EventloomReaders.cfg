CONSTANTS
  Writer = {w1, w2, w3}
  Reader = {r1}
  NoHash = NoHash
  Nobody = Nobody
  MaxOps = 1
  MaxBatch = 2
  MaxReplays = 1
SPECIFICATION Spec
CHECK_DEADLOCK FALSE
INVARIANTS
  ReadsSettled
  FollowerExact
