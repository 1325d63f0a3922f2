CONSTANTS
  Process = {p1, p2}
  Worker = {w1}
  Name = {n1}
  Claim <- MCClaim
  k1 = k1
  v1 = v1
  v2 = v2
  NoKey = noKey
  Status = {"accepted", "rejected"}
  MaxReports = 2
  MaxCalls = 2
  Batches <- MCBatches
  MaxAborts = 1
SPECIFICATION Spec
CHECK_DEADLOCK FALSE
INVARIANTS
  TypeOK
  PromotionsReviewed
  NoLeakWithOwnIds
  ConflictsOnce
  BatchApplies
