CONSTANTS
  Manager = {m1, m2}
  Agent = {a1}
  f1 = f1
  f2 = f2
  f3 = f3
  k1 = k1
  v1 = v1
  v2 = v2
  v3 = v3
  Promotion = {f1, f2, f3}
  Claim <- MCClaim
  Claims <- MCClaims
  NoKey = noKey
  None = none
  MaxGovernance = 2
  MaxCalls = 4
  MaxAborts = 1
SPECIFICATION Spec
CHECK_DEADLOCK FALSE
INVARIANTS
  TypeOK
  HeldUntilAccepted
  ConflictsSettled
PROPERTIES
  KeystoneStands
  ChangesJustified
