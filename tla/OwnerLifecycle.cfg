CONSTANTS
  Process = {s1, s2, s3, d1}
  Server = {s1, s2, s3}
  Reaping = {s1, s2, s3}
  Nobody = none
  MaxCrashes = 2
  MaxBreaks = 1
SPECIFICATION OwnerSpec
CHECK_DEADLOCK FALSE
INVARIANTS
  OwnerTypeOK
  OneOwner
  BrokenIsReaped
PROPERTIES
  ReapsOnlyUnreachable
