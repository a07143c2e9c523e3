SPECIFICATION FairSpec
CONSTANTS
  Requests = {r1, r2, r3}
  Threshold = 3
  Timeout = 3
INVARIANTS
  TypeOK
  TrippedIffThreshold
PROPERTIES
  FailedProbeReopens
  ClosesAfterRecovery
