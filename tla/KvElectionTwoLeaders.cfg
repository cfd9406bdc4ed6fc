SPECIFICATION MCSpec
CONSTANTS
  s0 = s0
  s1 = s1
  s2 = s2
  s3 = s3
  s4 = s4
  Server <- MCServer
  FirstLeaders <- MCLed
  MaxBatch = 2
  MaxTerm = 2
  MaxInFlight = 2
  MaxCrashes = 1
SYMMETRY MCSymmetry
CHECK_DEADLOCK FALSE
INVARIANT
  OneLeaderPerTerm
ACTION_CONSTRAINT MCWhole
