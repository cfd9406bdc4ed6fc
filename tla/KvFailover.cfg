SPECIFICATION Spec
CONSTANTS
  s1 = s1
  s2 = s2
  s3 = s3
  k = k
  a = a
  b = b
  Server <- MCThree
  FirstLeader = s1
  User = User
  Key <- MCKey
  Value <- MCValue
  Nil = Nil
  NoCommand = NoCommand
  Workload <- MCSets
  MaxUserBatch = 1
  MaxBatch = 2
  MaxInFlight = 0
  MaxTimeouts = 1
  MaxCrashes = 1
  MaxLoad = 2
CHECK_DEADLOCK FALSE
SYMMETRY MCSymmetry
CONSTRAINT MCLoad
ACTION_CONSTRAINT MCOneLoop
INVARIANTS TakeoverAgrees OnePlace
