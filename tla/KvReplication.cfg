SPECIFICATION FairSpec
CONSTANTS
  s1 = s1
  s2 = s2
  s3 = s3
  k = k
  a = a
  b = b
  Server <- MCTwo
  FirstLeader = s1
  User = User
  Key <- MCKey
  Value <- MCValue
  Nil = Nil
  NoCommand = NoCommand
  Workload <- MCSetFlush
  MaxUserBatch = 1
  MaxBatch = 3
  MaxInFlight = 2
  MaxTimeouts = 0
  MaxCrashes = 0
  MaxLoad = 9
CHECK_DEADLOCK FALSE
PROPERTIES ReplicatesLog FollowersCatchUp
