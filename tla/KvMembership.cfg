SPECIFICATION FairSpec
CONSTANTS
  s1 = s1
  s2 = s2
  s3 = s3
  Server <- MCServer
  Leader = s1
  MaxConns = 7
  MaxCrashes = 1
CHECK_DEADLOCK FALSE
INVARIANTS CountsServers OneConnection TablesLead
PROPERTY MeshCompletes
