SPECIFICATION FairSpec
CONSTANTS
  a = a
  b = b
  Servers <- MCServers
  Fds <- MCFds
  Again = FALSE
  MaxTyped = 2
  MaxAnswers = 2
  MaxWins = 2
  MaxCrashes = 2
CHECK_DEADLOCK FALSE
INVARIANTS
  PointersOpen
  CurIsChosen
  OneRole
PROPERTIES
  StoppedIsDropped
