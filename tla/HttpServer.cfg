SPECIFICATION FairSpec
CONSTANTS
  w1 = w1
  w2 = w2
  c1 = c1
  c2 = c2
  c3 = c3
  Workers <- MCWorkers
  Conns <- MCConns
  Fds <- MCFds
  MaxRequests = 0
  MaxUsers = 2
  NoConn = NoConn
CHECK_DEADLOCK FALSE
INVARIANTS
  TypeOK
  SemBacked
  OwnedOnce
PROPERTIES
  ClosedAfterAnswer
  TakenIsAnswered
