SPECIFICATION FairSpec
CONSTANTS
  u1 = u1
  u2 = u2
  User <- MCTwo
  b1 = b1
  b2 = b2
  Link <- MCLinks
  Nobody = Nobody
  FirstFd = 1
  MAX_EVENT = 4
  Kind = {"ask", "once", "show", "slaveof"}
  MaxPackets = 3
  MaxGone = 1
  MaxSlaveof = 2
CHECK_DEADLOCK FALSE
INVARIANTS RunOnce AnswersOwn OneShot CmdAlive
PROPERTY LatestAnswered
ACTION_CONSTRAINTS MCOneBatch MCFirstUser MCFirstLink
