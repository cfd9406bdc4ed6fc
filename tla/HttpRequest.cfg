SPECIFICATION RequestSpec
CONSTANTS
  Requests <- MCRequests
  LineSize = 12
  Disk <- MCDisk
  Plain <- MCPlain
  Code <- MCCode
CHECK_DEADLOCK FALSE
INVARIANTS
  HeadIsRead
  AnswerFits
  LinksLead
