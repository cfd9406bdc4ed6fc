SPECIFICATION StreamSpec
CONSTANTS
  Line <- MCLines
  MaxLines = 3
  BufferSize = 40
CHECK_DEADLOCK FALSE
INVARIANTS RunsSegments EntryReplays AnswersFit
ACTION_CONSTRAINTS MCTypedFirst MCReadsAtOnce MCThreeTidy
