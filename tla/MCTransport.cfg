SPECIFICATION FairSpec
CONSTANTS
  c1 = c1
  c2 = c2
  Calls = {c1, c2}
  Answers = {"result", "error"}
  MaxAnswers = 2
INVARIANTS
  TypeOK
  PendingIsExact
  ReaderStuckOnlyByDuplicates
PROPERTIES
  RefinesRpc
  CallsEnd
CHECK_DEADLOCK FALSE
