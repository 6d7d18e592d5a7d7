SPECIFICATION FairSpec
CONSTANTS
  p1 = p1
  p2 = p2
  Prompts = {p1, p2}
  MaxChunks = 2
  Settings <- Both
INVARIANTS
  TypeOK
  ForeignMeansAbandoned
  AnswerIsWhole
  StreamIsResult
PROPERTIES
  ProcessEndIsNoticed
CHECK_DEADLOCK FALSE
