SPECIFICATION AllFairSpec
CONSTANTS
  Req = {1, 2}
  Kind <- Prompts
  Canceller = {}
  MaxStarts = 2
  MaxFailures = 0
  None = none
PROPERTY
  AnsweredTurnEnds
CHECK_DEADLOCK FALSE
