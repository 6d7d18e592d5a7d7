SPECIFICATION FairSpec
CONSTANTS
  Req = {1, 2}
  Kind <- PromptThenClose
  Canceller = {x1}
  MaxStarts = 2
  MaxFailures = 1
  None = none
INVARIANTS
  TypeOK
  OncePerStart
  RunningIsCurrent
  CancelledOnlyIfAsked
PROPERTIES
  ImplementsLife
  RunningCancelTakesEffect
  OwnerDrains
CHECK_DEADLOCK FALSE
