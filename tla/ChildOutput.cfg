SPECIFICATION FairSpec
CONSTANTS
  Modes = {"capture", "foreground"}
  Cap = 2
  Limit = 3
  MaxWrites = 6
  Interrupts = TRUE
  Heirs = TRUE
  Stops = TRUE
CHECK_DEADLOCK FALSE
INVARIANT OutputIsComplete
PROPERTY WritesReturn
PROPERTY PromptComesBack
