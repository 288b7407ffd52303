SPECIFICATION FairSpec
CONSTANTS
  Modes = {"linkify"}
  Cap = 2
  Limit = 3
  MaxWrites = 6
  Interrupts = FALSE
  Heirs = FALSE
  Stops = FALSE
CHECK_DEADLOCK FALSE
PROPERTY WritesReturn
