SPECIFICATION FairExecSpec
CONSTANTS
  Timeouts = {0, 3}
  Horizon = 5
  MaxWrites = 3
  Heirs = TRUE
  Closes = TRUE
CHECK_DEADLOCK FALSE
INVARIANT StatusMeansComplete
INVARIANT NoZombie
PROPERTY CallerReturns
