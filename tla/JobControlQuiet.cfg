SPECIFICATION FairSpec
CONSTANTS
  Pids = {p1, p2, p3}
  NoPid = NoPid
  MaxBackground = 2
  MaxStages = 2
  Interrupts = FALSE
  ExternalStops = FALSE
CHECK_DEADLOCK FALSE
PROPERTIES ImplementsJobTable FinishedJobsForgotten
