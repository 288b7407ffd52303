SPECIFICATION Spec
CONSTANTS
  Pids = {p1, p2, p3}
  NoPid = NoPid
  MaxBackground = 2
  MaxStages = 2
  Interrupts = TRUE
  ExternalStops = TRUE
CHECK_DEADLOCK FALSE
SYMMETRY PidSymmetry
INVARIANTS JobsAreChildren WaitedAreOurs SigintGoesToChild
