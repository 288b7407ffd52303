SPECIFICATION FairSpec
CONSTANTS
  Sigs = {2, 10}
  INT = 2
  CHLD = 17
  QUIT = 3
  Actions = {"plain"}
  MaxSegs = 1
  MaxSent = 2
  MaxDepth = 9
  Subshells = FALSE
  Eof = FALSE
CHECK_DEADLOCK FALSE
INVARIANT FiredOncePerSignal
INVARIANT ExitTrapThenHooks
PROPERTY PendingIsHandled
