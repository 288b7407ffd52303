SPECIFICATION Spec
CONSTANTS
  Sigs = {3, 10}
  INT = 2
  CHLD = 17
  QUIT = 3
  Actions = {"exit"}
  MaxSegs = 1
  MaxSent = 1
  MaxDepth = 7
  Subshells = TRUE
  Eof = TRUE
CHECK_DEADLOCK FALSE
INVARIANT DispositionFollowsTable
INVARIANT HooksAtMostOnce
