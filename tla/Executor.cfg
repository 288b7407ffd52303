SPECIFICATION Spec
CONSTANTS
  AliasNames = {"word"}
  AliasValues = {"make", "rm"}
  Fixes = {"make", "cd", "make$"}
  Bodies = {"(sub)", "(sub)|"}
  MaxCmds = 3
  MaxSegs = 2
CHECK_DEADLOCK FALSE
 
INVARIANT StatusIsTheSegments
