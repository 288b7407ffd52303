SPECIFICATION TimedSpec
CONSTANTS
  Kinds = {"ask", "hook", "test"}
  Models = 2
  MaxChunks = 1
  MaxRequests = 1
  Window = 2
  Cooldown = 1
  Horizon = 2
CHECK_DEADLOCK FALSE
INVARIANT NothingTwice
INVARIANT TextUndisturbed
INVARIANT CancelledOnlyIfAsked
INVARIANT SharedBudget
PROPERTY RequestEnds
