SPECIFICATION SharedSpec
CONSTANTS
  Shells = {s1, s2}
  Providers = {"gemini", "openai", "ollama"}
  Models = {"gemini-a", "gpt-a"}
  Fits <- MCFits
  MaxTurns = 2
  MaxOps = 3
  MaxBreaks = 1
  Terminals = {s1, s2}
  Dirs = {"home", "a", "ha"}
  Home = "home"
  Spelling <- MCSpelling
  Queries <- MCQueries
  Numerals <- MCNumerals
  Stamps <- MCStamps
  SessionNames = {"n"}
  Keys <- MCKeys
  Values <- MCValues
  MaxEntries = 2
  KeptEntries = 1
  MaxCommands = 3
  MaxEvents = 1
  Syncers = {"s1", "s2", "s3"}
  MachineOf <- MCMachineOf
  SyncFiles = {"rc", "history.db"}
  Ignored = {"history.db"}
  MaxEdits = 2
  MaxSyncs = 4
  Users = {s1, s2}
  Runs <- MCRuns
  Asked <- MCAsked
  NumberIn <- MCNumberIn
  DefaultLimit = 2
  WideFloor = 2
  RingSize = 2
  MaxRows = 3
  MaxClock = 1
  MaxStarts = 1
SYMMETRY MCSymmetry
CHECK_DEADLOCK FALSE
INVARIANT AnswersFollowQuestions
INVARIANT ClearedStaysCleared
INVARIANT UsageIsComplete
INVARIANT ModelFitsProvider
INVARIANT CountsAreVisits
INVARIANT LoadIsASave
PROPERTY PushedIsThere
INVARIANT ListsTheNewest
