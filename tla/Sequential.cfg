SPECIFICATION SeqSpec
CONSTANTS
  Units <- MCUnits
  Readers = {"repl", "script", "rc"}
  KnownWords <- MCKnown
  MaxUnits = 3
  MaxLines = 4
  MaxRing = 2
  MaxFds = 12
  Redirs <- MCRedirs
  MaxRedirs = 3
  MaxDepth = 2
  Lines <- MCLines
  Outputs <- MCOutputs
  Order <- MCOrder
  NumberOf <- MCNumberOf
  Histories <- MCHistories
  Replies <- MCReplies
  Filenames <- MCFilenames
  CutsAt <- MCCutsAt
  MaxChunk = 6
  MaxBlanks = 1
  MaxCells = 6
  Disabled <- MCDisabled
  Tools <- MCTools
  FigSpecs <- MCFigSpecs
  FishFiles <- MCFishFiles
  HelpTexts <- MCHelpTexts
  Paths <- MCPaths
  Builtins <- MCBuiltins
  Subcommands <- MCSubcommands
  KillLike <- MCKillLike
  DirOnly <- MCDirOnly
  Candidates <- MCCandidates
  Inputs <- MCTabInputs
  HelpCuts <- MCHelpCuts
  Typed <- MCTyped
  MaxTabs = 2
  MaxChanges = 1
CHECK_DEADLOCK FALSE
INVARIANT AcceptedLinesParse
 
INVARIANT SameAsChild
PROPERTY RestoredOnReturn
INVARIANT SortIsStable
INVARIANT AskedIsShown
INVARIANT OnlyWhatWasAllowed
INVARIANT TypingNarrows
INVARIANT TyposAreCaught
