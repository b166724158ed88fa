SPECIFICATION SessionSpec
CONSTANTS
  Call = {c1, c2}
  NLayers = 2
  NHeads = 2
  MaxPrompt = 2
  MaxNew = 3
  None = none
SYMMETRY CallSymmetry
CHECK_DEADLOCK FALSE
INVARIANTS
  OwnContext
  CacheIsTranscript
  GapIsReported
  LlamaCacheIsTranscript
  StatsAreOwn
  NotCutShort
