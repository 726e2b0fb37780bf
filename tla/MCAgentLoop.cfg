CONSTANTS
  CallIds = {c1, c2, c3, c4}
  HistoryIds = {c4}
  MaxTurns = 3
  MaxToolCalls = 2
  MaxTexts = 1
  MaxMessages = 4
  Sizes = {1, 3}
  Header = 2
  MaxSummary = 2
  Budgets = {6, 9, 11}
SPECIFICATION RunSpec
INVARIANTS TerminatesOnce HistoryClosed ToolsOnlyFromAcceptedBatch ContextSound
PROPERTIES NoToolRunsAfterAbort AbortEnds
\* A run that ended rests.
CHECK_DEADLOCK FALSE
