CONSTANTS
  MaxCandidates = 3
  MaxPer = 2
  MaxTotal = 5
  MaxFrames = 2
  MaxEvents = 3
  MaxBytes = 2
  MaxChunk = 2
SPECIFICATION CallsSpec
INVARIANTS OneOutcome WithinBudget ResponsesReleased
PROPERTIES SentOnlyWhileWanted AbortsAnswered
\* A stream that is over rests.
CHECK_DEADLOCK FALSE
