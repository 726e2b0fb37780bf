CONSTANTS
  MaxFrame = 5
  MaxBytes = 8
  None = None
  Indexes = {0, 1}
  Ids = {a, b}
  MaxInput = 2
  MaxEvents = 3
  MaxLine = 2
  MaxTotal = 6
  MaxChunk = 3
  MaxBody = 7
SPECIFICATION StreamsSpec
INVARIANTS ChunkingInvisible BufferBounded AnswerSound LinesExact
PROPERTY AbortSilences
SYMMETRY IdSymmetry
\* A stream that was read to its end rests.
CHECK_DEADLOCK FALSE
