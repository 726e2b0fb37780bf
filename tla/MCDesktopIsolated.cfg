CONSTANTS
  None = None
  Sessions = {s1, s2}
  MaxTurns = 2
  MaxDeltas = 1
  MaxPending = 2
SPECIFICATION Spec
CHECK_DEADLOCK FALSE
INVARIANT SessionsIsolated
