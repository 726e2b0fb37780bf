\* Two posts race in one session; the server is restarted, the store throws.
CONSTANTS
  Sessions = {s1}
  Requests = {r1, r2}
  None = None
  PatientClients = FALSE
  MaxDeltas = 2
  MaxStarts = 2
  MaxFaults = 2
SPECIFICATION Spec
SYMMETRY Symmetry
INVARIANTS TypeOK OneTerminal LogMatchesStreams NoGhostTurn IteratorReleased
PROPERTY StatusTellsOutcome
\* A server whose requests are all answered and that was closed rests.
CHECK_DEADLOCK FALSE
