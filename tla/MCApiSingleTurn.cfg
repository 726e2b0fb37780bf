\* Two posts of one session while the other's body is being read.
CONSTANTS
  Sessions = {s1}
  Requests = {r1, r2}
  None = None
  PatientClients = FALSE
  MaxDeltas = 0
  MaxStarts = 1
  MaxFaults = 0
SPECIFICATION Spec
INVARIANT SingleTurnPerSession
CHECK_DEADLOCK FALSE
