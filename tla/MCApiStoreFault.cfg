\* One turn after another, and one store call that throws.
CONSTANTS
  Sessions = {s1}
  Requests = {r1}
  None = None
  PatientClients = FALSE
  MaxDeltas = 0
  MaxStarts = 1
  MaxFaults = 1
SPECIFICATION Spec
INVARIANT BusyOnlyWhileTurnRuns
CHECK_DEADLOCK FALSE
