\* Clients await an answer before posting again; liveness, so no symmetry.
CONSTANTS
  Sessions = {s1, s2}
  Requests = {r1, r2}
  None = None
  PatientClients = TRUE
  MaxDeltas = 1
  MaxStarts = 1
  MaxFaults = 0
SPECIFICATION FairSpec
INVARIANTS CancelReachesTurn
PROPERTIES ImplementsSessionTurns StopEndsTurn
CHECK_DEADLOCK FALSE
