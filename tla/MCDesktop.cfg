\* Two processes: a start after a stop, or after a failed start.
CONSTANTS
  None = None
  Sessions = {s1, s2}
  MaxTurns = 2
  MaxDeltas = 1
  MaxPending = 2
  Entries = {e1, e2}
  MaxCalls = 3
  Threads = {c1, c2}
  Procs = {p1, p2}
  Nobody = Nobody
  NoCaller = NoCaller
  Callers = {d1, d2, d3}
SPECIFICATION DesktopSpec
INVARIANTS DeliveryExact NothingLeftBehind SubmittingIsTheTurn PanelSound NoOrphan ClosedForGood
PROPERTIES CancelSettles RunningIsOwnChild LockReleased
\* A window that is closed, and a host whose calls have all returned, rest.
CHECK_DEADLOCK FALSE
