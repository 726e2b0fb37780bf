\* Sessions: three ids for two places; the file holds fewer events than the
\* sessions may have.  Configuration: two calls at a time; a provider may serve
\* one model or both.
CONSTANTS
  Sessions = {s1, s2, s3}
  Turns = {t1}
  Events = {e1, e2}
  NoTurn = NoTurn
  None = None
  MaxSessions = 2
  MaxEvents = 2
  MaxFile = 3
  Providers = {p1, p2}
  Routes = {r1}
  Models = {m1, m2}
  Calls = {c1, c2}
SPECIFICATION DurableSpec
INVARIANTS AckedSurvives RoutesResolve MemoryIsFile
PROPERTIES RestartFailsRunning ImplementsAtomicConfig EveryCallAnswered
