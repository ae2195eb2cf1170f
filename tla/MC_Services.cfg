CONSTANTS
  Items = {i1, i2}
  Hooks = {h1}
  Passes = {p1, p2}
  MaxAttempts = 2
  MaxRedrives = 1
  MaxCrashes = 1
  Requests = {r1, r2}
  Clients = {c1, c2}
  Supervisors = {w1}
  Desks = {w1, w2, w3}
  ForceAfter = 4
  DrainFor = 2
  Calls = {k1, k2}
  MaxStarts = 2
  Sessions = {s1, s2}
  Tenants = {t1, t2}
  NoTenant = NoTenant
  MaxLength = 3
  NoSession = NoSession
  Triggers = {g1, g2}
  Visits = {c1, c2}
  MaxEvents = 3
  MaxReplays = 1
  MaxFailures = 1
  Subsystems = {stt, websocket}
  Late = websocket
  Rounds = {1, 2}
  MaxUnhealthy = 2
  RouteMax = 1
  Limits = {0, 2}
  Window = 1
  MaxTime = 3
  MaxPerTick = 3
  Contents = {{"pii", "self_harm"}, {"pii", "illegal", "disallowed"}, {"approved"}}
  MaxTexts = 2
  MaxResponses = 2
  MaxSockets = 3
  MaxEchoes = 2
  MaxChunks = 4
SPECIFICATION Spec
INVARIANT Settlement
INVARIANT Orderly
INVARIANT CallersKeepTheirPlace
INVARIANT WatchKept
INVARIANT Faithful
INVARIANT AtMostTwice
INVARIANT Governed
INVARIANT ClientsSound
INVARIANT PageSound
PROPERTY Ends
CHECK_DEADLOCK FALSE
