CONSTANTS
  c1 = c1
  s1 = s1
  Clients = {c1, c2}
  HttpClients = {c2}
  Sessions = {s1, s2}
  MaxRetries = 0
  None = None
  Capacity = 2
  MaxRestarts = 3
  Settings <- AllSettings
SPECIFICATION DlnaSpec
INVARIANT PlayingExcludesRenderer
PROPERTY IdleRendererRuns
CHECK_DEADLOCK FALSE
