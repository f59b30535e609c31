CONSTANTS
  Clients = {c1}
  HttpClients = {}
  Sessions = {s1, s2, s3}
  MaxRetries = 2
  None = None
SPECIFICATION FairSpec
INVARIANTS QuiescentSession EngineModeAgrees WatchAgrees
