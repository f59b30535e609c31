CONSTANTS
  Sockets = {w1, w2}
  Guests = {g}
  MaxConnections = 2
  Capacity = 2
  Buffer = 1
  Others = {11, 12}
  Ips = {unknown}
  Limit = 2
  Window = 2
  MaxClock = 3
  MaxRequests = 4
  None = None
  Reach <- MCReach
  Retries = 2
  MaxEvents <- MCMaxEvents
SPECIFICATION FairSpec
INVARIANTS RemoteTypeOK OneSocket ConnectedIsTrue LimitIsKept
PROPERTIES WorkerGetsIn CastReturns EndIsTold
CHECK_DEADLOCK FALSE
