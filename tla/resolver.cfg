CONSTANTS
  a = a
  b = b
  page = page
  moved = moved
  tube = tube
  dood = dood
  onion = onion
  file = file
  magnet = magnet
  Urls = {page, moved, tube, dood, onion, file, magnet}
  Casts <- MCCasts
  Tasks = {a, b}
  TTL = 1
  CleanupAge = 1
  MaxClock = 2
  MaxLinks <- MCLinks
  MaxRetries = 1
  Look <- MCLook
  Pages <- MCPages
  Players <- MCPlayers
  Outputs <- MCOutputs
  None = None
SPECIFICATION FairSpec
INVARIANTS IsolatedStreams RefusedLinkIsGone
PROPERTIES MissMeansNew ResolveReturns
CHECK_DEADLOCK FALSE
