CONSTANTS
  Clients = {a, b}
  Loaders = {a, b}
  Stoppers = {b}
  Pipes = {p1, p2, p3}
  Configs <- Everything
  GbmNodes = {"render"}
  MaxRetries = 1
  None = None
SPECIFICATION FairSpec
INVARIANTS NoOrphanPipeline SinkBecomesMaster
PROPERTIES EngineSpec CallsReturn
