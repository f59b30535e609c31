CONSTANTS
  Clients = {c1, c2}
  HttpClients = {c1, c2}
  Sessions = {s1, s2}
  MaxRetries = 2
  None = None
SPECIFICATION Spec
SYMMETRY SymmetryAll
INVARIANTS TypeOK ActiveHasRow BufferedIsResolved
PROPERTY LifecycleSpec
