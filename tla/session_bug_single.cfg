CONSTANTS
  Clients = {c1, c2}
  HttpClients = {}
  Sessions = {s1, s2, s3}
  MaxRetries = 0
  None = None
SPECIFICATION Spec
SYMMETRY SymmetryAll
INVARIANT SingleSession
