CONSTANTS
  Clients = {user, task}
  HttpClients = {user}
  Sessions = {s1, s2}
  MaxRetries = 1
  None = None
  Task = task
  Urls = {u1}
  Strikes = 3
SPECIFICATION StallSpec
PROPERTIES StallEnds CommandsReturn
CHECK_DEADLOCK FALSE
