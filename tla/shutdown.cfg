CONSTANTS
  Pids = {system, first, second}
  Foreign = system
  Callers = {caller}
  None = None
SPECIFICATION FairSpec
INVARIANT NoTorOutlives
PROPERTIES ShutdownEnds ConversationsEnd
CHECK_DEADLOCK FALSE
