CONSTANTS
  Modes <- BothModes
  Ends <- ThreeSegments
  Capacity = 2
  MaxReconnects = 3
  Unknown = Unknown
SPECIFICATION Spec
INVARIANTS DeliveredInOrder ShortIsMarked
PROPERTY StopUnblocks
CHECK_DEADLOCK FALSE
