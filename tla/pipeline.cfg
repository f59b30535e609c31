CONSTANTS
  Kinds <- AllKinds
  MaxBus = 2
SPECIFICATION Spec
INVARIANT IsPlayingTracks
PROPERTIES FullBufferPlays DepletionIsNoticed
