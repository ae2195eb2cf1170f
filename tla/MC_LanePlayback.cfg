CONSTANTS
  MaxCycles = 2
  MaxPlays = 2
  MaxPieces = 2
SPECIFICATION FairPlaybackSpec
INVARIANTS
  OneStream
  FallbackHoldsFloor
PROPERTIES
  ReflexOnlyWithFloor
  ImplementsArbitrator
  FallbackEnds
