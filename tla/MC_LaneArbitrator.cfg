SPECIFICATION Spec
CONSTANT MaxCycles = 4
INVARIANTS
  TypeOK
  GuardMatchesState
  OnlyStaleGapBreaksFloor
PROPERTIES
  OwnerChain
  OneCycleAtATime
