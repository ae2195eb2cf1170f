CONSTANTS
  VoiceModes = {"open-mic", "push-to-talk"}
  PolicyGate = TRUE
  LaneASettings = {TRUE, FALSE}
  MaxCycles = 2
  MaxChunks = 2
  MaxVetoes = 1
  MaxWire = 2
SPECIFICATION VoiceSpec
INVARIANTS
  WaitsOnlyForAnswer
PROPERTIES
  CancelledStaysSilent
  HeardAnswersCurrentTurn
  DoneEndsItsOwnCycle
\* The bounds on turns, chunks and vetoes let a behaviour end.
CHECK_DEADLOCK FALSE
