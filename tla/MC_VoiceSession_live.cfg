CONSTANTS
  VoiceModes = {"open-mic", "push-to-talk"}
  PolicyGate = TRUE
  LaneASettings = {TRUE}
  MaxCycles = 2
  MaxChunks = 1
  MaxVetoes = 1
  MaxWire = 1
SPECIFICATION FairVoiceSpec
PROPERTY ListensAgain
\* The bounds on turns, chunks and vetoes let a behaviour end.
CHECK_DEADLOCK FALSE
