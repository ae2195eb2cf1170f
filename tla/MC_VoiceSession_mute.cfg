CONSTANTS
  VoiceModes = {"push-to-talk"}
  PolicyGate = FALSE
  LaneASettings = {FALSE}
  MaxCycles = 2
  MaxChunks = 1
  MaxVetoes = 1
  MaxWire = 2
SPECIFICATION VoiceSpec
INVARIANT MutedOnlyIfCancelled
CHECK_DEADLOCK FALSE
