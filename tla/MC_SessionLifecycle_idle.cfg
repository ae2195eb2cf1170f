CONSTANTS
  PolicyGates = {TRUE}
  MaxEnds = 1
  Sockets = {s1, s2}
  Modes = {"push-to-talk"}
  MaxReconnects = 1
  MaxStarts = 1
SPECIFICATION Spec
INVARIANT EveryTranscriptEvaluated
CHECK_DEADLOCK FALSE
