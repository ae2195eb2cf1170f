CONSTANTS
  PolicyGates = {TRUE}
  MaxEnds = 2
  Sockets = {s1, s2}
  Modes = {"push-to-talk"}
  MaxReconnects = 1
  MaxStarts = 2
SPECIFICATION FairSpec
INVARIANTS
  NothingOutlivesClose
  ActiveSessionIsTimed
  RecordingIsHeard
  RevivedIsForgotten
  UngovernedOnlyAfterTimeout
PROPERTY ForgottenAfterClose
\* A connection that is closed and forgotten does nothing more.
CHECK_DEADLOCK FALSE
