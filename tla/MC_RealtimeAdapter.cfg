CONSTANTS
  Sockets = {s1, s2, s3}
  Modes = {"push-to-talk", "open-mic"}
  MaxReconnects = 2
  MaxStarts = 2
SPECIFICATION FairSpec
INVARIANTS
  SoleConnection
  NothingAfterClose
  DeafOnlyAfterFailedStart
  ModeReachesProvider
PROPERTIES
  StartAnswered
  Recovers
\* A connection that is closed and forgotten does nothing more.
CHECK_DEADLOCK FALSE
