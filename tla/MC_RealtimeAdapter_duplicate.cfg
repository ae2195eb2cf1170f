CONSTANTS
  Sockets = {s1, s2, s3}
  Modes = {"push-to-talk", "open-mic"}
  MaxReconnects = 2
  MaxStarts = 2
SPECIFICATION Spec
INVARIANT NoDuplicateSession
CHECK_DEADLOCK FALSE
