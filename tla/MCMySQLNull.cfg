CONSTANTS
  Fast = {f1}
  Slow = {s1}
  Clients = {c1}
  Jobs = {j1}
  Kinds = {"stored"}
  NULL = NULL
SPECIFICATION Spec
CHECK_DEADLOCK FALSE
INVARIANT NullEntryIsNotJoined
