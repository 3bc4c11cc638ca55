CONSTANTS
  Fast = {f1}
  Slow = {s1}
  Clients = {c1}
  Jobs = {j1}
  Kinds = {"stored"}
  NULL = NULL
SPECIFICATION FairSpec
CHECK_DEADLOCK FALSE
PROPERTIES FastQueriesReturn CleanupEnds
