CONSTANTS
  Fast = {f1, f2}
  Slow = {s1}
  Clients = {c1, c2}
  Jobs = {j1, j2}
  Kinds = {"rows", "slow"}
  NULL = NULL
SPECIFICATION Spec
VIEW View
SYMMETRY Symmetry
CONSTRAINT TwoServers
CHECK_DEADLOCK FALSE
INVARIANTS AnswerIsReal FastQueueIsSafe QueryHasOnePlace RowsHaveReader OnlySlowQueriesCrash
