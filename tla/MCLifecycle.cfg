CONSTANTS
  Files <- MCFiles
  Garbage = {0, 2}
  Addresses = {1, 2, 3, 4, 5, 6, 7}
  NULL = 0
SPECIFICATION Spec
CHECK_DEADLOCK FALSE
INVARIANTS SettingsAreTheFile ThreadListIsExact QueriesHaveWorkers 
