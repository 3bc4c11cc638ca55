SPECIFICATION RunningSpec
CONSTANTS
  Workers = {w1, w2}
  Callers = {c1}
  Links = {l1, l2}
  Main = main
  NULL = null
PROPERTY RequestsAreTaken
CHECK_DEADLOCK FALSE
