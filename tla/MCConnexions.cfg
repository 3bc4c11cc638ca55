CONSTANTS
  Conns = {o1, o2}
  Workers = {w1}
  NULL = NULL
SPECIFICATION Spec
SYMMETRY Symmetry
CHECK_DEADLOCK FALSE
INVARIANTS ListIsExact OneOwner OnlyAbortAndListCrash SharedPortTakesNoPlayer
