SPECIFICATION HttpSpec
CONSTANTS
  Workers = {w1, w2}
  Callers = {c1}
  Links = {l1, l2}
  Main = main
  NULL = null
SYMMETRY Symmetry
INVARIANTS
  MutualExclusion
  RegistryInOrder
  FaultsOnlyInShutdown
  HangsOnlyOnLostStop
  OneOwner
  StrandedOnlyByLostSignal
PROPERTY ImplementsWorkQueue
CHECK_DEADLOCK FALSE
