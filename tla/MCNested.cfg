\* Values and nested types in a list and under a map key, deleted and collected.
CONSTANTS
  Nil = Nil
  Clocks = {0, 1}
  Root = Root
  Clients <- TwoClients
  Keys <- OneKey
  Instances <- Nested
SPECIFICATION FairSpec
INVARIANTS
  Convergence
  LiveValues
PROPERTIES
  Monotone
  EventualConsistency
CHECK_DEADLOCK FALSE
