\* Concurrent insertions into one list, every delivery order, pending buffers
\* and state-vector answers.
CONSTANTS
  Nil = Nil
  Clocks = {0, 1, 2}
  Root = Root
  Clients <- ThreeClients
  Keys <- NoKeys
  Instances <- Lists
SPECIFICATION Spec
INVARIANTS
  OrderAgreement
  NothingLost
PROPERTIES
  ListOrderSpec
CHECK_DEADLOCK FALSE
