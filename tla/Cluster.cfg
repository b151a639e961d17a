SPECIFICATION Spec
CONSTANTS
  Nodes = {n1, n2}
  NoOwner = NoOwner
  NoDocument = NoDocument
  NoCheckpoint = NoCheckpoint
  NoVector = NoVector
  Ttl = 2
  MaxFence = 3
  Profiles = {"log", "checkpoint", "bare"}
  MaxChanges = 2
  MaxSaves = 3
  Limit = 1
  MaxUpdates = 3
  MaxDeletes = 1
  Disciplined = TRUE
INVARIANTS
  OneHolderPerFence
  NothingForgotten
  TailInOrder
  RecoveryIsComplete
  CheckpointIsWhole
CHECK_DEADLOCK FALSE
