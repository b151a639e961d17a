SPECIFICATION Spec
CONSTANTS
  Nodes = {n1, n2}
  NoOwner = NoOwner
  NoDocument = NoDocument
  NoCheckpoint = NoCheckpoint
  NoVector = NoVector
  Ttl = 2
  MaxFence = 2
  Profiles = {"log"}
  MaxChanges = 0
  MaxSaves = 0
  Limit = 1
  MaxUpdates = 3
  MaxDeletes = 0
  Disciplined = FALSE
INVARIANTS
  RecoveryIsComplete
CHECK_DEADLOCK FALSE
