SPECIFICATION Spec
CONSTANTS
  Replicas <- Two
  Scenarios <- CutScenarios
  Edited <- MCEdited
  Popped <- MCPopped
  Updated <- MCUpdated
  Loaded <- MCLoaded
  Archived <- MCArchived
  BaseUpdate <- MCBaseUpdate
  AnswerTo <- MCAnswerTo
  Holds <- MCHolds
  Waits <- MCWaits
  Shows <- MCShows
  Everything <- MCEverything
  EditsFor <- MCEditsFor
  Converted <- MCConverted
  Merged <- MCMerged
  Difference <- MCDifference
  Pieces <- MCPieces
  StateVectorIn <- MCStateVectorIn
  MetaOf <- MCMetaOf
  Obfuscated <- MCObfuscated
  SnapshotOf <- MCSnapshotOf
  ShownAt <- MCShownAt
  RestoredAt <- MCRestoredAt
  Covers <- MCCovers
  PositionBytes <- MCPositionBytes
  PlaceOf <- MCPlaceOf
INVARIANT
  Convergence
CHECK_DEADLOCK FALSE
