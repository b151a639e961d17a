\* Three callers compete for one document through up to three generations.
SPECIFICATION Spec
CONSTANTS
  Callers = {c1, c2, c3}
  Docs = {d1}
  Gens = {g1, g2, g3}
  None = None
SYMMETRY Symmetry
INVARIANTS
  TypeOK
  ServedIsAlive
  ServedIsCurrent
  OneCurrentDocument
  TornDownOnce
  DoneMeansGone
  ClosedIsQuiescent
  NoWarming
PROPERTY
  PoisonIsFinal
