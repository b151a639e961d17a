\* Liveness: no symmetry, two callers, two generations.
SPECIFICATION FairSpec
CONSTANTS
  Callers = {c1, c2}
  Docs = {d1}
  Gens = {g1, g2}
  None = None
PROPERTIES
  PoisonedDrains
  RetirementWakes
