\* The open context of a generation that Close retires.
SPECIFICATION Spec
CONSTANTS
  Callers = {c1, c2}
  Docs = {d1}
  Gens = {g1, g2}
  None = None
INVARIANT OpenContextsCancelled
