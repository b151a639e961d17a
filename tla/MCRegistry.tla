----------------------------- MODULE MCRegistry -----------------------------
EXTENDS Registry, TLC

Symmetry == Permutations(Callers) \cup Permutations(Docs) \cup Permutations(Gens)
=============================================================================
