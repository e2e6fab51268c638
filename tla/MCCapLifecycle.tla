--------------------------- MODULE MCCapLifecycle ---------------------------
EXTENDS CapLifecycle, TLC

Symmetry == Permutations(Clients) \cup Permutations(Skbs)
=============================================================================
