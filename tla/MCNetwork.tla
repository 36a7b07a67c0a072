------------------------------ MODULE MCNetwork ------------------------------
EXTENDS NetworkChange, TLC

Symmetry == Permutations(Admins) \cup Permutations(Interfaces) \cup Permutations(Settings)
=============================================================================
