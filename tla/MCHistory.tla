------------------------------ MODULE MCHistory ------------------------------
EXTENDS HistoryStore, TLC

Symmetry == Permutations(Devices)
=============================================================================
