------------------------------ MODULE MCSettings ------------------------------
EXTENDS PanelSettings, TLC

Symmetry == Permutations(Workers) \cup Permutations(Communities)
=============================================================================
