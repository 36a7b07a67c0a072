------------------------------ MODULE MCControl ------------------------------
EXTENDS ControlExchange, TLC

\* Finals and Threads are interchangeable; Ids are drawn by whoever is first.
Symmetry == Permutations(Ids) \cup Permutations(Threads)
=============================================================================
