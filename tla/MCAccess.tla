------------------------------ MODULE MCAccess ------------------------------
EXTENDS AccessControl, TLC

\* Two administrators, the second without a password while RADIUS is used.
MCSaved ==
  {[n \in Names |-> [role |-> "Administrator", active |-> TRUE,
                    password |-> IF n = InitialAdmin THEN "set" ELSE "none"]]}

\* Threads are interchangeable; names are not, one is the bootstrap account.
Symmetry == Permutations(Threads)
=============================================================================
