------------------------------ MODULE MCDataDir ------------------------------
EXTENDS DataDirMigration, TLC

\* Liveness is checked as well: no symmetry.
=============================================================================
