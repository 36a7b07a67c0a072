------------------------------ MODULE MCAlarms ------------------------------
EXTENDS Alarms, TLC

\* Devices are interchangeable, and so are the fields of a device.
Symmetry == Permutations(Devices) \cup Permutations(Fields)
=============================================================================
