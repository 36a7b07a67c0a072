------------------------------ MODULE MCMapping ------------------------------
EXTENDS MappingStore, TLC

CONSTANTS p, q, f, g

Section(o, k, x, i, e, mapped) ==
  [owner |-> o, key |-> k, xml |-> x, index |-> i, top |-> e, meta |-> "part",
   fields |-> [h \in Fields |-> IF h \in mapped THEN Plain ELSE Absent]]

\* A profile without an index, one that shows the other's XML section and has
\* one limit of writes edited and the other not, one in an entry with the other's key, and two in one entry, without an index for
\* each and with the packaged one in the wrong section.
MCDocuments ==
  {{Section(p, p, p, None, None, {f})},
   {[Section(p, p, q, 2, None, {f}) EXCEPT !.meta = "clash"]},
   {Section(p, q, q, 1, None, {f})},
   {Section(q, p, p, 1, None, {f}), Section(q, q, q, None, None, {f, g})},
   {Section(p, p, p, 2, None, {f}), Section(p, q, q, 1, None, {f})}}
\* An entry whose section has an index and one that has it itself.
MCPackaged == {Section(p, p, p, 1, None, {f}), Section(q, q, q, None, 2, {f, g})}

Symmetry == Permutations(Threads)
=============================================================================
