\* Two API threads, two profiles, five documents to put, two changes, one run
\* of the tool and one failed write.
CONSTANTS
  p = p
  q = q
  f = f
  g = g
  Profiles = {p, q}
  Fields = {f, g}
  Limits = {l}
  MaxIndex = 3
  Documents <- MCDocuments
  Packaged <- MCPackaged
  Threads = {t1, t2}
  Absent = Absent
  Plain = Plain
  None = None
  MaxWrites = 2
  MaxMerges = 1
  MaxFailures = 1
SPECIFICATION Spec
SYMMETRY Symmetry
INVARIANTS
  NoLostEdit
  Readable
  AddFits
PROPERTIES
  KeepsOthers
  StableIndex
