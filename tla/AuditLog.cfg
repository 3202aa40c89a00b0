\* Two writers, a ledger and one replacement of it.
SPECIFICATION Spec
CONSTANTS
  None = None
  Writer = {w1, w2}
  Inode = {i1, i2}
  First = i1
  MaxRecords = 3
SYMMETRY Symmetry
CHECK_DEADLOCK FALSE
INVARIANTS
  TypeOK
  ChainsAreValid
  AckedIsSynced
PROPERTIES
  TornIsKept
  WriterKeepsItsFile
