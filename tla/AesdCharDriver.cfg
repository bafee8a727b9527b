CONSTANTS
  N = 2
  NULL = NULL
  NL = NL
  Procs = {p1, p2}
  Files = {f1}
  ReadCounts = {1, 3}
  MaxCalls = 4
  Failing = {"user", "cache"}
  Writes <- MCWrites
  Offsets <- MCOffsets

SYMMETRY Symmetry

SPECIFICATION Spec

INVARIANTS
  TypeOK
  LinesAreWhole

PROPERTIES
  ImplementsLineLog
  ReadGivesBytesAtPosition
  SeeksLandInData
  CommandSeekBeforeWrap
