CONSTANTS
  N = 2
  NULL = NULL
  Procs = {p1, p2}
  Blocks = {b1, b2, b3, b4, b5, b6}
  Outcomes <- InPlaceForLines

SPECIFICATION Spec

INVARIANTS
  TypeOK
  NoBlockIsLost
  OneOwnerEach
