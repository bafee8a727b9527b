CONSTANTS
  N = 3
  NULL = NULL
  Lines <- MCLines

SPECIFICATION Spec

INVARIANTS
  TypeOK
  OffsetsDescribeEntries
  LinesFitTheirBlocks
  FindIsByteOfConcatenation

PROPERTY
  KeepsRecentWrites
