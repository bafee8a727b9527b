CONSTANTS
  N = 1
  NULL = NULL
  NL = NL
  Procs = {p1, p2}
  Files = {f1}
  ReadCounts = {1}
  MaxCalls = 3
  Failing = {"user", "cache", "ring"}
  Writes <- MCFewWrites
  Offsets = {0}

SPECIFICATION FairSpec

PROPERTY
  CallsReturn

CHECK_DEADLOCK FALSE
