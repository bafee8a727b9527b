CONSTANTS
  N = 2
  NULL = NULL
  NL = NL
  Procs = {p1}
  Files = {f1}
  ReadCounts = {1}
  MaxCalls = 4
  Failing = {}
  Writes <- MCWrites
  Offsets = {0, 1}

SPECIFICATION FairSpec

PROPERTY
  CommandSeekFindsCommand
