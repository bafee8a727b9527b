CONSTANTS
  Clients = {c1, c2, c3}
  NULL = NULL
  Silent = {c3}
  Failures = {"listen", "accept", "open", "thread", "recv", "hang"}
  EarlySignal = TRUE
  MaxTicks = 1

SPECIFICATION Spec

INVARIANTS
  TypeOK
  ThreadsOwnTheirSlots
  ProcessedIsFinal
  FileOpenWhileServing

CHECK_DEADLOCK FALSE
