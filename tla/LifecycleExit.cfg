CONSTANTS
  Clients = {c1}
  NULL = NULL
  Silent = {}
  Failures = {}
  EarlySignal = FALSE
  MaxTicks = 0

SPECIFICATION Spec

INVARIANT
  SendsBeforeRemoval

CHECK_DEADLOCK FALSE
