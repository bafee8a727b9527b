CONSTANTS
  Clients = {c1, c2, c3}
  NULL = NULL
  Silent = {}
  Failures = {"accept", "recv"}
  EarlySignal = FALSE
  MaxTicks = 0
  Inherited = {0, 1, 2}
  StartUpFailures = {"bind", "sigqueue", "fork", "setsid", "chdir", "null", "dup2", "signals", "timer_create", "timer_settime", "list"}

SPECIFICATION DaemonSpec

INVARIANTS
  DaemonTypeOK
  ParentReportsStartUp
  KeepsSocketOnly
  NoClientLeftBehind

PROPERTIES
  ParentEnds
  ExitsAfterSignal
  AcceptedAreFinished

CHECK_DEADLOCK FALSE
