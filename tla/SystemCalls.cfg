CONSTANTS
  Threads = {t1, t2}
  Pids = {p1, p2}
  NULL = NULL
  MaxOutput = 2
  Failures = {"fork", "open", "dup2", "exec", "wait"}
  MixSystem = FALSE
  Unflushed <- MCUnflushed

SPECIFICATION Spec

INVARIANTS
  TypeOK
  EveryChildIsAwaited

PROPERTIES
  ResultIsOwnWhenAlone
  FileIsOutputWhenAlone
  CallsReturn
