CONSTANTS
  Clients = {c1, c2}
  NULL = NULL
  Timer = Timer
  Builds = {FALSE, TRUE}
  BufferSize = 3
  Shapes <- MCShapes
  MaxTicks = 2
  Seekers = {c2}
  Leftover = {TRUE}
  Failures <- MCFailures

SPECIFICATION FairSpec

INVARIANTS
  TypeOK
  PacketsStayWhole

PROPERTIES
  FileOnlyGrows
  ReplyIsContent
  SeekReplyIsRest
  RequestsFinish

CHECK_DEADLOCK FALSE
