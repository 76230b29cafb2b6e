SPECIFICATION Spec
CONSTANTS
  NoId = noid
  ConfigNonce = config
  NodeNonce = nodes
  Others = {any}
  QueueLen = 3
  InboxLen = 2
  Keepalive = 2
INVARIANTS
  TypeOK
  OwnQueue
  DumpWhole
  DumpFirst
  NeverStarved
PROPERTY Announced
CHECK_DEADLOCK FALSE
