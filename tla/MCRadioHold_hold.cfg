SPECIFICATION CalmSpec
CONSTANTS
  MaxPackets = 2
  Commands = {"poll", "send", "serve", "listen", "look", "stop"}
  Limit = 2
  Tries = 2
  HasPhone = TRUE
  Raised = {"ctrl_c", "unreadable", "bus"}
  MaxFaults = 1
INVARIANTS
  TypeOK
  HoldExcludes
  HearsAnyLength
  BusyMeansHeld
  RestsReceiving
PROPERTIES
  FiledInOrder
  Drained
CHECK_DEADLOCK FALSE
