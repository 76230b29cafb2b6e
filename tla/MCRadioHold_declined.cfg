SPECIFICATION CalmSpec
CONSTANTS
  MaxPackets = 2
  Commands = {"look", "send"}
  Limit = 2
  Tries = 2
  HasPhone = FALSE
  Raised = {}
  MaxFaults = 0
INVARIANT DecliningLosesNothing
CHECK_DEADLOCK FALSE
