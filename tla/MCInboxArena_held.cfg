SPECIFICATION Spec
CONSTANTS
  Wheres = {0, 1}
  All = all
  Texts <- SomeTexts
  Lead = 8
  Cont = 9
  Cap = 7
  Limit = 2
  MaxText = 2
  Room = 4
  Overhead = 1
  StopSaves = FALSE
INVARIANTS
  TypeOK
  CleanIsSaved
PROPERTY RefinesMailbox
CHECK_DEADLOCK FALSE
