SPECIFICATION Spec
CONSTANTS
  Peers = {n1, n2, n3}
  Free = free
  Senders = {n1, n2, n3, free}
  Names = {alice}
  Ids = {tbeam}
  Unset = unset
  Absent = absent
  Limit = 2
  CountMax = 2
  Room = 2
  MaxTicks = 4
INVARIANTS
  TypeOK
  RowsSound
  CleanIsTrue
  CleanIsWhole
PROPERTY RefinesRecent
SYMMETRY Symmetry
CHECK_DEADLOCK FALSE
