SPECIFICATION Spec
CONSTANTS
  Qualities = {0, 1, 6}
  Statuses = {"A", ""}
  Oldest = 2
  AutosaveS = 4
  SettleS = 2
  InfoS = 2
  PositionS = 2
  ResyncS = 2
  Cap = 2
  Delays <- MCDelays
  MaxGap = 1
INVARIANTS
  TypeOK
  ClockAsGood
  Vouched
  NewsSaved
  Paced
  Punctual
CHECK_DEADLOCK FALSE
