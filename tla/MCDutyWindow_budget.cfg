SPECIFICATION Spec
CONSTANTS
  Buckets = 3
  BucketS = 2
  Budget = 2
  Airtimes = {1, 2}
  Largest = 2
  Horizon = 9
  MaxBoots = 1
  MaxLeft = 1
INVARIANTS
  TypeOK
  WindowExact
  BudgetKept
  SameRing
CHECK_DEADLOCK FALSE
