CONSTANTS
  Requests = {r1, r2, r3, r4}
  Capacity = 2
  Cost = 3
SPECIFICATION FairSpec
INVARIANTS
  BudgetIsExact
  DrainKeepsUp
PROPERTIES
  StartsInOrder
  EveryRequestSettles
