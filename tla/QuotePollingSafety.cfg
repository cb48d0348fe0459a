CONSTANTS
  a = a
  b = b
  q1 = q1
  q2 = q2
  q3 = q3
  Mints = {a, b}
  Quotes = {q1, q2, q3}
  MintOf <- TwoAndOne
  Limit <- TwoOrOne
  MaxResident = 2
  Interval = 1
  MaxFaults = 1
CHECK_DEADLOCK FALSE
SPECIFICATION Spec
INVARIANTS
  BudgetInv
  QuietAfterStop
PROPERTIES
  ClaimsAreSpaced
  GrantsLeaveRoom
  ImplementsBudget
