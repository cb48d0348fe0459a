CONSTANTS
  a = a
  b = b
  q1 = q1
  q2 = q2
  q3 = q3
  Mints = {a}
  Quotes = {q1, q2}
  MintOf <- TwoAtA
  Limit <- TwoAlone
  MaxResident = 2
  Interval = 2
  MaxFaults = 0
CHECK_DEADLOCK FALSE
SPECIFICATION FairSpec
PROPERTIES
  StartupCompletes
