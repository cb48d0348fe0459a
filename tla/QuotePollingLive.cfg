CONSTANTS
  a = a
  b = b
  q1 = q1
  q2 = q2
  q3 = q3
  Mints = {a, b}
  Quotes = {q1, q2}
  MintOf <- OneEach
  Limit <- TwoEach
  MaxResident = 2
  Interval = 4
  MaxFaults = 1
CHECK_DEADLOCK FALSE
SPECIFICATION FairSpec
PROPERTIES
  WaiterIsServed
  DueQuoteIsClaimed
  StartupCompletesUnderLightLoad
  StopCompletes
