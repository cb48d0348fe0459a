CONSTANTS
  Quotes = {1, 2, 3}
  Limits = {2, 3}
  IndividualLimit = 2
  Broken = {1}
  MaxFaults = 2
CHECK_DEADLOCK FALSE
SPECIFICATION FairSpec
INVARIANT LaneInv
PROPERTY EveryQuoteCloses
