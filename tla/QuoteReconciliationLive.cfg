CONSTANTS
  Quotes = {q1, q2}
  Pollers = {poll}
  Sockets = {}
  Lifetime = 1
  Skew = 0
  MaxTime = 1
  MaxFaults = 2
  NoTime = NoTime
CHECK_DEADLOCK FALSE
SPECIFICATION FairSpec
INVARIANTS
  SettledOnlyIfPaid
  ExpiryHidesNoPayment
PROPERTIES
  PaymentIsCredited
  ChangeIsAnnounced
