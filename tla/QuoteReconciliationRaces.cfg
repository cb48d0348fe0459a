CONSTANTS
  Quotes = {q1}
  Pollers = {poll}
  Sockets = {ws1, ws2}
  Lifetime = 1
  Skew = 1
  MaxTime = 3
  MaxFaults = 2
  NoTime = NoTime
CHECK_DEADLOCK FALSE
SPECIFICATION Spec
SYMMETRY Symmetry
INVARIANTS
  InvoiceIsBacked
  PaymentTimeRecorded
PROPERTY ImplementsLedger
