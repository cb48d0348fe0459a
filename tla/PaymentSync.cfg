CONSTANTS
  wallet = wallet
  other = other
  Pubkeys = {wallet, other}
  Wallet = wallet
  Quotes = {q1, q2}
  OwnerOf <- AllOfWallet
  Conns = {c1, c2}
  PageSize = 1
  Times = {1, 2}
  Since = 0
  None = None
CHECK_DEADLOCK FALSE
SPECIFICATION Spec
SYMMETRY Symmetry
INVARIANTS
  ListenerInv
  UpdatesGoToTheOwner
  PaymentsAreOnTheirWay
PROPERTY FetchMissesOnlyByRace
