CONSTANTS
  home = home
  away = away
  away1 = away1
  away2 = away2
  Pubkeys = {p1, p2}
  Mints = {"home", "away"}
  Urls = {home, away, away1, away2}
  MintAt <- Servers
  Normal <- Spellings
  DefaultUrl = home
  Names = {n1, n2}
  Tokens = {t1, t2}
  Requests = {r1, r2, r3}
  NoName = NoName
  NoUser = NoUser
  NoInfo = NoInfo
CHECK_DEADLOCK FALSE
SPECIFICATION Spec
SYMMETRY Symmetry
INVARIANTS
  LockedWhereOffered
  NamesArePaidFor
PROPERTY SettingsKeepTheName
