SPECIFICATION FairSpec
CONSTANTS
  A = A
  AAAA = AAAA
  Keys = {A}
  Sibling <- Alone
  Asked = {A}
  Clients = {c1, c2}
  Strict = {}
  Refreshers = {r1}
  NoTask = NoTask
  NoEntry = NoEntry
  TTLs = {1}
  ReplyTtl = 1
  ExpiredTtl = 1
  PrefetchTime = 1
  ServeExpired = TRUE
  PrefetchDomain = FALSE
  Ahead = 1
  HitCap = 0
  MaxNow = 2
  MaxGen = 1
INVARIANTS SingleFlight NoOrphan
PROPERTIES RequestsAnswered RefreshEnds CacheFolds
