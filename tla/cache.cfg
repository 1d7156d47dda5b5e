SPECIFICATION Spec
CONSTANTS
  A = A
  AAAA = AAAA
  Keys <- PairKeys
  Sibling <- PairSibling
  Asked = {A}
  Clients = {c1}
  Strict = {}
  Refreshers = {r1}
  NoTask = NoTask
  NoEntry = NoEntry
  TTLs = {1}
  ReplyTtl = 1
  ExpiredTtl = 2
  PrefetchTime = 1
  ServeExpired = TRUE
  PrefetchDomain = TRUE
  Ahead = 1
  HitCap = 3
  MaxNow = 4
  MaxGen = 0
INVARIANTS TypeOK MarkerHeld StaleTtlShort
PROPERTIES ColdNotPrefetched
