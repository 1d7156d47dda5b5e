SPECIFICATION Spec
CONSTANTS
  A = A
  AAAA = AAAA
  Keys <- PairKeys
  Sibling <- PairSibling
  Asked = {A, AAAA}
  Clients = {c1, c2}
  Strict = {c2}
  Refreshers = {r1}
  NoTask = NoTask
  NoEntry = NoEntry
  TTLs = {1}
  ReplyTtl = 1
  ExpiredTtl = 1
  PrefetchTime = 1
  ServeExpired = TRUE
  PrefetchDomain = FALSE
  Ahead = 1
  HitCap = 0
  MaxNow = 3
  MaxGen = 0
INVARIANT StrictNeverStale
