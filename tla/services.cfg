SPECIFICATION ServicesSpec
CONSTANTS
  p1 = p1
  p2 = p2
  Procs = {p1, p2}
  NoProc = NoProc
  PidPath <- MCPidPath
  Names = {k1}
  NoRecord = NoRecord
  Lifetimes = {1}
  FileLimit = 2
  Keep = 1
  ReplyTtl = 1
  Retries = 1
  Blank = Blank
  MaxClock = 2
  Hosts = {h1}
  NoHost = NoHost
  Armers = {a1}
  Ttls = {1, 2}
  MinInterval = 1
  Ahead = 1
  StaleTtl = 1
  LongestTtl = 2
  PrefetchAfter = 0
  MaxTime = 4
  LogQueueCap = 2
  LogSize = 2
  LogNum = 1
  Marker = Marker
  MaxLines = 4
  MaxInodes = 3
  MaxOutside = 2
  Slots = {r1, r2, r3}
  QueueCap = 2
  BatchSize = 2
  FgPermits = 2
  BgPermits = 1
  QueryLimit = 1
  MaxGen = 1
  dot = dot
  doq = doq
  doh = doh
  Listeners = {dot, doq}
  SockAddr <- AddrOf
  Own = {dot}
  Global = Global
  NoLimiter = NoLimiter
  MaxConnections <- Total
  MaxPerSource <- PerSource
  Conns = {c1, c2}
  Peers <- Clients
  Loopback <- Home
INVARIANTS LoopTypeOK LimitTypeOK WithinLimits TotalExact SourceExact CountersExact QueryLimitHeld FreshHandler FileWhole OwnerNamed FreshIsFresh ScanDue NoLineLost FlushHonest
PROPERTIES SavedSurvives NewerKept
CHECK_DEADLOCK FALSE
