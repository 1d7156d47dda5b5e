SPECIFICATION LimitSpec
CONSTANTS
  dot = dot
  doq = doq
  doh = doh
  Listeners = {dot, doq}
  SockAddr <- AddrOf
  Own = {dot}
  Global = Global
  NoLimiter = NoLimiter
  MaxConnections <- Total
  MaxPerSource <- PerSource
  Conns = {c1}
  Peers <- Clients
  Loopback <- Home
INVARIANT OwnLimits
CHECK_DEADLOCK FALSE
