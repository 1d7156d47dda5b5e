SPECIFICATION Spec
CONSTANTS
  tcp = tcp
  tcpOpt = tcpOpt
  udp = udp
  Binds = {tcp, tcpOpt, udp}
  Port <- PortOf
  Shared = {"udp"}
  Unsafe = {}
  Configs = {{tcp, udp}, {tcpOpt, udp}}
  Start = {tcp, udp}
  Reloaders = {r1}
  Boot = Boot
  Beat = Beat
  Fragile = {tcpOpt}
  Socks = {s1, s2, s3}
  NoSock = NoSock
  NoBind = NoBind
  MaxAttempts = 1
  MaxReloads = 2
SYMMETRY SockSymmetry
INVARIANTS TypeOK NoGhost
PROPERTIES ClosedForCause
