SPECIFICATION ServingSpec
CONSTANTS
  tcp = tcp
  tcpOpt = tcpOpt
  udp = udp
  Binds = {tcp, tcpOpt, udp}
  Port <- PortOf
  Shared = {"udp"}
  Unsafe = {}
  Configs = {{tcp}, {tcpOpt, udp}}
  Start = {tcp}
  Reloaders = {r1}
  Boot = Boot
  Beat = Beat
  Fragile = {tcpOpt}
  Socks = {s1, s2, s3}
  NoSock = NoSock
  NoBind = NoBind
  MaxAttempts = 1
  MaxReloads = 1
  Slots = {q1, q2}
  QueueCap = 2
  BatchSize = 2
  FgPermits = 2
  BgPermits = 1
  QueryLimit = 1
  MaxGen = 1
PROPERTIES Heals CallersReleased
