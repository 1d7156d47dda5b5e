SPECIFICATION LoopFairSpec
CONSTANTS
  Slots = {r1, r2}
  QueueCap = 2
  BatchSize = 2
  FgPermits = 2
  BgPermits = 1
  QueryLimit = 1
  MaxGen = 0
PROPERTIES BackgroundFree
