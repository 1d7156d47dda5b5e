SPECIFICATION FairSpec
CONSTANTS
  a = a
  b = b
  Queries = {q1, q2}
  Nobody = Nobody
  Servers = {u1, u2, f1}
  Fallback = {f1}
  Udp = {u1, f1}
  Addresses = {a, b}
  Answers <- MCAnswers
  Strategies = {"FirstPing", "FastestIp", "FastestResponse", "Other"}
  Ips = {a, b}
  MaxCopies = 2
  Pings = 3
  Latencies = {12, 120}
  Penalty = 50
  Racing = Racing
  NoIp = NoIp
  DualReplies <- MCDualReplies
  Modes = 2
  MinTtl = 1
INVARIANTS UpstreamTypeOK AnswerKept NxUnopposed NeverRunsDry EmptiedForCause OwnAnswerSurvives NeverOutlives
PROPERTIES LookupFolds KeepsPromise QueriesReleased
CHECK_DEADLOCK FALSE
