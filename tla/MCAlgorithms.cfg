CONSTANTS
  WireMod = 4
  MaxSize = 24
  MaxBlkSize = 5
  MaxLines = 2
  RingSize = 3
  LoadLines = 2
  QueueSize = 2
  MaxLogged = 6
  Records <- SomeRecords
  MaxHistory = 2
  MaxText = 5
  Limits = {0, 1, 2}
  Windows = {2, 3}
  MaxAsked = 5
  MaxClock = 8
  BaseTimeout = 1
  LongestTimeout = 3
  TimerRetries = 2
  TimerWindows = 2
  MaxChatter = 3
  Holders = {h1, h2}
  Capacity = 1
  BufSizes = {1, 2}
  MaxResizes = 2
SPECIFICATION AlgorithmsSpec
INVARIANTS
  BlocksAddUp
  PeersAgree
  LimitsAreKept
  RequestsAreJudged
  LogsAreKept
CHECK_DEADLOCK FALSE
