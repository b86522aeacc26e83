SPECIFICATION AttemptSpec
CONSTANTS
  a = a
  b = b
  None = None
  Channels <- TwoChannels
  KindsInUse <- JoinAndChat
  Delays <- NoDelay
  ChatLimit = 2
  ChatWindow = 4
  JoinLimit = 1
  JoinWindow = 3
  ChannelGap = 1
  QueueMax = 2
  MaxMessages = 3
  MaxSessions = 2
  MaxTime = 5
  MaxArrival = 2
  MaxWrite = 1
  MaxLag = 1
CHECK_DEADLOCK FALSE
SYMMETRY Symmetry
INVARIANTS
  NextAllowedExact
  PacingInv
  ChatPaced
  JoinPaced
  ChannelPaced
  AttemptsBounded
PROPERTIES
  KeepsPromise
