SPECIFICATION FairSpec
CONSTANTS
  a = a
  None = None
  Channels <- OneChannel
  KindsInUse <- AllKinds
  Delays <- SomeDelay
  ChatLimit = 2
  ChatWindow = 4
  JoinLimit = 1
  JoinWindow = 3
  ChannelGap = 2
  QueueMax = 2
  MaxMessages = 3
  MaxSessions = 2
  MaxTime = 12
  MaxArrival = 2
  MaxWrite = 1
  MaxLag = 1
CHECK_DEADLOCK FALSE
INVARIANTS
  NoOversleep
  NoOvertaking
PROPERTIES
  EveryMessageLeaves
  IsCounted
