SPECIFICATION Spec
CONSTANTS
  s1 = s1
  s2 = s2
  tags = tags
  commands = commands
  None = None
  Slots <- TwoSlots
  Caps <- OneCap
  ChannelCount = 1
  ServerMessages <- LifeMessages
  MaxLines = 1
  MaxQueue = 2
  MaxAttempt = 0
SYMMETRY Symmetry
INVARIANTS
  TypeOK
  OneLiveSession
  KeepAlive
  NeverIdle
PROPERTIES
  StopIsFinal
  FollowsLifecycle
