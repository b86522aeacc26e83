SPECIFICATION FairSpec
CONSTANTS
  s1 = s1
  s2 = s2
  tags = tags
  commands = commands
  None = None
  Slots <- OneSlot
  Caps <- OneCap
  ChannelCount = 1
  ServerMessages <- LifeMessages
  MaxLines = 1
  MaxQueue = 2
  MaxAttempt = 0
PROPERTIES
  StopEnds
  LoginDecided
  Reconnects
