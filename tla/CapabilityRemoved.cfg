SPECIFICATION FairSpec
CONSTANTS
  s1 = s1
  s2 = s2
  tags = tags
  commands = commands
  None = None
  Slots <- OneSlot
  Caps <- OneCap
  ChannelCount = 1
  ServerMessages <- WithRemoval
  MaxLines = 1
  MaxQueue = 2
  MaxAttempt = 0
INVARIANTS
  NotReadyIsWatched
