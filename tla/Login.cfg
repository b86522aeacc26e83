SPECIFICATION Spec
CONSTANTS
  s1 = s1
  s2 = s2
  tags = tags
  commands = commands
  None = None
  Slots <- OneSlot
  Caps <- TwoCaps
  ChannelCount = 2
  ServerMessages <- AllMessages
  MaxLines = 2
  MaxQueue = 3
  MaxAttempt = 1
INVARIANTS
  NotReadyIsWatched
  NoMissedReady
  JoinGated
  NoLostWakeup
PROPERTIES
  ClosedIsQuiet
