SPECIFICATION Spec
CONSTANTS
  None = None
  MaxLogin = 2
  MaxChannels = 2
  MinToken = 2
  MaxToken = 3
  Placeholders <- OnePlaceholder
  MaxContains = 2
  MaxResponse = 2
  MaxDelay = 3
  MaxCooldown = 5
  MaxInt = 7
  Worlds <- SomeWorlds
  DefaultEnv <- EnvPath
  DefaultConfig <- BotPath
INVARIANTS
  CheckIsDry
  EnvironmentWins
  AsSupplied
  RunningIsSound
