SPECIFICATION Spec
CONSTANTS
  None = None
  MaxLogin = 2
  Rules <- SomeRules
  Hype <- SomeHype
  Lines <- SomeLines
  MaxHandled = 3
  MaxTime = 4
  MaxSessions = 2
CHECK_DEADLOCK FALSE
INVARIANTS
  RulesExact
  HypeExact
  RotatesIndependently
