SPECIFICATION Spec
CONSTANTS
  MaxLine = 11
  MaxPayload = 9
  MaxParameters = 2
  Stems <- LineStems
  Pieces <- LinePieces
  MaxPieces = 5
CHECK_DEADLOCK FALSE
INVARIANTS
  ParametersExact
  TagsExact
  CanonicalForm
  SentAsMeant
