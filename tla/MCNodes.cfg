\* Filters and capacity: up to two nodes with every mixture of defects, up to three of different sizes.
SPECIFICATION Spec
CONSTANTS
  Nil = Nil
  ExtNames <- MCExtNames
  GPUNames = {}
  Numerals <- MCNumerals
  ParseInt <- MCParseInt
  MaxNodes = 2
  MaxSizedNodes = 3
  Inputs <- MCNodeInputs
INVARIANTS
  TypeOK
  NeverUndetermined
  NeverEmptyNorContradictory
  NoRoomIsBlocked
  CapacityTruthful
PROPERTIES
  FindingsKept
  KeepsPromise
