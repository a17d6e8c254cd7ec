\* Extended resources, topology and claims: up to two nodes, two names, two zones, two claims.
SPECIFICATION Spec
CONSTANTS
  Nil = Nil
  ExtNames <- MCExtNames
  GPUNames = {"gpu"}
  Numerals <- MCNumerals
  ParseInt <- MCParseInt
  MaxNodes = 2
  Inputs <- MCStageInputs
INVARIANTS
  CausesMatchObstacles
  ExtendedTruthful
  SpreadBlockerReal
PROPERTIES
  KeepsPromise
