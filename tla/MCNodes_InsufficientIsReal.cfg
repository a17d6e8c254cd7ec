\* Refutes InsufficientIsReal, with the inputs of MCNodes.
SPECIFICATION Spec
CONSTANTS
  Nil = Nil
  ExtNames <- MCExtNames
  GPUNames = {}
  Numerals <- MCNumerals
  ParseInt <- MCParseInt
  MaxNodes = 2
  MaxSizedNodes = 3
  Inputs <- MCNodeInputs
INVARIANT
  InsufficientIsReal
