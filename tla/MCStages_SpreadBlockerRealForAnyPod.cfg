\* Refutes SpreadBlockerRealForAnyPod, with the inputs of MCStages.
SPECIFICATION Spec
CONSTANTS
  Nil = Nil
  ExtNames <- MCExtNames
  GPUNames = {"gpu"}
  Numerals <- MCNumerals
  ParseInt <- MCParseInt
  MaxNodes = 2
  Inputs <- MCStageInputs
INVARIANT
  SpreadBlockerRealForAnyPod
