\* Label predicates: every requirement against every label map on two keys.
SPECIFICATION Spec
CONSTANTS
  Nil = Nil
  Numerals <- MCNumerals
  ParseInt <- MCParseInt
  Requirements <- AnyRequirement
  NodeSelectors <- AnyNodeSelector
  LabelKeys = {"size", "zone"}
  LabelValues = {"", "1", "2", "x"}
INVARIANTS
  SelectorsAgree
  AbsenceIsNegative
