---------------------------- MODULE MCSelectors -----------------------------
(***************************************************************************)
(* Every operator, with no, one and two values among strings that parse,   *)
(* one that does not and the empty string, against every label map on two  *)
(* keys.                                                                   *)
(***************************************************************************)
EXTENDS Selectors

Strings == {"", "1", "2", "x"}
MCNumerals == {"1", "2"}
MCParseInt == [n \in MCNumerals |-> IF n = "1" THEN 1 ELSE 2]

AnyRequirement ==
  [key : {"size", "zone"},
   op : {"In", "NotIn", "Exists", "DoesNotExist", "Gt", "Lt", ""},
   values : UNION {[1..n -> Strings] : n \in 0..2}]

AnyNodeSelector == UNION {[keys -> {"", "x"}] : keys \in {{}, {"zone"}}}
=============================================================================
