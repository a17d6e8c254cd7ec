----------------------------- MODULE Selectors ------------------------------
(***************************************************************************)
(* The label predicates of pkg/diagnose under relabelling.  A requirement  *)
(* and a nodeSelector are written once, in a pod spec; labels come and go  *)
(* on the object they are matched with, as the advice of the diagnosis     *)
(* ("kubectl label node", analyze.go:263) asks.                            *)
(***************************************************************************)
EXTENDS Predicates

CONSTANTS
  Requirements,   \* the requirements [key, op, values] of pod specs
  NodeSelectors,  \* the nodeSelectors of pod specs
  LabelKeys, LabelValues

selectorOf(e) == [matchLabels |-> [k \in {} |-> ""], matchExpressions |-> <<e>>]

\* A selector is not a nil pointer.
ASSUME NilAssumption == \A e \in Requirements : selectorOf(e) # Nil

VARIABLES requirement, nodeSelector, labels

vars == <<requirement, nodeSelector, labels>>

Init ==
  /\ requirement \in Requirements
  /\ nodeSelector \in NodeSelectors
  /\ labels = [k \in {} |-> ""]

SetLabel ==
  /\ \E key \in LabelKeys, value \in LabelValues :
       labels' = [k \in DOMAIN labels \cup {key} |-> IF k = key THEN value ELSE labels[k]]
  /\ UNCHANGED <<requirement, nodeSelector>>

RemoveLabel ==
  /\ \E key \in DOMAIN labels : labels' = [k \in DOMAIN labels \ {key} |-> labels[k]]
  /\ UNCHANGED <<requirement, nodeSelector>>

Next == SetLabel \/ RemoveLabel

Spec == Init /\ [][Next]_vars

-----------------------------------------------------------------------------
selectsNode == MatchesNodeSelector([nodeSelector |-> nodeSelector], [labels |-> labels])

required(key) == [key |-> key, op |-> "In", values |-> <<nodeSelector[key]>>]

\* The code matches label requirements twice: node affinity with matchExprValue,
\* pod affinity and topology spread with LabelSelectorMatches.  On the operators
\* that both kinds of selector have, the two give the same answer.  A nodeSelector
\* is a third way to ask for In, if its values are not empty: MatchesNodeSelector
\* (predicates.go:77) takes an absent label for one with an empty value.
SelectorsAgree ==
  /\ requirement.op \in {"In", "NotIn", "Exists", "DoesNotExist"} =>
       (LabelSelectorMatches(selectorOf(requirement), labels) <=> matchExpr(requirement, labels))
  /\ (\A key \in DOMAIN nodeSelector : nodeSelector[key] # "") =>
       (selectsNode <=> \A key \in DOMAIN nodeSelector : matchExpr(required(key), labels))

\* Only the negative operators accept an object that lacks the key, whatever the
\* values are; a label with an empty value is not the same as no label.
AbsenceIsNegative ==
  requirement.key \notin DOMAIN labels =>
    (matchExpr(requirement, labels) <=> requirement.op \in {"NotIn", "DoesNotExist"})
=============================================================================
