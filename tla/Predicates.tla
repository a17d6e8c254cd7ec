----------------------------- MODULE Predicates -----------------------------
(***************************************************************************)
(* The per-node predicates of pkg/diagnose/predicates.go and the label     *)
(* selector of pkg/diagnose/topology.go, as operators.                     *)
(*                                                                         *)
(* A label map is a function whose domain is the keys it carries; Go reads *)
(* a missing key as the empty string, which is what LabelOf does.  A       *)
(* requirement (NodeSelectorRequirement, LabelSelectorRequirement) is a    *)
(* record [key, op, values], values a sequence of strings.                 *)
(***************************************************************************)
EXTENDS Integers, Sequences

CONSTANTS
  Nil,          \* a nil pointer
  Numerals,     \* the strings strconv.ParseInt accepts ...
  ParseInt      \* ... and the function that gives their values

ASSUME NumeralsAssumption == ParseInt \in [Numerals -> Int]

LabelOf(labels, key) == IF key \in DOMAIN labels THEN labels[key] ELSE ""

contains(values, v) == \E k \in DOMAIN values : values[k] = v

-----------------------------------------------------------------------------
(* Node health and taints *)

IsCordoned(node) == node.cordoned

\* Only the first condition of type Ready is looked at.
IsReady(node) ==
  \E c \in DOMAIN node.conditions :
    /\ node.conditions[c] = [type |-> "Ready", status |-> "True"]
    /\ \A b \in 1..(c - 1) : node.conditions[b].type # "Ready"

tolerationTolerates(t, taint) ==
  /\ t.effect \in {"", taint.effect}
  /\ \/ t.key = "" /\ t.op = "Exists"
     \/ /\ t.key # "" /\ t.key = taint.key
        /\ t.op = "Exists" \/ (t.op \in {"", "Equal"} /\ t.value = taint.value)

UntoleratedTaints(pod, node) ==
  {taint \in node.taints :
     /\ taint.effect \in {"NoSchedule", "NoExecute"}
     /\ ~ \E t \in pod.tolerations : tolerationTolerates(t, taint)}

-----------------------------------------------------------------------------
(* Node selector and node affinity *)

MatchesNodeSelector(pod, node) ==
  \A k \in DOMAIN pod.nodeSelector : LabelOf(node.labels, k) = pod.nodeSelector[k]

\* The comparison of a Gt or Lt requirement: both sides must parse.
comparesTo(e, val) ==
  /\ e.values # <<>>
  /\ val \in Numerals /\ e.values[1] \in Numerals
  /\ \/ e.op = "Gt" /\ ParseInt[val] > ParseInt[e.values[1]]
     \/ e.op = "Lt" /\ ParseInt[val] < ParseInt[e.values[1]]

\* Mutant: NotIn asks for the label to be there.
matchExprValuePresent(e, val, present) ==
  \/ e.op \in {"In", "NotIn"} /\ present /\ (contains(e.values, val) <=> e.op = "In")
  \/ e.op = "Exists" /\ present
  \/ e.op = "DoesNotExist" /\ ~present
  \/ e.op \in {"Gt", "Lt"} /\ present /\ comparesTo(e, val)

matchExprValue(e, val, present) ==
  \/ e.op = "In" /\ present /\ contains(e.values, val)
  \/ e.op = "NotIn" /\ ~(present /\ contains(e.values, val))
  \/ e.op = "Exists" /\ present
  \/ e.op = "DoesNotExist" /\ ~present
  \/ e.op \in {"Gt", "Lt"} /\ present /\ comparesTo(e, val)

\* Mutant: a missing label is read as a label with an empty value.
matchExprOfEmpty(e, labels) == matchExprValue(e, LabelOf(labels, e.key), TRUE)

matchExpr(e, labels) ==
  matchExprValue(e, LabelOf(labels, e.key), e.key \in DOMAIN labels)

\* Every field but metadata.name reads as a present, empty value.
matchTerm(term, node) ==
  /\ \A k \in DOMAIN term.exprs : matchExpr(term.exprs[k], node.labels)
  /\ \A k \in DOMAIN term.fields :
       LET e == term.fields[k]
       IN  matchExprValue(e, IF e.key = "metadata.name" THEN node.name ELSE "", TRUE)

\* pod.nodeTerms are the required terms, <<>> when there is no required affinity.
MatchesNodeAffinity(pod, node) ==
  \/ pod.nodeTerms = <<>>
  \/ \E k \in DOMAIN pod.nodeTerms : matchTerm(pod.nodeTerms[k], node)

-----------------------------------------------------------------------------
(* Label selectors of topology spread constraints and pod affinity terms *)

\* An operator outside the four is passed over, as by the switch of the code.
LabelSelectorMatches(sel, labels) ==
  /\ sel # Nil
  /\ \A k \in DOMAIN sel.matchLabels : LabelOf(labels, k) = sel.matchLabels[k]
  /\ \A k \in DOMAIN sel.matchExpressions :
       LET e == sel.matchExpressions[k]
           present == e.key \in DOMAIN labels
           listed  == contains(e.values, LabelOf(labels, e.key))
       IN  /\ e.op = "In" => present /\ listed
           /\ e.op = "NotIn" => ~(present /\ listed)
           /\ e.op = "Exists" => present
           /\ e.op = "DoesNotExist" => ~present

-----------------------------------------------------------------------------
(* The node filters of Analyze, in the order it applies them *)

Filters == <<"cordoned", "notready", "taint", "selector", "affinity">>

Fails(filter, pod, node) ==
  CASE filter = "cordoned" -> IsCordoned(node)
    [] filter = "notready" -> ~IsReady(node)
    [] filter = "taint"    -> UntoleratedTaints(pod, node) # {}
    [] filter = "selector" -> ~MatchesNodeSelector(pod, node)
    [] filter = "affinity" -> ~MatchesNodeAffinity(pod, node)

Passes(pod, node) == \A f \in DOMAIN Filters : ~Fails(Filters[f], pod, node)
=============================================================================
