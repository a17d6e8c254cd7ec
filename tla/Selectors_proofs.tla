-------------------------- MODULE Selectors_proofs --------------------------
(***************************************************************************)
(* The label predicates of pkg/diagnose agree, for any requirements, any   *)
(* nodeSelectors and any labels: what a pod asks for stays as it is        *)
(* written, and the rest is what the predicates make of it.                *)
(***************************************************************************)
EXTENDS Selectors, TLAPS

\* What a pod spec asks for does not change while labels come and go.
Asked == requirement \in Requirements /\ nodeSelector \in NodeSelectors

LEMMA AskedStays == Spec => []Asked
<1>1. Init => Asked
  BY DEF Init, Asked
<1>2. Asked /\ [Next]_vars => Asked'
  BY DEF Asked, Next, SetLabel, RemoveLabel, vars
<1> QED
  BY <1>1, <1>2, PTL DEF Spec

-----------------------------------------------------------------------------
(* The two matchers of requirements *)

\* A selector of one requirement asks for it and nothing else (topology.go).
LEMMA SelectorOfOne ==
  ASSUME NEW e, NEW given, selectorOf(e) # Nil
  PROVE  LabelSelectorMatches(selectorOf(e), given) <=>
           LET present == e.key \in DOMAIN given
               listed  == contains(e.values, LabelOf(given, e.key))
           IN  /\ e.op = "In" => present /\ listed
               /\ e.op = "NotIn" => ~(present /\ listed)
               /\ e.op = "Exists" => present
               /\ e.op = "DoesNotExist" => ~present
<1> DEFINE sel == selectorOf(e)
<1>1. DOMAIN sel.matchLabels = {} /\ DOMAIN sel.matchExpressions = {1} /\ sel.matchExpressions[1] = e
  BY DEF selectorOf
<1>2. sel # Nil
  OBVIOUS
<1> HIDE DEF sel
<1>3. LabelSelectorMatches(sel, given) <=>
        LET present == e.key \in DOMAIN given
            listed  == contains(e.values, LabelOf(given, e.key))
        IN  /\ e.op = "In" => present /\ listed
            /\ e.op = "NotIn" => ~(present /\ listed)
            /\ e.op = "Exists" => present
            /\ e.op = "DoesNotExist" => ~present
  BY <1>1, <1>2 DEF LabelSelectorMatches
<1> QED
  BY <1>3 DEF sel

\* On the operators that both kinds of selector have (predicates.go:127, topology.go:22).
LEMMA MatchersAgree ==
  ASSUME NEW e, NEW given, selectorOf(e) # Nil,
         e.op \in {"In", "NotIn", "Exists", "DoesNotExist"}
  PROVE  LabelSelectorMatches(selectorOf(e), given) <=> matchExpr(e, given)
<1> DEFINE present == e.key \in DOMAIN given
           listed  == contains(e.values, LabelOf(given, e.key))
<1>1. LabelSelectorMatches(selectorOf(e), given) <=>
        /\ e.op = "In" => present /\ listed
        /\ e.op = "NotIn" => ~(present /\ listed)
        /\ e.op = "Exists" => present
        /\ e.op = "DoesNotExist" => ~present
  BY SelectorOfOne
<1>2. matchExpr(e, given) <=>
        \/ e.op = "In" /\ present /\ listed
        \/ e.op = "NotIn" /\ ~(present /\ listed)
        \/ e.op = "Exists" /\ present
        \/ e.op = "DoesNotExist" /\ ~present
  BY DEF matchExpr, matchExprValue
<1> HIDE DEF present, listed
<1> QED
  BY <1>1, <1>2

-----------------------------------------------------------------------------
(* The third way *)

LEMMA OneValue ==
  ASSUME NEW value, NEW v
  PROVE  contains(<<value>>, v) <=> v = value
<1>1. DOMAIN <<value>> = {1} /\ <<value>>[1] = value
  OBVIOUS
<1> QED
  BY <1>1 DEF contains

\* An entry of a nodeSelector asks for In, if its value is not empty.
LEMMA EntryAgrees ==
  ASSUME NEW value, value # "", NEW key, NEW given
  PROVE  LabelOf(given, key) = value <=>
           matchExpr([key |-> key, op |-> "In", values |-> <<value>>], given)
<1> DEFINE e == [key |-> key, op |-> "In", values |-> <<value>>]
<1>1. e.key = key /\ e.op = "In" /\ e.values = <<value>>
  OBVIOUS
<1>2. \A v : contains(<<value>>, v) <=> v = value
  BY OneValue
<1> HIDE DEF e
<1>3. matchExpr(e, given) <=> key \in DOMAIN given /\ LabelOf(given, key) = value
  BY <1>1, <1>2 DEF matchExpr, matchExprValue
<1>4. LabelOf(given, key) = value => key \in DOMAIN given
  BY DEF LabelOf
<1>5. LabelOf(given, key) = value <=> matchExpr(e, given)
  BY <1>3, <1>4
<1> QED
  BY <1>5 DEF e

LEMMA NodeSelectorAgrees ==
  ASSUME \A key \in DOMAIN nodeSelector : nodeSelector[key] # ""
  PROVE  selectsNode <=> \A key \in DOMAIN nodeSelector : matchExpr(required(key), labels)
<1>1. selectsNode <=> \A key \in DOMAIN nodeSelector : LabelOf(labels, key) = nodeSelector[key]
  BY DEF selectsNode, MatchesNodeSelector
<1>2. ASSUME NEW key \in DOMAIN nodeSelector
      PROVE  LabelOf(labels, key) = nodeSelector[key] <=> matchExpr(required(key), labels)
  BY EntryAgrees DEF required
<1> QED
  BY <1>1, <1>2

-----------------------------------------------------------------------------
\* predicates.go:75-152 and topology.go:22-53: however a requirement is written, it means
\* the same, whatever the labels become.
THEOREM OneMeaning == Spec => []SelectorsAgree
<1>1. Asked => SelectorsAgree
  BY MatchersAgree, NodeSelectorAgrees, NilAssumption DEF Asked, SelectorsAgree
<1> QED
  BY <1>1, AskedStays, PTL

\* predicates.go:122-152, matchExprValue: without the label only the negative operators
\* hold, whatever the values are.
THEOREM OnlyNegative == Spec => []AbsenceIsNegative
<1>1. AbsenceIsNegative
  BY DEF AbsenceIsNegative, matchExpr, matchExprValue
<1> QED
  BY <1>1, PTL
=============================================================================
