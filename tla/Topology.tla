------------------------------ MODULE Topology ------------------------------
(***************************************************************************)
(* pkg/diagnose/topology.go: topology spread constraints and inter-pod     *)
(* affinity, one operator per constraint or term; each yields the causes   *)
(* that the constraint or term adds (none or one).                         *)
(*                                                                         *)
(* nodes and eligible are sequences of nodes, placed a sequence of         *)
(* PlacedPod records [ns, node, labels].  Node names are unique, so a map  *)
(* from names to nodes is the set of the nodes.                            *)
(***************************************************************************)
EXTENDS Predicates, FiniteSets

Blocker == 0
Warning == 1
Info    == 2

\* A Cause: what the properties tell apart of its title and detail.
Cause(severity, title, subject, n) ==
  [severity |-> severity, title |-> title, subject |-> subject, n |-> n]

\* The causes of a check that reports one cause if it fails, and none otherwise.
CauseIf(cond, cause) == IF cond THEN <<cause>> ELSE <<>>

\* The nodes that carry the topology key, and the domains they make up.
carriers(nodes, key) == {k \in DOMAIN nodes : key \in DOMAIN nodes[k].labels}
domainsOf(nodes, key) == {nodes[k].labels[key] : k \in carriers(nodes, key)}

\* The placed pods that sit in domain d of these nodes and that a selector matches.
matchingIn(d, nodes, key, placed, namespaces, sel) ==
  {p \in DOMAIN placed :
     /\ placed[p].ns \in namespaces
     /\ LabelSelectorMatches(sel, placed[p].labels)
     /\ \E k \in carriers(nodes, key) :
          nodes[k].name = placed[p].node /\ nodes[k].labels[key] = d}

-----------------------------------------------------------------------------
(* Topology spread: the skew is taken over the domains of all the nodes,   *)
(* the pod may land only in a domain that has an eligible node.            *)

\* Mutant: pods of other namespaces are counted too.
spreadCountAnyNamespace(c, d, pod, nodes, placed) ==
  Cardinality(matchingIn(d, nodes, c.key, placed, {placed[p].ns : p \in DOMAIN placed}, c.selector))

spreadCount(c, d, pod, nodes, placed) ==
  Cardinality(matchingIn(d, nodes, c.key, placed, {pod.ns}, c.selector))

\* Mutant: the pod itself is not counted.
skewBefore(c, d, least, pod, nodes, placed) ==
  spreadCount(c, d, pod, nodes, placed) - spreadCount(c, least, pod, nodes, placed)

skewWith(c, d, least, pod, nodes, placed) ==
  spreadCount(c, d, pod, nodes, placed) + 1 - spreadCount(c, least, pod, nodes, placed)

feasible(c, pod, nodes, eligible, placed) ==
  \E d \in domainsOf(eligible, c.key) :
    \A least \in domainsOf(nodes, c.key) :
      skewWith(c, d, least, pod, nodes, placed) <= c.maxSkew

AnalyzeTopologySpread(c, pod, nodes, eligible, placed) ==
  IF c.whenUnsatisfiable # "DoNotSchedule" THEN <<>>
  ELSE IF domainsOf(nodes, c.key) = {}
  THEN <<Cause(Blocker, "NoTopologyKey", c.key, 0)>>
  ELSE CauseIf(~feasible(c, pod, nodes, eligible, placed),
               Cause(Blocker, "SpreadUnsatisfied", c.key, c.maxSkew))

-----------------------------------------------------------------------------
(* Inter-pod affinity: domains and placed pods are those of eligible nodes. *)

domainsWithMatch(t, pod, eligible, placed) ==
  {d \in domainsOf(eligible, t.key) :
     matchingIn(d, eligible, t.key, placed,
                IF t.namespaces = {} THEN {pod.ns} ELSE t.namespaces, t.selector) # {}}

affinityCauses(t, pod, eligible, placed) ==
  CauseIf(domainsWithMatch(t, pod, eligible, placed) = {},
          Cause(Blocker, "AffinityUnsatisfied", t.key, 0))

\* Mutant: no domain at all is taken for every domain being held.
antiAffinityCausesOfNone(t, pod, eligible, placed) ==
  CauseIf(domainsWithMatch(t, pod, eligible, placed) = domainsOf(eligible, t.key),
          Cause(Blocker, "AntiAffinityUnsatisfied", t.key, 0))

antiAffinityCauses(t, pod, eligible, placed) ==
  LET domains == domainsOf(eligible, t.key)
  IN  CauseIf(domains # {} /\ domainsWithMatch(t, pod, eligible, placed) = domains,
              Cause(Blocker, "AntiAffinityUnsatisfied", t.key, 0))
=============================================================================
