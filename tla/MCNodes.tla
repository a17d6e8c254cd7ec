------------------------------- MODULE MCNodes -------------------------------
(***************************************************************************)
(* Analyze where the node loop decides: clusters of nodes that differ in   *)
(* what the filters look at, and clusters of nodes of different sizes and  *)
(* loads, where requests are met on no node, on one, or only in total.     *)
(***************************************************************************)
EXTENDS Analyze, MCInputs

CONSTANTS
  MaxNodes,         \* how many nodes that differ in the filters
  MaxSizedNodes     \* how many nodes that differ in size and load

MCExtNames == <<>>
MCNumerals == {}
MCParseInt == [n \in {} |-> 0]

-----------------------------------------------------------------------------
(* Filters *)

Amount(n) == [kind \in {"cpu", "mem"} |-> n]

\* A node is cordoned, NotReady, tainted, elsewhere, full: any mixture of these.
FilterNodes ==
  {Node(conditions, cordoned, taints, [zone |-> zone], Amount(1), Amount(used)) :
     conditions \in {Ready, NotReady}, cordoned \in BOOLEAN,
     taints \in {{Prefer}, {Prefer, ControlPlane}}, zone \in {"a", "b"}, used \in {0, 1}}

Tolerations == {{}, {[key |-> "", op |-> "Exists", value |-> "", effect |-> ""]}}

InZoneA == [exprs |-> <<[key |-> "zone", op |-> "In", values |-> <<"a">>]>>, fields |-> <<>>]
IsN2 == [exprs |-> <<>>, fields |-> <<[key |-> "metadata.name", op |-> "In", values |-> <<"n2">>]>>]

FilterPods ==
  {[PlainPod EXCEPT !.tolerations = t, !.nodeSelector = s, !.nodeTerms = a] :
     t \in Tolerations, s \in {NoLabels, [zone |-> "a"]}, a \in {<<>>, <<InZoneA, IsN2>>}}

\* Claims are missing or unbound where nothing else is varied but the nodes.
FilterInputs ==
  {Input(pod, nodes, Nil) : pod \in FilterPods, nodes \in SeqsUpTo(FilterNodes, MaxNodes)}
  \cup {[Input(PlainPod, nodes, Nil) EXCEPT !.missingPVCs = pvcs[1], !.unboundPVCs = pvcs[2]] :
          nodes \in SeqsUpTo(FilterNodes, MaxNodes), pvcs \in {<<{"data"}, {}>>, <<{"data"}, {"logs"}>>}}

-----------------------------------------------------------------------------
(* Capacity *)

\* Sizes are small or large per kind; a node may be used beyond its size.
CapacityNodes ==
  {Node(Ready, FALSE, {}, NoLabels, [cpu |-> cpu, mem |-> mem], [cpu |-> used, mem |-> 1]) :
     cpu \in {1, 3}, mem \in {1, 3}, used \in {0, 2}}
  \cup {Node(Ready, TRUE, {}, NoLabels, [cpu |-> 3, mem |-> 3], [cpu |-> 0, mem |-> 0])}

\* Two containers run side by side, an init container before them.
CapacityPods ==
  {[PlainPod EXCEPT !.containers = <<[cpu |-> 1, mem |-> 1], [cpu |-> cpu]>>,
                    !.initContainers = init] :
     cpu \in {0, 1}, init \in {<<>>, <<[cpu |-> 1], [mem |-> 3]>>, <<[cpu |-> 4, mem |-> 2]>>}}

CapacityInputs ==
  {Input(pod, nodes, Nil) : pod \in CapacityPods, nodes \in SeqsUpTo(CapacityNodes, MaxSizedNodes)}

-----------------------------------------------------------------------------
NodeInputs == FilterInputs \cup CapacityInputs

\* TLC evaluates a definition once, but a definition that a cfg substitutes for a
\* constant at each use: hence the second name.
MCNodeInputs == NodeInputs
=============================================================================
