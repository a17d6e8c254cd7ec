------------------------------ MODULE MCStages -------------------------------
(***************************************************************************)
(* Analyze where the later stages decide: pods that request devices, that  *)
(* spread or keep to or from other pods, and that claim devices by Dynamic *)
(* Resource Allocation.                                                    *)
(***************************************************************************)
EXTENDS Analyze, MCInputs

CONSTANT MaxNodes

MCExtNames == <<"gpu", "nic">>
MCNumerals == {}
MCParseInt == [n \in {} |-> 0]

NoneUsed == [cpu |-> 0, mem |-> 0, gpu |-> 0, nic |-> 0]

-----------------------------------------------------------------------------
(* Extended resources, for every state of the GPU enablement chain *)

Device == [key |-> "device", value |-> "", effect |-> "NoExecute"]

\* More devices may be used than advertised, once a device plugin is gone.
ExtendedNodes ==
  {Node(Ready, FALSE, taints, NoLabels,
        [cpu |-> 1, mem |-> 1, gpu |-> gpu, nic |-> nic],
        [NoneUsed EXCEPT !.gpu = used, !.nic = used]) :
     taints \in {{}, {Device}}, gpu \in {0, 2}, used \in {0, 1}, nic \in {0, 1}}

ExtendedPods ==
  {[PlainPod EXCEPT !.containers = containers, !.tolerations = t] :
     containers \in {<<[gpu |-> 1], [gpu |-> 1, cpu |-> 1]>>, <<[gpu |-> 1, nic |-> 1]>>, <<[nic |-> 1]>>},
     t \in {{}, {[key |-> "device", op |-> "Exists", value |-> "", effect |-> "NoExecute"]}}}

Chains ==
  {Nil} \cup {[detected |-> TRUE, firstBroken |-> b] : b \in {Nil, "driver"}}
        \cup {[detected |-> FALSE, firstBroken |-> Nil]}

ExtendedInputs ==
  {[Input(pod, nodes, Nil) EXCEPT !.chain = chain] :
     pod \in ExtendedPods, nodes \in SeqsUpTo(ExtendedNodes, MaxNodes), chain \in Chains}

-----------------------------------------------------------------------------
(* Topology spread and inter-pod affinity, over two zones *)

Web == [matchLabels |-> [app |-> "web"], matchExpressions |-> <<>>]
WebOrDb ==
  [matchLabels |-> NoLabels,
   matchExpressions |-> <<[key |-> "app", op |-> "In", values |-> <<"web", "db">>]>>]

\* A node is in zone a or b, or carries no zone; it is cordoned, full or free.
TopologyNodes ==
  {Node(Ready, state = "cordoned", {}, labels, [cpu |-> 1, mem |-> 1],
        [NoneUsed EXCEPT !.cpu = IF state = "full" THEN 1 ELSE 0]) :
     state \in {"free", "full", "cordoned"}, labels \in {[zone |-> "a"], [zone |-> "b"], NoLabels}}

\* Which pods are placed: on a node of the list each, or gone with their node.
PlacedPod(ns, node, app) == [ns |-> ns, node |-> node, labels |-> [app |-> app]]

Placements ==
  {<<>>} \cup {[k \in 1..Len(on) |-> PlacedPod("default", on[k], "web")] :
                 on \in {<<"n1">>, <<"n2">>, <<"n1", "n2">>, <<"n9">>}}
         \cup {<<PlacedPod("default", "n1", "web"), PlacedPod("default", "n1", "web"),
                 PlacedPod("default", "n2", "db")>>,
               <<PlacedPod("other", "n1", "web")>>,
               <<PlacedPod("default", "n1", "db")>>}

Spread(skew, when) == [key |-> "zone", maxSkew |-> skew, whenUnsatisfiable |-> when, selector |-> Web]
Term(namespaces, selector) == [key |-> "zone", namespaces |-> namespaces, selector |-> selector]

TopologyPods ==
  {[PlainPod EXCEPT !.labels = labels, !.spread = spread] :
     labels \in {NoLabels, [app |-> "web"]},
     spread \in {<<Spread(1, "DoNotSchedule")>>,
                 <<[Spread(2, "ScheduleAnyway") EXCEPT !.selector = WebOrDb], Spread(2, "DoNotSchedule")>>}}
  \cup {[PlainPod EXCEPT !.affinity = <<Term({}, Web)>>],
        [PlainPod EXCEPT !.antiAffinity = <<Term({"default", "other"}, Web), Term({}, Nil)>>],
        [PlainPod EXCEPT !.affinity = <<Term({"other"}, Web)>>, !.antiAffinity = <<Term({}, Web)>>]}

TopologyInputs ==
  {[Input(pod, nodes, Nil) EXCEPT !.placed = placed] :
     pod \in TopologyPods, nodes \in SeqsUpTo(TopologyNodes, MaxNodes), placed \in Placements}

-----------------------------------------------------------------------------
(* Resource claims: made or not, allocated or not, here or in another namespace *)

OneNode == <<Node(Ready, FALSE, {}, NoLabels, [cpu |-> 1, mem |-> 1], NoneUsed)>>

Entries == {[name |-> "own", claim |-> "c1"], [name |-> "made", claim |-> ""]}

ClaimPods ==
  {[PlainPod EXCEPT !.resourceClaims = entries, !.claimStatuses = statuses] :
     entries \in SeqsUpTo(Entries, 2),
     statuses \in {<<>>, <<[name |-> "made", claim |-> Nil]>>,
                   <<[name |-> "own", claim |-> "c1"], [name |-> "made", claim |-> Nil],
                     [name |-> "made", claim |-> "c2"], [name |-> "made", claim |-> "c1"]>>}}

Claim(ns, name, allocated, classes) ==
  [ns |-> ns, name |-> name, allocated |-> allocated, classes |-> classes]

ClaimSets ==
  {{Claim("default", "c1", a1, {"gpu"}), Claim(ns, "c2", a2, classes)} :
     a1 \in BOOLEAN, a2 \in BOOLEAN, ns \in {"default", "other"}, classes \in {{}, {"gpu", "fpga"}}}
  \cup {{}}

ClaimInputs ==
  {[Input(pod, OneNode, Nil) EXCEPT
      !.dra = [claims |-> claims, devices |-> devices, classes |-> classes]] :
     pod \in ClaimPods, claims \in ClaimSets,
     devices \in {Nil, 0, 2}, classes \in {Nil, {}, {"gpu"}}}

-----------------------------------------------------------------------------
StageInputs == ExtendedInputs \cup TopologyInputs \cup ClaimInputs

\* As in MCNodes, the name that a cfg substitutes.
MCStageInputs == StageInputs
=============================================================================
