------------------------------ MODULE MCInputs ------------------------------
(***************************************************************************)
(* Building blocks of the Inputs that the model-checking modules run       *)
(* Analyze on: a plain pod and a plain node, to be varied with EXCEPT.     *)
(***************************************************************************)
EXTENDS Integers, Sequences

NoLabels == [k \in {} |-> ""]

\* Sequences of 0 to n elements of S.
SeqsUpTo(S, n) == UNION {[1..m -> S] : m \in 0..n}

PlainPod ==
  [ns |-> "default", labels |-> NoLabels,
   containers |-> <<[cpu |-> 1, mem |-> 1]>>, initContainers |-> <<>>,
   tolerations |-> {}, nodeSelector |-> NoLabels, nodeTerms |-> <<>>,
   spread |-> <<>>, affinity |-> <<>>, antiAffinity |-> <<>>,
   resourceClaims |-> <<>>, claimStatuses |-> <<>>]

Ready    == <<[type |-> "Ready", status |-> "True"]>>
NotReady == <<[type |-> "MemoryPressure", status |-> "True"], [type |-> "Ready", status |-> "Unknown"]>>

ControlPlane == [key |-> "control-plane", value |-> "", effect |-> "NoSchedule"]
Prefer       == [key |-> "batch", value |-> "yes", effect |-> "PreferNoSchedule"]

\* Names are given to the nodes of a list by their position.
NodeNames == <<"n1", "n2", "n3">>
Named(nodes) == [k \in DOMAIN nodes |-> [nodes[k] EXCEPT !.name = NodeNames[k]]]

Node(conditions, cordoned, taints, labels, alloc, used) ==
  [name |-> "", conditions |-> conditions, cordoned |-> cordoned, taints |-> taints,
   labels |-> labels, alloc |-> alloc, used |-> used]

NoDRA(nil) == [claims |-> {}, devices |-> nil, classes |-> nil]

Input(pod, nodes, nil) ==
  [pod |-> pod, nodes |-> Named(nodes), placed |-> <<>>, missingPVCs |-> {},
   unboundPVCs |-> {}, chain |-> nil, dra |-> NoDRA(nil)]
=============================================================================
