------------------------------ MODULE MCGather ------------------------------
(***************************************************************************)
(* Gathering a snapshot: lists that take several pages, of pods that do    *)
(* and do not count against their nodes, and short lists of chain pods in  *)
(* every state of health.                                                  *)
(***************************************************************************)
EXTENDS Gather

CONSTANTS
  MaxPods,          \* the length of the paged lists
  MaxChainPods      \* the length of the lists of chain pods

MCExtNames == <<"gpu">>
MCNumerals == {}
MCParseInt == [n \in {} |-> 0]

\* The order of the names is not that of the links; one name matches two links.
MCStepsOf == <<{}, {4}, {2, 6}, {2}>>
MCNodeNames == {"n1", "n2", "gone"}

Pod(name, ns, node, phase, statuses, containers, init) ==
  [name |-> name, ns |-> ns, node |-> node, phase |-> phase, statuses |-> statuses,
   labels |-> <<>>, containers |-> containers, initContainers |-> init]

Status(waiting, exit, ready) == [waiting |-> waiting, exit |-> exit, ready |-> ready]

-----------------------------------------------------------------------------
(* Paged lists: two nodes of three that pods are on *)

PlainPods ==
  {Pod(1, "a", "n1", "Running", <<>>, <<[cpu |-> 1, mem |-> 1]>>, <<[cpu |-> 2]>>),
   Pod(1, "b", "n1", "Pending", <<>>, <<[mem |-> 2], [cpu |-> 1, gpu |-> 1]>>, <<>>),
   Pod(1, "a", "gone", "Running", <<>>, <<[cpu |-> 1]>>, <<>>),
   Pod(1, "a", "n1", "Succeeded", <<>>, <<[cpu |-> 1]>>, <<>>),
   Pod(2, "gpu", "", "Pending", <<>>, <<>>, <<>>)}

PagedClusters ==
  [nodes : {<<"n1", "n2">>}, pods : UNION {[1..n -> PlainPods] : n \in 0..MaxPods}, limited : BOOLEAN]

-----------------------------------------------------------------------------
(* The operator chain, in one page *)

Healths ==
  {<<"Running", <<Status("", 0, TRUE), Status("", 0, TRUE)>>>>,
   <<"Running", <<Status("", 0, TRUE), Status("CrashLoopBackOff", 0, FALSE)>>>>,
   <<"Running", <<Status("", 1, FALSE)>>>>,
   <<"Running", <<Status("", 0, FALSE)>>>>,
   <<"Pending", <<Status("ContainerCreating", 0, FALSE)>>>>,
   <<"Succeeded", <<Status("", 0, FALSE)>>>>,
   <<"Failed", <<>>>>}

FewHealths == {<<"Running", <<>>>>, <<"Pending", <<>>>>}

ChainPod(name, ns, node, health) == Pod(name, ns, node, health[1], health[2], <<>>, <<>>)

OneLink == {ChainPod(4, "gpu", "n1", health) : health \in Healths}
AnyLink ==
  {ChainPod(name, ns, "n1", health) : name \in 2..4, ns \in {"gpu", "kube"}, health \in FewHealths}

ChainClusters ==
  [nodes : {<<"n1">>}, limited : {FALSE},
   pods : {<<p>> : p \in OneLink} \cup UNION {[1..n -> AnyLink] : n \in 1..MaxChainPods}]

MCClusters == PagedClusters \cup ChainClusters
=============================================================================
