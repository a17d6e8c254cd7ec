--------------------------- MODULE OperatorChain ----------------------------
(***************************************************************************)
(* pkg/diagnose/operator.go: AnalyzeOperatorChain, the health of the GPU   *)
(* enablement chain as read from pod status.  chainPods is the sequence of *)
(* pods that the caller collected; the loop looks at one link of gpuChain  *)
(* after the other.                                                        *)
(*                                                                         *)
(* A pod is a record with name, ns, node, phase and statuses.  Names are   *)
(* numbers in the order of the strings; StepsOf gives the links of the     *)
(* chain that have a pattern contained in the name.  A container status is *)
(* a record [waiting, exit, ready]: waiting is the reason of a Waiting     *)
(* state, "" without one; exit is the code of a Terminated state, else 0.  *)
(***************************************************************************)
EXTENDS Predicates

CONSTANT StepsOf      \* for each pod name, the links of gpuChain it belongs to

gpuChain == <<"node-feature-discovery", "driver", "container-toolkit", "device-plugin",
              "gpu-feature-discovery", "dcgm", "mig-manager", "operator-validator">>

Links == 1..Len(gpuChain)

ASSUME StepsOfAssumption ==
  /\ DOMAIN StepsOf \subseteq Int
  /\ \A name \in DOMAIN StepsOf : StepsOf[name] \subseteq Links

\* A nil *Component is told apart from every component.
ASSUME NilAssumption ==
  Nil \notin [name : {gpuChain[s] : s \in Links}, pod : DOMAIN StepsOf,
              ns : STRING, node : STRING, healthy : BOOLEAN]

VARIABLES
  chainPods,    \* the pods given to AnalyzeOperatorChain
  link,         \* the next link of gpuChain to look at
  chain         \* the ChainStatus so far

chainVars == <<chainPods, link, chain>>

-----------------------------------------------------------------------------
(* Operators *)

ChainRelevant(pod) == StepsOf[pod.name] # {}

\* The container is not stuck in a waiting state and did not exit with an error.
startsWell(status) ==
  status.waiting \in {"", "ContainerCreating", "PodInitializing"} /\ status.exit = 0

chainPodHealth(pod) ==
  \/ pod.phase = "Succeeded"
  \/ /\ pod.phase = "Running"
     /\ \A s \in DOMAIN pod.statuses : startsWell(pod.statuses[s]) /\ pod.statuses[s].ready

matchChainPods(pods, s) == {i \in DOMAIN pods : s \in StepsOf[pods[i].name]}

\* Any of these may come first: sort.Slice is not stable, and pods of several
\* namespaces may share a name.
sortedFirst(pods, matches) ==
  {i \in matches : \A j \in matches : pods[i].name <= pods[j].name}

\* The component of a link is its first unhealthy pod, or its first pod.
Component(s, pod, healthy) ==
  [name |-> gpuChain[s], pod |-> pod.name, ns |-> pod.ns,
   node |-> IF healthy THEN "" ELSE pod.node, healthy |-> healthy]

\* Mutant: the last broken component replaces the first.
withComponentLast(status, comp) ==
  [detected |-> TRUE, components |-> Append(status.components, comp),
   firstBroken |-> IF comp.healthy THEN status.firstBroken ELSE comp]

withComponent(status, comp) ==
  [detected |-> TRUE, components |-> Append(status.components, comp),
   firstBroken |-> IF ~comp.healthy /\ status.firstBroken = Nil
                   THEN comp ELSE status.firstBroken]

-----------------------------------------------------------------------------
(* The loop *)

NoChain == [detected |-> FALSE, components |-> <<>>, firstBroken |-> Nil]

ChainInit ==
  /\ \E n \in Nat : DOMAIN chainPods = 1..n
  /\ \A i \in DOMAIN chainPods :
       /\ chainPods[i].name \in DOMAIN StepsOf
       /\ chainPods[i].ns \in STRING /\ chainPods[i].node \in STRING
  /\ link = 1
  /\ chain = NoChain

\* No pod belongs to this link: it is passed over.
SkipLink ==
  /\ link \in Links
  /\ matchChainPods(chainPods, link) = {}
  /\ link' = link + 1
  /\ UNCHANGED <<chainPods, chain>>

ObserveLink ==
  /\ link \in Links
  /\ LET matches == matchChainPods(chainPods, link)
         broken == {i \in matches : ~chainPodHealth(chainPods[i])}
     IN  \E i \in sortedFirst(chainPods, IF broken = {} THEN matches ELSE broken) :
           chain' = withComponent(chain, Component(link, chainPods[i], broken = {}))
  /\ link' = link + 1
  /\ UNCHANGED chainPods

ChainNext == SkipLink \/ ObserveLink

ChainSpec == ChainInit /\ [][ChainNext]_chainVars

-----------------------------------------------------------------------------
(* Properties *)

\* A link is broken when one of its pods is unhealthy.
Broken(s, pods) ==
  \E i \in DOMAIN pods : s \in StepsOf[pods[i].name] /\ ~chainPodHealth(pods[i])

\* What the advice "fix the first broken link" (operator.go:169) relies on: the
\* link named is broken at the pod named, every link before it is whole, and no
\* link is named only when all links looked at are whole.
FirstBrokenIsFirst ==
  IF chain.firstBroken = Nil
  THEN \A s \in 1..(link - 1) : ~Broken(s, chainPods)
  ELSE \E s \in 1..(link - 1) :
         /\ chain.firstBroken.name = gpuChain[s]
         /\ \A t \in 1..(s - 1) : ~Broken(t, chainPods)
         /\ \E i \in DOMAIN chainPods :
              /\ s \in StepsOf[chainPods[i].name]
              /\ ~chainPodHealth(chainPods[i])
              /\ chain.firstBroken.pod = chainPods[i].name
              /\ chain.firstBroken.ns = chainPods[i].ns
              /\ chain.firstBroken.node = chainPods[i].node
=============================================================================
