-------------------------------- MODULE Run ---------------------------------
(***************************************************************************)
(* main.go: run and the functions it gathers its inputs with.  The pending *)
(* pods are listed, then the nodes, the pods of the whole cluster and the  *)
(* DRA objects, then for each pending pod its volume claims and its events;*)
(* each pod is diagnosed with what was read.  Meanwhile the cluster goes   *)
(* on: pods are bound, end and are replaced, nodes come and go, volumes    *)
(* are bound and claims allocated.  Nodes and pods are read from the watch *)
(* cache of the API server, which may lag behind.  Any call may fail or be *)
(* left unanswered until the deadline of the run's context.                *)
(*                                                                         *)
(* The stream of pods is one step, as module Gather shows that it may be   *)
(* taken to be, and a diagnosis is the verdict that Analyze reaches:       *)
(* Obstructed (its property KeepsPromise), for Inputs that are WellFormed. *)
(*                                                                         *)
(* A pod is one of MCInputs with name, phase, node and volumes, a sequence *)
(* of claim names ("" for a volume of another kind); a cluster is a record *)
(* with pods, nodes, events, the phase of each PersistentVolumeClaim, and  *)
(* the DRA objects claims, devices and classes.                            *)
(***************************************************************************)
EXTENDS Obstacles, Totals

CONSTANTS
  Clusters,     \* the clusters a run begins with
  Requests,     \* the options of a run: records [podName, ns, all, structured]
  Spare,        \* nodes that may join
  MaxChanges    \* how often the cluster changes during a run

\* Lists are lists of pods, nodes and events with their fields; a name stands for one
\* pod or one claim of its namespace.
PodFields == {"ns", "name", "phase", "node", "volumes", "containers", "initContainers",
              "spread", "affinity", "antiAffinity", "resourceClaims"}

WellFormedPods(list) ==
  /\ IsSequence(list)
  /\ \A k \in DOMAIN list : /\ PodFields \subseteq DOMAIN list[k]
                           /\ IsSequence(list[k].volumes) /\ WellFormedPod(list[k])

WellFormedNode(nv) ==
  {"name", "alloc", "used"} \subseteq DOMAIN nv /\ Allocatable(nv) \in [Kinds -> Nat]

WellFormedNodes(list) ==
  IsSequence(list) /\ \A k \in DOMAIN list : WellFormedNode(list[k])

WellFormedEvents(list) ==
  IsSequence(list) /\ \A k \in DOMAIN list : list[k].last \in Nat

WellFormedClaims(claims) ==
  NamesUnique(claims) /\ \A claim \in claims : {"ns", "name", "allocated"} \subseteq DOMAIN claim

WellFormedCluster(c) ==
  /\ {"pods", "nodes", "pvcs", "claims", "events"} \subseteq DOMAIN c
  /\ WellFormedPods(c.pods) /\ WellFormedNodes(c.nodes)
  /\ WellFormedEvents(c.events) /\ WellFormedClaims(c.claims)
  /\ \A j, k \in DOMAIN c.pods :
       c.pods[j].ns = c.pods[k].ns /\ c.pods[j].name = c.pods[k].name => j = k

ASSUME ClustersAssumption ==
  /\ \A c \in Clusters : WellFormedCluster(c)
  /\ \A n \in Spare : WellFormedNode(n)

VARIABLES
  opts, cluster,
  nodesCache, podsCache,    \* what the watch cache holds
  changes,                  \* how often the cluster has changed
  deadline,                 \* the context's 30 seconds have passed
  pc,
  pending,                  \* the result of pendingPods
  nodes, used, placed,      \* the results of gatherNodeViews
  dra,                      \* the results of gatherDRA
  turn, volume,             \* the pod being diagnosed, its next volume
  missing, unbound,         \* what its volumes showed so far
  results,
  outcome,                  \* what run returns: "none", "blockers" or "error", and ""
                            \* until it does
  truth, seen, torn,        \* history: the cluster when its pods were streamed, what
                            \* was streamed, and whether some other read disagrees
  claimsLost, unread,       \* history: which reads failed
  bound, replaced           \* history: pods bound since they were listed, and replaced

environment == <<cluster, nodesCache, podsCache, changes, bound, replaced>>
gathered == <<pending, nodes, used, placed, dra>>
perPod == <<turn, volume, missing, unbound, unread, results>>
history == <<truth, seen, torn, claimsLost>>
vars == <<opts, environment, deadline, pc, gathered, perPod, outcome, history>>

-----------------------------------------------------------------------------
(* Operators *)

\* Mutant: pods that wait for their kubelet are taken for unscheduled ones.
unscheduledByPhase(pod) == pod.phase = "Pending"

unscheduled(pod) == pod.phase = "Pending" /\ pod.node = ""

scope == IF opts.all THEN "" ELSE opts.ns

inScope(pod) == scope = "" \/ pod.ns = scope

idOf(p) == <<p.ns, p.name>>

samePod(p, q) == idOf(p) = idOf(q)

\* Mutant: only the first pending pod is asked whether it uses DRA.
needsDRAFirst(pods) == pods # <<>> /\ pods[1].resourceClaims # <<>>

needsDRA(pods) == \E k \in DOMAIN pods : pods[k].resourceClaims # <<>>

NoObjects == [claims |-> {}, devices |-> Nil, classes |-> Nil]

\* The total over the pods streamed, for each node by its name.
viewsOf(nodeList, total) ==
  [k \in DOMAIN nodeList |-> [nodeList[k] EXCEPT !.used = total[nodeList[k].name]]]

\* The list is of the pod's namespace; involvedObject is that pod.
isFailedScheduling(e, pod) ==
  e.ns = pod.ns /\ e.reason = "FailedScheduling" /\ e.kind = "Pod" /\ e.name = pod.name

\* Mutant: the last event of the list is taken for the latest.
Dated(e, latest) == e.last > 0

\* The zero time is not after itself: an event without LastTimestamp never wins.
After(e, latest) == e.last > latest.last

\* The latest failure among the first n events, for each n.
latestUpTo(events, pod) ==
  LET later(latest, e) == IF isFailedScheduling(e, pod) /\ After(e, latest) THEN e ELSE latest
      latest[n \in 0..Len(events)] ==
        IF n = 0 THEN [last |-> 0, message |-> ""] ELSE later(latest[n - 1], events[n])
  IN  latest

latestSchedulerEvent(events, pod) == latestUpTo(events, pod)[Len(events)].message

\* Mutant: only the last result decides.
hasBlockersLast(rs) == rs # <<>> /\ rs[Len(rs)].blocked

hasBlockers(rs) == \E k \in DOMAIN rs : rs[k].blocked

\* Mutant: a claim is only waited for when it has lost its volume.
isUnboundLost(phase) == phase = "Lost"

isUnbound(phase) == phase # "Bound"

InputOf(pod, views, pods, gone, waiting, objects) ==
  [pod |-> pod, nodes |-> views, placed |-> pods, missingPVCs |-> gone,
   unboundPVCs |-> waiting, chain |-> Nil, dra |-> objects]

-----------------------------------------------------------------------------
Init ==
  /\ opts \in Requests
  /\ cluster \in Clusters
  /\ nodesCache = cluster.nodes /\ podsCache = cluster.pods
  /\ changes = 0
  /\ deadline = FALSE
  /\ pc = "pending"
  /\ pending = <<>> /\ nodes = <<>> /\ used = <<>> /\ placed = <<>> /\ dra = NoObjects
  /\ turn = 1 /\ volume = 1 /\ missing = {} /\ unbound = {} /\ unread = {}
  /\ results = <<>>
  /\ outcome = ""
  /\ truth = Nil /\ seen = <<>> /\ torn = FALSE /\ claimsLost = FALSE
  /\ bound = {} /\ replaced = {}

\* A call that run cannot do without fails: run returns its error.
CallFails(at) ==
  /\ pc = at
  /\ pc' = "done"
  /\ outcome' = "error"
  /\ UNCHANGED <<opts, environment, deadline, gathered, perPod, history>>

(* The list of pending pods *)

\* By name, in one namespace: with -A the namespace is empty and no pod is found.
found == {p \in Range(cluster.pods) : p.name = opts.podName /\ p.ns = scope /\ scope # ""}

ListPending ==
  /\ pc = "pending" /\ ~deadline
  /\ opts.podName # "" => found # {}
  /\ LET asked == {k \in DOMAIN cluster.pods :
                     /\ unscheduled(cluster.pods[k])
                     /\ IF opts.podName # "" THEN cluster.pods[k] \in found
                                             ELSE inScope(cluster.pods[k])}
     IN  pending' = selectedUpTo(cluster.pods, asked)[Len(cluster.pods)]
  /\ pc' = IF pending' = <<>> THEN "report" ELSE "nodes"
  /\ UNCHANGED <<opts, environment, deadline, nodes, used, placed, dra, perPod, outcome, history>>

(* The state of the cluster *)

ListNodes ==
  /\ pc = "nodes" /\ ~deadline
  /\ nodes' = nodesCache
  /\ pc' = "pods"
  /\ UNCHANGED <<opts, environment, deadline, pending, used, placed, dra, perPod, outcome, history>>

StreamPods ==
  /\ pc = "pods" /\ ~deadline
  /\ used' = [n \in {nv.name : nv \in Range(nodes)} |-> usedOn(podsCache, n)]
  /\ placed' = placedOf(podsCache)
  /\ pc' = IF needsDRA(pending) THEN "claims" ELSE "pod"
  /\ truth' = cluster /\ seen' = podsCache
  /\ torn' = (nodes # cluster.nodes \/ podsCache # cluster.pods)
  /\ UNCHANGED <<opts, environment, deadline, pending, nodes, dra, perPod, outcome, claimsLost>>

\* The lists of gatherDRA, each of which may be given up.
ListClaims ==
  /\ pc = "claims"
  /\ pc' = "slices"
  /\ \/ /\ ~deadline
        /\ dra' = [dra EXCEPT !.claims = cluster.claims]
        /\ torn' = (torn \/ cluster.claims # truth.claims)
        /\ UNCHANGED claimsLost
     \/ claimsLost' = TRUE /\ UNCHANGED <<dra, torn>>
  /\ UNCHANGED <<opts, environment, deadline, pending, nodes, used, placed, perPod, outcome, truth, seen>>

ListSlices ==
  /\ pc = "slices"
  /\ pc' = "classes"
  /\ \/ ~deadline /\ dra' = [dra EXCEPT !.devices = cluster.devices]
     \/ UNCHANGED dra
  /\ UNCHANGED <<opts, environment, deadline, pending, nodes, used, placed, perPod, outcome, history>>

ListClasses ==
  /\ pc = "classes"
  /\ pc' = "pod"
  /\ \/ ~deadline /\ dra' = [dra EXCEPT !.classes = cluster.classes]
     \/ UNCHANGED dra
  /\ UNCHANGED <<opts, environment, deadline, pending, nodes, used, placed, perPod, outcome, history>>

(* One pod after the other *)

pod == pending[turn]

claimOf(name) == <<pod.ns, name>>

AtVolume == pc = "pod" /\ volume <= Len(pod.volumes)

SkipVolume ==
  /\ AtVolume /\ pod.volumes[volume] = ""
  /\ volume' = volume + 1
  /\ UNCHANGED <<opts, environment, deadline, pc, gathered, turn, missing, unbound, unread, results, outcome, history>>

ReadPVC ==
  /\ AtVolume /\ ~deadline
  /\ LET name == pod.volumes[volume]
         exists == claimOf(name) \in DOMAIN cluster.pvcs
     IN  /\ name # ""
         /\ missing' = IF exists THEN missing ELSE missing \cup {name}
         /\ unbound' = IF exists /\ isUnbound(cluster.pvcs[claimOf(name)])
                       THEN unbound \cup {name} ELSE unbound
  /\ volume' = volume + 1
  /\ torn' = (torn \/ cluster.pvcs # truth.pvcs)
  /\ UNCHANGED <<opts, environment, deadline, pc, gathered, turn, unread, results, outcome, truth, seen, claimsLost>>

\* Mutant: an error is taken for a claim that is not there.
PVCUnreadableMissing ==
  /\ AtVolume /\ pod.volumes[volume] # ""
  /\ volume' = volume + 1
  /\ missing' = missing \cup {pod.volumes[volume]}
  /\ unread' = unread \cup {pod.volumes[volume]}
  /\ UNCHANGED <<opts, environment, deadline, pc, gathered, turn, unbound, results, outcome, history>>

\* Mutant: the call is made again.
PVCUnreadableRetried ==
  /\ AtVolume /\ pod.volumes[volume] # ""
  /\ unread' = unread \cup {pod.volumes[volume]}
  /\ UNCHANGED <<opts, environment, deadline, pc, gathered, turn, volume, missing, unbound, results, outcome, history>>

\* An error other than NotFound: the volume is passed over.
PVCUnreadable ==
  /\ AtVolume /\ pod.volumes[volume] # ""
  /\ volume' = volume + 1
  /\ unread' = unread \cup {pod.volumes[volume]}
  /\ UNCHANGED <<opts, environment, deadline, pc, gathered, turn, missing, unbound, results, outcome, history>>

\* Mutant: what the volumes of one pod showed is kept for the next.
perPodStartKept == missing' = missing /\ unbound' = unbound

perPodStart == missing' = {} /\ unbound' = {}

\* The events are listed, or not, and the pod is diagnosed.
DiagnosePod ==
  /\ pc = "pod" /\ volume > Len(pod.volumes)
  /\ \E listed \in BOOLEAN :
       /\ listed => ~deadline
       /\ LET in == InputOf(pod, viewsOf(nodes, used), placed, missing, unbound, dra)
          IN  results' = Append(results,
                [in |-> in, blocked |-> Obstructed(in), listed |-> listed, unread |-> unread,
                 event |-> IF listed THEN latestSchedulerEvent(cluster.events, pod) ELSE ""])
  /\ perPodStart
  /\ turn' = turn + 1 /\ volume' = 1 /\ unread' = {}
  /\ pc' = IF turn = Len(pending) THEN "report" ELSE "pod"
  /\ UNCHANGED <<opts, environment, deadline, gathered, outcome, history>>

\* Structured output may fail to be written.
Report ==
  /\ pc = "report"
  /\ pc' = "done"
  /\ \/ outcome' = IF hasBlockers(results) THEN "blockers" ELSE "none"
     \/ opts.structured /\ outcome' = "error"
  /\ UNCHANGED <<opts, environment, deadline, gathered, perPod, history>>

-----------------------------------------------------------------------------
(* The cluster *)

Become(c) ==
  /\ changes < MaxChanges /\ pc # "done"
  /\ changes' = changes + 1
  /\ cluster' = c
  /\ UNCHANGED <<opts, nodesCache, podsCache, deadline, pc, gathered, perPod, outcome, history>>

PodBecomes(k, node, phase) ==
  Become([cluster EXCEPT !.pods[k].node = node, !.pods[k].phase = phase])

\* The scheduler binds a pod; it stays Pending until its kubelet runs it.
Bind(k) ==
  /\ unscheduled(cluster.pods[k])
  /\ \E n \in Range(cluster.nodes) : PodBecomes(k, n.name, "Pending")
  /\ bound' = IF pc = "pending" THEN bound ELSE bound \cup {idOf(cluster.pods[k])}
  /\ UNCHANGED replaced

End(k) ==
  /\ cluster.pods[k].phase = "Running"
  /\ PodBecomes(k, cluster.pods[k].node, "Succeeded")
  /\ UNCHANGED <<bound, replaced>>

\* A pod is deleted and a new one takes its name, as in a StatefulSet.
Replace(k) ==
  /\ cluster.pods[k].node # ""
  /\ PodBecomes(k, "", "Pending")
  /\ replaced' = replaced \cup {idOf(cluster.pods[k])}
  /\ UNCHANGED bound

Join ==
  /\ \E n \in Spare \ Range(cluster.nodes) :
       Become([cluster EXCEPT !.nodes = Append(@, n)])
  /\ UNCHANGED <<bound, replaced>>

Leave(k) ==
  /\ Become([cluster EXCEPT !.nodes = RemoveAt(@, k)])
  /\ UNCHANGED <<bound, replaced>>

BindVolume(id) ==
  /\ cluster.pvcs[id] = "Pending"
  /\ Become([cluster EXCEPT !.pvcs[id] = "Bound"])
  /\ UNCHANGED <<bound, replaced>>

Allocate(claim) ==
  /\ ~claim.allocated
  /\ Become([cluster EXCEPT !.claims = (@ \ {claim}) \cup {[claim EXCEPT !.allocated = TRUE]}])
  /\ UNCHANGED <<bound, replaced>>

ClusterChanges ==
  \/ \E k \in DOMAIN cluster.pods : Bind(k) \/ End(k) \/ Replace(k)
  \/ Join
  \/ \E k \in DOMAIN cluster.nodes : Leave(k)
  \/ \E id \in DOMAIN cluster.pvcs : BindVolume(id)
  \/ \E claim \in cluster.claims : Allocate(claim)

\* Where nothing is read from the cache any more, it is left as it is.
CacheFollows ==
  /\ pc \in {"pending", "nodes", "pods"}
  /\ nodesCache' \in {nodesCache, cluster.nodes} /\ podsCache' \in {podsCache, cluster.pods}
  /\ <<nodesCache', podsCache'>> # <<nodesCache, podsCache>>
  /\ UNCHANGED <<opts, cluster, changes, bound, replaced, deadline, pc, gathered, perPod, outcome, history>>

Deadline ==
  /\ ~deadline /\ pc # "done"
  /\ deadline' = TRUE
  /\ UNCHANGED <<opts, environment, pc, gathered, perPod, outcome, history>>

-----------------------------------------------------------------------------
Done == pc = "done" /\ UNCHANGED vars

RequiredFails == CallFails("pending") \/ CallFails("nodes") \/ CallFails("pods")
Lists == ListPending \/ ListNodes \/ StreamPods \/ ListClaims \/ ListSlices \/ ListClasses
PerPod == ReadPVC \/ PVCUnreadable \/ DiagnosePod

Next ==
  \/ Lists \/ RequiredFails \/ PerPod \/ SkipVolume \/ Report \/ Done
  \/ Deadline \/ ClusterChanges \/ CacheFollows

\* The server may leave a call unanswered until the deadline, after which every
\* call fails at once; nothing is asked of the cluster and its cache.
Fairness ==
  /\ WF_vars(Deadline)
  /\ WF_vars(deadline /\ (Lists \/ RequiredFails \/ PerPod))
  /\ WF_vars(SkipVolume \/ Report)

Spec == Init /\ [][Next]_vars /\ Fairness

-----------------------------------------------------------------------------
(* Properties *)

\* What is recorded of a pod's volumes is about volumes of that pod, the diagnoses
\* follow the list of pending pods, and Analyze is given what its proofs ask for.
TypeOK ==
  /\ missing \cup unbound \cup unread \subseteq
       IF pc = "pod" THEN Range(pod.volumes) \ {""} ELSE {}
  /\ [k \in DOMAIN results |-> results[k].in.pod] = SubSeq(pending, 1, turn - 1)
  /\ \A r \in Range(results) : WellFormed(r.in)
  /\ outcome \in {"", "none", "blockers", "error"}
  /\ outcome # "" <=> pc = "done"

\* The pods of the cluster c but for p, which is put on no node.
others(c, p) ==
  [k \in DOMAIN c.pods |-> IF samePod(p, c.pods[k]) /\ c.pods[k].node # ""
                           THEN [c.pods[k] EXCEPT !.node = ""] ELSE c.pods[k]]

\* The claims of the pod's volumes that stand in the way as the cluster c is.
absentClaims(c, p) ==
  {name \in Range(p.volumes) \ {""} : <<p.ns, name>> \notin DOMAIN c.pvcs}

waitingClaims(c, p) ==
  {name \in Range(p.volumes) \ {""} :
     <<p.ns, name>> \in DOMAIN c.pvcs /\ c.pvcs[<<p.ns, name>>] # "Bound"}

\* The input of a pod as the cluster c is: what is asked is whether there is room
\* and company for the pod beside the others.
trueInput(c, p) ==
  InputOf(p, [k \in DOMAIN c.nodes |->
                [c.nodes[k] EXCEPT !.used = usedOn(others(c, p), c.nodes[k].name)]],
          placedOf(others(c, p)), absentClaims(c, p), waitingClaims(c, p),
          [claims |-> c.claims, devices |-> c.devices, classes |-> c.classes])

\* The pod was bound between the list of pending pods and the stream of all pods.
boundMeanwhile(p) == \E q \in Range(truth.pods) : samePod(p, q) /\ ~unscheduled(q)

\* main.go:43, exit code 1: a pod said to be blocked is blocked, if what was read
\* was true at one time, its claims could be read and it was not bound meanwhile.
NothingInvented ==
  \A r \in Range(results) :
    r.blocked /\ ~torn /\ ~claimsLost =>
      Obstructed(trueInput(truth, r.in.pod)) \/ boundMeanwhile(r.in.pod)

\* main.go:369, the errors that are passed over: they hide nothing but the volumes
\* that could not be read; nothing else that blocks a pod is missed.
NothingHidden ==
  \A r \in Range(results) :
    LET true == trueInput(truth, r.in.pod)
    IN  ~r.blocked /\ ~torn /\ Obstructed(true) =>
          \/ boundMeanwhile(r.in.pod)
          \/ /\ r.unread \cap (true.missingPVCs \cup true.unboundPVCs) # {}
             /\ ~Obstructed([true EXCEPT !.missingPVCs = {}, !.unboundPVCs = {}])

\* main.go:113: what is streamed shows a pod of the list on a node only if it was
\* bound after it was listed, or if it replaced one that a stale cache still shows.
\* Otherwise its own requests are not held against it.
CountedOnlyIfMoved ==
  truth # Nil =>
    \A k \in DOMAIN pending, j \in DOMAIN seen :
      samePod(pending[k], seen[j]) /\ seen[j].node # "" =>
        \/ idOf(pending[k]) \in bound
        \/ idOf(pending[k]) \in replaced /\ seen # truth.pods

\* main.go:42-45, the exit codes: while nothing moves and all calls are answered,
\* "none" means that no pod asked for waits for a scheduler that cannot place it,
\* "blockers" that there is one, whichever of the diagnoses found it.
OutcomeTrue ==
  changes = 0 /\ ~claimsLost =>
    LET waiting == {p \in Range(cluster.pods) :
                      /\ unscheduled(p) /\ inScope(p) /\ opts.podName \in {"", p.name}
                      /\ Obstructed(trueInput(cluster, p))}
    IN  /\ outcome = "none" /\ (\A r \in Range(results) : r.unread = {}) => waiting = {}
        /\ outcome = "blockers" => waiting # {}

\* main.go:339-353: the event shown is the latest of the pod's failures to schedule.
failures(p) ==
  {k \in DOMAIN cluster.events : isFailedScheduling(cluster.events[k], p)}

EventIsLatest ==
  \A r \in Range(results) :
    r.listed =>
      LET dated == {k \in failures(r.in.pod) : cluster.events[k].last > 0}
      IN  IF dated = {} THEN r.event = ""
          ELSE \E k \in dated :
                 /\ r.event = cluster.events[k].message
                 /\ \A j \in dated : cluster.events[j].last <= cluster.events[k].last

\* main.go:93: whatever the server leaves unanswered, run returns.
Returns == <>(pc = "done")

\* main.go:303: gatherDRA "tolerates the API being absent ... or unreadable".
UnreadableClaimsTolerated ==
  \A r \in Range(results) :
    r.blocked /\ ~torn => Obstructed(trueInput(truth, r.in.pod)) \/ boundMeanwhile(r.in.pod)

\* README.md:82: "Falls back to the raw scheduler event" when nothing blocks the pod.
EventShown ==
  \A r \in Range(results) :
    ~r.blocked /\ r.listed /\ failures(r.in.pod) # {} => r.event # ""
=============================================================================
