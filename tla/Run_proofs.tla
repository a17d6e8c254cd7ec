----------------------------- MODULE Run_proofs -----------------------------
(***************************************************************************)
(* What run says of each pod, and what it returns, is true: for any        *)
(* clusters, any number of changes between any two calls, and a cache that *)
(* lags as it likes.  The invariant says how what run has gathered relates *)
(* to the cluster at the time its pods were streamed, and what each        *)
(* diagnosis made of it.  A second one relates the three views that run    *)
(* works with, the cluster, its cache and the pods listed: a pending pod's *)
(* own requests are held against it only if it moved.                      *)
(***************************************************************************)
EXTENDS Run, Totals_proofs

-----------------------------------------------------------------------------
(* The invariant *)

\* Before the pods are streamed, and from then on until all are diagnosed.
Before == {"pending", "nodes", "pods"}
Streamed == {"claims", "slices", "classes", "pod"}

\* What the cluster and its cache hold.
ListsInv ==
  WellFormedCluster(cluster) /\ WellFormedNodes(nodesCache) /\ WellFormedPods(podsCache)

\* What was gathered: room is known on each of the nodes.
GatheredInv ==
  /\ WellFormedPods(pending) /\ WellFormedNodes(nodes) /\ IsSequence(placed)
  /\ "claims" \in DOMAIN dra /\ NamesUnique(dra.claims)
  /\ pc \in Streamed =>
       \A k \in DOMAIN nodes : nodes[k].name \in DOMAIN used /\ used[nodes[k].name] \in [Kinds -> Nat]

\* Where run is, in the list of pending pods and in the volumes of one of them.
PlaceInv ==
  /\ pc \in Before \cup Streamed \cup {"report", "done"}
  /\ outcome \in {"", "none", "blockers", "error"}
  /\ outcome # "" <=> pc = "done"

CountersInv ==
  /\ turn \in Nat /\ volume \in Nat /\ 1 <= turn /\ turn <= Len(pending) + 1 /\ 1 <= volume
  /\ pc \in (Before \cup Streamed) \ {"pod"} => turn = 1 /\ volume = 1
  /\ pc \in (Before \cup Streamed) \ {"pending"} => turn <= Len(pending)
  /\ pc = "report" => turn = Len(pending) + 1

\* What is recorded of volumes is about volumes of the pod that is diagnosed.
ShownInv ==
  missing \cup unbound \cup unread \subseteq
    IF pc = "pod" THEN Range(pod.volumes) \ {""} ELSE {}

TurnInv == PlaceInv /\ CountersInv /\ ShownInv

\* One diagnosis for each pod before it, on an input that Analyze takes.
ResultsInv ==
  /\ IsSequence(results) /\ Len(results) = turn - 1
  /\ \A k \in DOMAIN results : results[k].in.pod = pending[k] /\ WellFormed(results[k].in)

\* What was gathered is what the cluster was when its pods were streamed.
SnapshotInv ==
  pc \in Streamed =>
    /\ WellFormedCluster(truth)
    /\ ~torn => /\ nodes = truth.nodes /\ placed = placedOf(truth.pods)
                /\ used = [n \in {nv.name : nv \in Range(nodes)} |-> usedOn(truth.pods, n)]

\* So are the claims, unless they were given up or nobody needs them.
ClaimsInv ==
  /\ pc \in Before \cup {"claims"} => dra.claims = {}
  /\ pc \in Streamed \ {"claims"} /\ ~torn =>
       /\ dra.claims \subseteq truth.claims
       /\ claimsLost \/ dra.claims = truth.claims \/ ~needsDRA(pending)

\* And what the first n - 1 volumes of p showed, but for those that could not be read.
VolumesTrue(c, p, gone, waiting, lost, n) ==
  /\ gone \subseteq absentClaims(c, p)
  /\ waiting \subseteq waitingClaims(c, p)
  /\ \A k \in 1..(n - 1) :
       /\ p.volumes[k] \in absentClaims(c, p) => p.volumes[k] \in gone \cup lost
       /\ p.volumes[k] \in waitingClaims(c, p) => p.volumes[k] \in waiting \cup lost

VolumesInv ==
  pc = "pod" /\ ~torn => VolumesTrue(truth, pod, missing, unbound, unread, volume)

asked(p) == unscheduled(p) /\ inScope(p) /\ opts.podName \in {"", p.name}

\* As long as nothing changes all views are one, and the pods asked for are listed.
StillInv ==
  /\ changes \in Nat
  /\ changes = 0 =>
       /\ nodesCache = cluster.nodes /\ podsCache = cluster.pods /\ ~torn
       /\ pc \in Streamed \cup {"pods"} => nodes = cluster.nodes
       /\ pc \in Streamed \/ results # <<>> => truth = cluster
       /\ pc # "pending" /\ outcome # "error" =>
            Range(pending) = {p \in Range(cluster.pods) : asked(p)}

RunInv ==
  /\ ListsInv /\ GatheredInv /\ TurnInv /\ ResultsInv
  /\ SnapshotInv /\ ClaimsInv /\ VolumesInv /\ NothingInvented /\ NothingHidden
  /\ StillInv /\ OutcomeTrue /\ EventIsLatest
-----------------------------------------------------------------------------
(* The latest of the pod's failures to schedule *)

NoEvent == [last |-> 0, message |-> ""]

\* Its equations determine the latest failure, and make it one of the events or none.
LEMMA LatestRecursion ==
  ASSUME NEW events, IsSequence(events), NEW p
  PROVE  LET latest == latestUpTo(events, p)
         IN  /\ latest[0] = NoEvent
             /\ \A n \in 1..Len(events) :
                  latest[n] = IF isFailedScheduling(events[n], p) /\ After(events[n], latest[n - 1])
                              THEN events[n] ELSE latest[n - 1]
<1> DEFINE N == Len(events)
           V == Range(events) \cup {NoEvent}
           later(v, n) == IF isFailedScheduling(events[n], p) /\ After(events[n], v)
                          THEN events[n] ELSE v
           step == [n \in 1..N |-> [v \in V |-> later(v, n)]]
           equation(f) == f = [n \in 0..N |-> IF n = 0 THEN NoEvent ELSE later(f[n - 1], n)]
           latest == latestUpTo(events, p)
<1>1. N \in Nat /\ NoEvent \in V /\ \A n \in 1..N : \A v \in V : later(v, n) \in V
  BY DEF IsSequence, Range
<1>2. latest = CHOOSE f : equation(f)
  BY DEF latestUpTo, NoEvent
<1> HIDE DEF N, V, later, latest
<1>3. step \in Steps(N, V)
  BY <1>1 DEF Steps
<1>4. PICK f : f \in [0..N -> V] /\ Unrolls(f, NoEvent, step, N)
  <2> HIDE DEF step
  <2> QED
    BY <1>1, <1>3, Recursion
<1>5. equation(f)
  <2>1. \A n \in 1..N : f[n - 1] \in V
    BY <1>1, <1>4
  <2>2. \A n \in 1..N : step[n][f[n - 1]] = later(f[n - 1], n)
    BY <2>1
  <2>3. f = [n \in 0..N |-> IF n = 0 THEN NoEvent ELSE step[n][f[n - 1]]]
    BY <1>4 DEF Unrolls
  <2>4. f[0] = NoEvent /\ \A n \in 1..N : f[n] = later(f[n - 1], n)
    <3> HIDE DEF step
    <3> QED
      BY <1>1, <2>2, <2>3
  <2>5. \A n \in 0..N : f[n] = IF n = 0 THEN NoEvent ELSE later(f[n - 1], n)
    BY <1>1, <2>4
  <2>6. f = [n \in 0..N |-> f[n]]
    BY <1>4
  <2> QED
    BY <2>5, <2>6
<1>6. equation(latest)
  <2> HIDE DEF equation
  <2> QED
    BY <1>2, <1>5
<1>7. latest[0] = NoEvent /\ \A n \in 1..N : latest[n] = later(latest[n - 1], n)
  BY <1>1, <1>6
<1> QED
  BY <1>7 DEF N, later, latest

datedUpTo(events, p, n) ==
  {k \in 1..n : isFailedScheduling(events[k], p) /\ events[k].last > 0}

\* This is the latest of the dated failures among the first n events, or none.
LatestOf(v, events, p, n) ==
  \/ v = NoEvent /\ datedUpTo(events, p, n) = {}
  \/ \E k \in datedUpTo(events, p, n) :
       v = events[k] /\ \A j \in datedUpTo(events, p, n) : events[j].last <= events[k].last

LEMMA LatestFound ==
  ASSUME NEW events, IsSequence(events), \A k \in DOMAIN events : events[k].last \in Nat, NEW p
  PROVE  LatestOf(latestUpTo(events, p)[Len(events)], events, p, Len(events))
<1> DEFINE N == Len(events)
           L == latestUpTo(events, p)
           fails(n) == isFailedScheduling(events[n], p)
           T == {n \in 0..N : LatestOf(L[n], events, p, n)}
<1>1. N \in Nat /\ DOMAIN events = 1..N /\ \A k \in 1..N : events[k].last \in Nat
  BY DEF IsSequence
<1>2. /\ L[0] = NoEvent
      /\ \A n \in 1..N : L[n] = IF fails(n) /\ After(events[n], L[n - 1])
                                THEN events[n] ELSE L[n - 1]
  BY LatestRecursion
<1> HIDE DEF N, L
<1>3. LatestOf(L[0], events, p, 0)
  BY <1>2 DEF LatestOf, datedUpTo
<1>4. ASSUME NEW n \in 1..N, LatestOf(L[n - 1], events, p, n - 1)
      PROVE  LatestOf(L[n], events, p, n)
  <2> DEFINE before == datedUpTo(events, p, n - 1)
             now == datedUpTo(events, p, n)
  <2>1. now = IF fails(n) /\ events[n].last > 0 THEN before \cup {n} ELSE before
    BY <1>1 DEF datedUpTo
  <2>2. \A k \in before : k \in 1..N /\ events[k].last \in Nat /\ events[k].last > 0
    BY <1>1 DEF datedUpTo
  <2>3. events[n].last \in Nat
    BY <1>1
  <2>4. \/ L[n - 1] = NoEvent /\ before = {}
        \/ \E k \in before : L[n - 1] = events[k] /\ \A j \in before : events[j].last <= events[k].last
    BY <1>4 DEF LatestOf
  <2>5. L[n] = IF fails(n) /\ events[n].last > L[n - 1].last THEN events[n] ELSE L[n - 1]
    BY <1>2 DEF After
  <2> HIDE DEF before, now
  <2>6. \/ L[n] = NoEvent /\ now = {}
        \/ \E k \in now : L[n] = events[k] /\ \A j \in now : events[j].last <= events[k].last
    <3>1. CASE L[n - 1] = NoEvent /\ before = {}
      <4>1. NoEvent.last = 0
        BY DEF NoEvent
      <4>2. CASE fails(n) /\ events[n].last > 0
        <5>1. now = {n} /\ L[n] = events[n]
          BY <2>1, <2>5, <3>1, <4>1, <4>2
        <5> QED
          BY <2>3, <5>1
      <4>3. CASE ~(fails(n) /\ events[n].last > 0)
        BY <2>1, <2>5, <3>1, <4>1, <4>3
      <4> QED
        BY <4>2, <4>3
    <3>2. ASSUME NEW k \in before, L[n - 1] = events[k],
                 \A j \in before : events[j].last <= events[k].last
          PROVE  \E m \in now : L[n] = events[m] /\ \A j \in now : events[j].last <= events[m].last
      <4>1. CASE fails(n) /\ events[n].last > events[k].last
        <5>1. now = before \cup {n} /\ L[n] = events[n]
          BY <2>1, <2>2, <2>3, <2>5, <3>2, <4>1
        <5>2. \A j \in now : events[j].last <= events[n].last
          BY <2>2, <2>3, <3>2, <4>1, <5>1
        <5> QED
          BY <5>1, <5>2
      <4>2. CASE ~(fails(n) /\ events[n].last > events[k].last)
        <5>1. L[n] = events[k] /\ k \in now
          BY <2>1, <2>5, <3>2, <4>2
        <5>2. \A j \in now : events[j].last <= events[k].last
          BY <2>1, <2>2, <2>3, <3>2, <4>2
        <5> QED
          BY <5>1, <5>2
      <4> QED
        BY <4>1, <4>2
    <3> QED
      BY <2>4, <3>1, <3>2
  <2> QED
    BY <2>6 DEF LatestOf, now
<1>5. 0..N \subseteq T
  <2>1. 0 \in T /\ \A n \in 1..N : n - 1 \in T => n \in T
    BY <1>1, <1>3, <1>4
  <2> HIDE DEF T
  <2> QED
    BY <1>1, <2>1, InductUpTo
<1>6. LatestOf(L[N], events, p, N)
  BY <1>1, <1>5
<1> QED
  BY <1>6 DEF L, N
-----------------------------------------------------------------------------
(* Lists *)

LEMMA IsList ==
  ASSUME NEW S, NEW s \in Seq(S)
  PROVE  IsSequence(s) /\ Len(s) \in Nat /\ DOMAIN s = 1..Len(s) /\ \A k \in DOMAIN s : s[k] \in S
<1>1. Len(s) \in Nat /\ DOMAIN s = 1..Len(s) /\ s = [k \in 1..Len(s) |-> s[k]]
  OBVIOUS
<1>2. \A k \in 1..Len(s) : s[k] \in Range(s)
  BY <1>1 DEF Range
<1>3. s \in Seq(Range(s))
  BY <1>1, <1>2
<1> QED
  BY <1>1, <1>3 DEF IsSequence

LEMMA Listed ==
  ASSUME NEW s, IsSequence(s)
  PROVE  /\ Len(s) \in Nat /\ DOMAIN s = 1..Len(s) /\ s = [k \in DOMAIN s |-> s[k]]
         /\ Range(s) = {s[k] : k \in DOMAIN s}
  BY DEF IsSequence, Range

LEMMA AppendedList ==
  ASSUME NEW s, IsSequence(s), NEW e
  PROVE  /\ IsSequence(Append(s, e)) /\ Len(Append(s, e)) = Len(s) + 1
         /\ Append(s, e)[Len(s) + 1] = e
         /\ \A k \in DOMAIN s : k \in DOMAIN Append(s, e) /\ Append(s, e)[k] = s[k]
         /\ \A k \in DOMAIN Append(s, e) : k \in DOMAIN s \/ k = Len(s) + 1
<1>1. s \in Seq(Range(s) \cup {e}) /\ Len(s) \in Nat /\ DOMAIN s = 1..Len(s)
  BY DEF IsSequence
<1>2. Append(s, e) \in Seq(Range(s) \cup {e})
  BY <1>1
<1>3. Len(Append(s, e)) = Len(s) + 1 /\ Append(s, e)[Len(s) + 1] = e
      /\ DOMAIN Append(s, e) = 1..(Len(s) + 1)
      /\ \A k \in 1..Len(s) : Append(s, e)[k] = s[k]
  BY <1>1
<1>4. IsSequence(Append(s, e))
  BY <1>2, IsList
<1> QED
  BY <1>1, <1>3, <1>4

LEMMA ShortenedList ==
  ASSUME NEW s, IsSequence(s), NEW k \in DOMAIN s
  PROVE  /\ IsSequence(RemoveAt(s, k))
         /\ \A j \in DOMAIN RemoveAt(s, k) : \E i \in DOMAIN s : RemoveAt(s, k)[j] = s[i]
<1>1. s \in Seq(Range(s)) /\ Len(s) \in Nat /\ k \in 1..Len(s)
  BY DEF IsSequence
<1>2. SubSeq(s, 1, k - 1) \in Seq(Range(s)) /\ SubSeq(s, k + 1, Len(s)) \in Seq(Range(s))
  BY <1>1
<1>3. RemoveAt(s, k) \in Seq(Range(s))
  BY <1>2 DEF RemoveAt
<1>4. IsSequence(RemoveAt(s, k)) /\ \A j \in DOMAIN RemoveAt(s, k) : RemoveAt(s, k)[j] \in Range(s)
  BY <1>3, IsList
<1> QED
  BY <1>4 DEF Range

LEMMA ChangedList ==
  ASSUME NEW s, IsSequence(s), NEW k \in DOMAIN s, NEW e
  PROVE  IsSequence([s EXCEPT ![k] = e])
<1> DEFINE t == [s EXCEPT ![k] = e]
<1>1. Len(s) \in Nat /\ DOMAIN s = 1..Len(s)
  BY Listed
<1>2. t = [j \in 1..Len(s) |-> t[j]]
  BY <1>1
<1>3. \A j \in 1..Len(s) : t[j] \in {t[i] : i \in 1..Len(s)}
  OBVIOUS
<1> HIDE DEF t
<1>4. t \in Seq({t[i] : i \in 1..Len(s)})
  BY <1>1, <1>2, <1>3
<1>5. IsSequence(t)
  BY <1>4, IsList
<1> QED
  BY <1>5 DEF t

-----------------------------------------------------------------------------
(* What the cluster and its cache hold *)

\* The pod p, placed on this node and in this phase.
MovedPod(moved, p, node, phase) == moved = [p EXCEPT !.node = node, !.phase = phase]

\* A pod that moves needs what it needed.
LEMMA PodMoved ==
  ASSUME NEW p, PodFields \subseteq DOMAIN p, IsSequence(p.volumes), WellFormedPod(p),
         NEW node, NEW phase, NEW moved, MovedPod(moved, p, node, phase)
  PROVE  /\ PodFields \subseteq DOMAIN moved /\ IsSequence(moved.volumes)
         /\ WellFormedPod(moved) /\ moved.ns = p.ns /\ moved.name = p.name
<1>0. \A field \in DOMAIN p : field \notin {"node", "phase"} => moved[field] = p[field]
  BY DEF MovedPod
<1>1. DOMAIN moved = DOMAIN p
  BY DEF MovedPod
<1> DEFINE stays(field) == moved[field] = p[field]
<1>3. \A field \in PodFields : field \notin {"node", "phase"} => stays(field)
  BY <1>0
<1> HIDE DEF stays
<1>4. /\ stays("ns") /\ stays("name") /\ stays("volumes") /\ stays("containers")
      /\ stays("initContainers") /\ stays("spread") /\ stays("affinity")
      /\ stays("antiAffinity") /\ stays("resourceClaims")
  BY <1>3 DEF PodFields
<1>5. /\ moved.ns = p.ns /\ moved.name = p.name /\ moved.volumes = p.volumes
      /\ moved.spread = p.spread /\ moved.affinity = p.affinity
      /\ moved.antiAffinity = p.antiAffinity /\ moved.resourceClaims = p.resourceClaims
      /\ moved.containers = p.containers /\ moved.initContainers = p.initContainers
  BY <1>4 DEF stays
<1>6. PodRequests(moved) = PodRequests(p)
  BY <1>5 DEF PodRequests
<1>7. PodFields \subseteq DOMAIN moved /\ IsSequence(moved.volumes)
  BY <1>1, <1>5
<1>8. WellFormedPod(moved)
  BY <1>5, <1>6 DEF WellFormedPod
<1> QED
  BY <1>5, <1>7, <1>8

LEMMA PodBecomesWellFormed ==
  ASSUME WellFormedCluster(cluster), NEW k \in DOMAIN cluster.pods, NEW node, NEW phase,
         PodBecomes(k, node, phase)
  PROVE  WellFormedCluster(cluster')
<1> DEFINE p == cluster.pods[k]
           moved == [p EXCEPT !.node = node, !.phase = phase]
           pods == [cluster.pods EXCEPT ![k] = moved]
<1>1. cluster' = [cluster EXCEPT !.pods[k].node = node, !.pods[k].phase = phase]
  BY DEF PodBecomes, Become
<1>2. {"pods", "nodes", "pvcs", "claims", "events"} \subseteq DOMAIN cluster
      /\ WellFormedPods(cluster.pods)
  BY DEF WellFormedCluster
<1>3. /\ DOMAIN cluster' = DOMAIN cluster /\ cluster'.pods = pods
      /\ cluster'.nodes = cluster.nodes /\ cluster'.pvcs = cluster.pvcs
      /\ cluster'.claims = cluster.claims /\ cluster'.events = cluster.events
  BY <1>1, <1>2
<1>4. PodFields \subseteq DOMAIN p /\ IsSequence(p.volumes) /\ WellFormedPod(p)
  BY <1>2 DEF WellFormedPods
<1>5. /\ PodFields \subseteq DOMAIN moved /\ IsSequence(moved.volumes)
      /\ WellFormedPod(moved) /\ moved.ns = p.ns /\ moved.name = p.name
  <2>1. MovedPod(moved, p, node, phase)
    BY DEF MovedPod
  <2> HIDE DEF p, moved
  <2> QED
    BY <1>4, <2>1, PodMoved
<1>6. DOMAIN pods = DOMAIN cluster.pods /\ pods[k] = moved
      /\ \A j \in DOMAIN cluster.pods : j # k => pods[j] = cluster.pods[j]
  OBVIOUS
<1>7. IsSequence(pods)
  BY <1>2, ChangedList DEF WellFormedPods
<1> HIDE DEF moved, pods
<1>8. WellFormedPods(pods)
  BY <1>2, <1>5, <1>6, <1>7 DEF WellFormedPods
<1>9. \A i \in DOMAIN pods : i \in DOMAIN cluster.pods
        /\ pods[i].ns = cluster.pods[i].ns /\ pods[i].name = cluster.pods[i].name
  BY <1>5, <1>6
<1> QED
  BY <1>2, <1>3, <1>8, <1>9 DEF WellFormedCluster

\* Another part of the cluster changes.
LEMMA PartBecomesWellFormed ==
  ASSUME WellFormedCluster(cluster), NEW field \in {"nodes", "pvcs", "claims"}, NEW value,
         cluster' = [cluster EXCEPT ![field] = value],
         field = "nodes" => WellFormedNodes(value),
         field = "claims" => WellFormedClaims(value)
  PROVE  WellFormedCluster(cluster') /\ cluster'.events = cluster.events
<1>1. {"pods", "nodes", "pvcs", "claims", "events"} \subseteq DOMAIN cluster
  BY DEF WellFormedCluster
<1>2. /\ DOMAIN cluster' = DOMAIN cluster
      /\ cluster'.pods = cluster.pods /\ cluster'.events = cluster.events
      /\ cluster'.nodes = IF field = "nodes" THEN value ELSE cluster.nodes
      /\ cluster'.claims = IF field = "claims" THEN value ELSE cluster.claims
  BY <1>1
<1> QED
  BY <1>2 DEF WellFormedCluster

\* Whatever happens to the cluster, it is one that run takes, and its events stay.
LEMMA ClusterKept ==
  ASSUME WellFormedCluster(cluster), ClusterChanges
  PROVE  WellFormedCluster(cluster') /\ cluster'.events = cluster.events
<1>1. ASSUME NEW k \in DOMAIN cluster.pods, NEW node, NEW phase, PodBecomes(k, node, phase)
      PROVE  WellFormedCluster(cluster') /\ cluster'.events = cluster.events
  <2>1. cluster' = [cluster EXCEPT !.pods[k].node = node, !.pods[k].phase = phase]
    BY <1>1 DEF PodBecomes, Become
  <2>2. "events" \in DOMAIN cluster
    BY DEF WellFormedCluster
  <2>3. cluster'.events = cluster.events
    BY <2>1, <2>2
  <2> QED
    BY <1>1, <2>3, PodBecomesWellFormed
<1>2. ASSUME NEW k \in DOMAIN cluster.pods, Bind(k) \/ End(k) \/ Replace(k)
      PROVE  WellFormedCluster(cluster') /\ cluster'.events = cluster.events
  BY <1>1, <1>2 DEF Bind, End, Replace
<1>3. ASSUME Join
      PROVE  WellFormedCluster(cluster') /\ cluster'.events = cluster.events
  <2>1. PICK n \in Spare : cluster' = [cluster EXCEPT !.nodes = Append(@, n)]
    BY <1>3 DEF Join, Become
  <2>2. WellFormedNode(n) /\ WellFormedNodes(cluster.nodes)
    BY ClustersAssumption DEF WellFormedCluster
  <2>3. WellFormedNodes(Append(cluster.nodes, n))
    BY <2>2, AppendedList DEF WellFormedNodes
  <2> QED
    BY <2>1, <2>3, PartBecomesWellFormed
<1>4. ASSUME NEW k \in DOMAIN cluster.nodes, Leave(k)
      PROVE  WellFormedCluster(cluster') /\ cluster'.events = cluster.events
  <2>1. cluster' = [cluster EXCEPT !.nodes = RemoveAt(@, k)]
    BY <1>4 DEF Leave, Become
  <2>2. WellFormedNodes(cluster.nodes)
    BY DEF WellFormedCluster
  <2>3. WellFormedNodes(RemoveAt(cluster.nodes, k))
    BY <2>2, ShortenedList DEF WellFormedNodes
  <2> QED
    BY <2>1, <2>3, PartBecomesWellFormed
<1>5. ASSUME NEW id \in DOMAIN cluster.pvcs, BindVolume(id)
      PROVE  WellFormedCluster(cluster') /\ cluster'.events = cluster.events
  <2>1. cluster' = [cluster EXCEPT !.pvcs[id] = "Bound"]
    BY <1>5 DEF BindVolume, Become
  <2> QED
    BY <2>1, PartBecomesWellFormed
<1>6. ASSUME NEW claim \in cluster.claims, Allocate(claim)
      PROVE  WellFormedCluster(cluster') /\ cluster'.events = cluster.events
  <2> DEFINE given == [claim EXCEPT !.allocated = TRUE]
             claims == (cluster.claims \ {claim}) \cup {given}
  <2>1. cluster' = [cluster EXCEPT !.claims = claims]
    BY <1>6 DEF Allocate, Become
  <2>2. WellFormedClaims(cluster.claims)
    BY DEF WellFormedCluster
  <2>3. DOMAIN given = DOMAIN claim /\ given.ns = claim.ns /\ given.name = claim.name
    BY <2>2 DEF WellFormedClaims
  <2> HIDE DEF given
  <2>4. WellFormedClaims(claims)
    BY <2>2, <2>3 DEF WellFormedClaims, NamesUnique
  <2> QED
    BY <2>1, <2>4, PartBecomesWellFormed
<1> QED
  BY <1>2, <1>3, <1>4, <1>5, <1>6 DEF ClusterChanges

\* The steps of run itself: the cluster and its cache are as they were.
RunSteps == Lists \/ RequiredFails \/ PerPod \/ SkipVolume \/ Report

LEMMA StepsOfRun ==
  ASSUME RunSteps
  PROVE  UNCHANGED <<opts, environment, deadline>>
  BY DEF RunSteps, Lists, ListPending, ListNodes, StreamPods, ListClaims, ListSlices, ListClasses,
         RequiredFails, CallFails, PerPod, ReadPVC, PVCUnreadable, DiagnosePod, SkipVolume, Report

\* All else: the steps that run takes no part in.
LEMMA StepsOfOthers ==
  ASSUME [Next]_vars
  PROVE  \/ RunSteps
         \/ ClusterChanges \/ CacheFollows
         \/ UNCHANGED <<opts, environment, pc, gathered, perPod, outcome, history>>
  BY DEF Next, RunSteps, Done, Deadline, vars

LEMMA OthersLeaveRun ==
  ASSUME ClusterChanges \/ CacheFollows
  PROVE  UNCHANGED <<opts, deadline, pc, gathered, perPod, outcome, history>>
  BY DEF ClusterChanges, Bind, End, Replace, Join, Leave, BindVolume, Allocate, PodBecomes, Become, CacheFollows

LEMMA ListsKept ==
  ASSUME ListsInv, [Next]_vars
  PROVE  ListsInv' /\ cluster'.events = cluster.events
<1>1. CASE RunSteps \/ UNCHANGED <<opts, environment, pc, gathered, perPod, outcome, history>>
  <2>1. UNCHANGED environment
    BY <1>1, StepsOfRun
  <2> QED
    BY <2>1 DEF ListsInv, environment
<1>2. CASE ClusterChanges
  <2>1. UNCHANGED <<nodesCache, podsCache>>
    BY <1>2 DEF ClusterChanges, Bind, End, Replace, Join, Leave, BindVolume, Allocate, PodBecomes, Become
  <2> QED
    BY <1>2, <2>1, ClusterKept DEF ListsInv
<1>3. CASE CacheFollows
  BY <1>3 DEF CacheFollows, ListsInv, WellFormedCluster
<1> QED
  BY <1>1, <1>2, <1>3, StepsOfOthers
-----------------------------------------------------------------------------
(* What is gathered *)

\* All the pods of the list that are asked for.
LEMMA PendingListed ==
  ASSUME ListsInv, NEW positions \in SUBSET DOMAIN cluster.pods, NEW s,
         s = selectedUpTo(cluster.pods, positions)[Len(cluster.pods)]
  PROVE  AllAt(s, cluster.pods, positions) /\ WellFormedPods(s)
<1> DEFINE pods == cluster.pods
           N == Len(pods)
<1>1. IsSequence(pods) /\ \A k \in DOMAIN pods : /\ PodFields \subseteq DOMAIN pods[k]
                                                /\ IsSequence(pods[k].volumes) /\ WellFormedPod(pods[k])
  BY DEF ListsInv, WellFormedCluster, WellFormedPods
<1>2. N \in Nat /\ DOMAIN pods = 1..N
  BY <1>1, Listed
<1>3. s = selectedUpTo(pods, positions)[N] /\ \A k \in positions : k \in 1..N
  BY <1>2
<1>4. selectedUpTo(pods, positions) \in [0..N -> Seq({pods[k] : k \in 1..N})]
  <2> HIDE DEF pods
  <2> QED
    BY <1>2, SelectedRecursion
<1> HIDE DEF N, pods
<1>5. AllAt(s, pods, positions)
  BY <1>2, <1>3, SelectedFromAll DEF N
<1>6. s \in Seq({pods[k] : k \in 1..N})
  BY <1>2, <1>3, <1>4
<1>7. IsSequence(s) /\ \A j \in DOMAIN s : \E k \in DOMAIN pods : s[j] = pods[k]
  BY <1>2, <1>6, IsList
<1>8. WellFormedPods(s)
  BY <1>1, <1>7 DEF WellFormedPods
<1> QED
  BY <1>5, <1>8 DEF pods

LEMMA UsedTyped ==
  ASSUME NEW pods, WellFormedPods(pods), NEW node
  PROVE  usedOn(pods, node) \in [Kinds -> Nat]
<1>1. Len(pods) \in Nat
  BY Listed DEF WellFormedPods
<1>2. ASSUME NEW kind \in Kinds
      PROVE  usedUpTo(pods, node, kind)[Len(pods)] \in Nat
  <2>1. \A k \in takingRoom(pods) : PodRequests(pods[k])[kind] \in Nat
    BY DEF takingRoom, WellFormedPods, WellFormedPod
  <2>2. usedUpTo(pods, node, kind) \in [0..Len(pods) -> Nat]
    BY <1>1, <2>1, UsedRecursion
  <2> QED
    BY <1>1, <2>2
<1> QED
  BY <1>2 DEF usedOn

\* The placed pods are a list.
LEMMA PlacedListed ==
  ASSUME NEW pods, WellFormedPods(pods)
  PROVE  IsSequence(placedOf(pods))
<1> DEFINE N == Len(pods)
           s == selectedUpTo(pods, takingRoom(pods))[N]
           t == placedPods(s)
<1>1. N \in Nat /\ N \in 0..N
  BY Listed DEF WellFormedPods
<1>2. s \in Seq({pods[k] : k \in 1..N})
  BY <1>1, SelectedRecursion
<1> HIDE DEF s, N
<1>3. Len(s) \in Nat /\ DOMAIN s = 1..Len(s)
  BY <1>2
<1>4. t = [k \in 1..Len(s) |-> t[k]]
  BY <1>3 DEF placedPods
<1> HIDE DEF t
<1>5. t \in Seq({t[k] : k \in 1..Len(s)})
  BY <1>3, <1>4
<1> QED
  BY <1>5, IsList DEF placedOf, t, s, N

LEMMA GatheredKept ==
  ASSUME ListsInv, GatheredInv, [Next]_vars
  PROVE  GatheredInv'
<1>1. CASE ListPending
  <2> DEFINE asks == {k \in DOMAIN cluster.pods :
                        /\ unscheduled(cluster.pods[k])
                        /\ IF opts.podName # "" THEN cluster.pods[k] \in found
                                                ELSE inScope(cluster.pods[k])}
  <2>1. pending' = selectedUpTo(cluster.pods, asks)[Len(cluster.pods)]
    BY <1>1 DEF ListPending
  <2>2. WellFormedPods(pending')
    <3> HIDE DEF asks
    <3>1. asks \in SUBSET DOMAIN cluster.pods
      BY DEF asks
    <3> QED
      BY <2>1, <3>1, PendingListed
  <2>3. UNCHANGED <<nodes, used, placed, dra>> /\ pc' \notin Streamed
    BY <1>1 DEF ListPending, Streamed
  <2> QED
    BY <2>2, <2>3 DEF GatheredInv
<1>2. CASE ListNodes
  BY <1>2 DEF ListNodes, GatheredInv, ListsInv, Streamed
<1>3. CASE StreamPods
  <2>1. \A n : usedOn(podsCache, n) \in [Kinds -> Nat]
    BY UsedTyped DEF ListsInv
  <2>2. used' = [n \in {nv.name : nv \in Range(nodes)} |-> usedOn(podsCache, n)]
        /\ placed' = placedOf(podsCache) /\ UNCHANGED <<pending, nodes, dra>>
    BY <1>3 DEF StreamPods
  <2>3. \A k \in DOMAIN nodes : nodes[k].name \in DOMAIN used' /\ used'[nodes[k].name] \in [Kinds -> Nat]
    BY <2>1, <2>2 DEF Range
  <2>4. IsSequence(placed')
    BY <2>2, PlacedListed DEF ListsInv
  <2> QED
    BY <2>2, <2>3, <2>4 DEF GatheredInv
<1>4. CASE ListClaims
  <2>1. dra' = dra \/ dra' = [dra EXCEPT !.claims = cluster.claims]
    BY <1>4 DEF ListClaims
  <2>2. NamesUnique(cluster.claims)
    BY DEF ListsInv, WellFormedCluster, WellFormedClaims
  <2>3. "claims" \in DOMAIN dra' /\ NamesUnique(dra'.claims)
    BY <2>1, <2>2 DEF GatheredInv
  <2> QED
    BY <1>4, <2>3 DEF ListClaims, GatheredInv, Streamed
<1>5. CASE ListSlices \/ ListClasses
  <2>1. \/ dra' = dra \/ dra' = [dra EXCEPT !.devices = cluster.devices]
        \/ dra' = [dra EXCEPT !.classes = cluster.classes]
    BY <1>5 DEF ListSlices, ListClasses
  <2>2. "claims" \in DOMAIN dra' /\ dra'.claims = dra.claims
    BY <2>1 DEF GatheredInv
  <2> QED
    BY <1>5, <2>2 DEF ListSlices, ListClasses, GatheredInv, Streamed
<1>6. CASE UNCHANGED gathered /\ (pc' \in Streamed => pc \in Streamed)
  BY <1>6 DEF GatheredInv, gathered
<1>7. CASE RequiredFails \/ PerPod \/ SkipVolume \/ Report
  <2>1. UNCHANGED gathered /\ (pc' \in Streamed => pc \in Streamed)
    BY <1>7 DEF RequiredFails, CallFails, PerPod, ReadPVC, PVCUnreadable, DiagnosePod, SkipVolume,
                Report, AtVolume, Streamed
  <2> QED
    BY <1>6, <2>1
<1> QED
  BY <1>1, <1>2, <1>3, <1>4, <1>5, <1>6, <1>7, StepsOfOthers, OthersLeaveRun DEF RunSteps, Lists

-----------------------------------------------------------------------------
(* Where run is *)

\* The pod being diagnosed, and its volumes.
LEMMA PodAtTurn ==
  ASSUME GatheredInv, CountersInv, pc = "pod"
  PROVE  /\ turn \in DOMAIN pending /\ turn \in Nat /\ Len(pending) \in Nat
         /\ 1 <= turn /\ turn <= Len(pending)
         /\ WellFormedPod(pod) /\ IsSequence(pod.volumes)
         /\ Len(pod.volumes) \in Nat /\ DOMAIN pod.volumes = 1..Len(pod.volumes)
<1>1. Len(pending) \in Nat /\ DOMAIN pending = 1..Len(pending)
  BY Listed DEF GatheredInv, WellFormedPods
<1>2. "pod" \in (Before \cup Streamed) \ {"pending"}
  BY DEF Before, Streamed
<1>3. turn \in Nat /\ 1 <= turn /\ turn <= Len(pending)
  BY <1>2 DEF CountersInv
<1>4. turn \in DOMAIN pending
  BY <1>1, <1>3
<1>5. WellFormedPod(pod) /\ IsSequence(pod.volumes)
  BY <1>4 DEF GatheredInv, WellFormedPods, pod
<1> QED
  BY <1>1, <1>3, <1>4, <1>5, Listed

LEMMA PlaceKept ==
  ASSUME PlaceInv, [Next]_vars
  PROVE  PlaceInv'
<1>1. CASE RunSteps
  BY <1>1 DEF RunSteps, Lists, ListPending, ListNodes, StreamPods, ListClaims, ListSlices, ListClasses,
              RequiredFails, CallFails, PerPod, ReadPVC, PVCUnreadable, DiagnosePod, SkipVolume, Report,
              AtVolume, PlaceInv, Before, Streamed
<1>2. CASE UNCHANGED <<pc, outcome>>
  BY <1>2 DEF PlaceInv
<1> QED
  BY <1>1, <1>2, StepsOfOthers, OthersLeaveRun

LEMMA CountersKept ==
  ASSUME ListsInv, GatheredInv, CountersInv, [Next]_vars
  PROVE  CountersInv'
<1> DEFINE Early == (Before \cup Streamed) \ {"pod"}
           Listing == (Before \cup Streamed) \ {"pending"}
<1>1. Len(pending) \in Nat /\ Len(pending') \in Nat /\ IsSequence(pending')
  <2>1. GatheredInv'
    BY GatheredKept
  <2> QED
    BY <2>1, Listed DEF GatheredInv, WellFormedPods
<1>2. /\ turn \in Nat /\ volume \in Nat /\ 1 <= turn /\ turn <= Len(pending) + 1 /\ 1 <= volume
      /\ pc \in Early => turn = 1 /\ volume = 1
      /\ pc \in Listing => turn <= Len(pending)
      /\ pc = "report" => turn = Len(pending) + 1
  BY DEF CountersInv
<1>3. CASE ListPending
  <2>1. /\ pc \in Early /\ pc' = IF pending' = <<>> THEN "report" ELSE "nodes"
        /\ UNCHANGED <<turn, volume>>
    BY <1>3 DEF ListPending, perPod, Before
  <2>2. turn' = 1 /\ volume' = 1
    BY <1>2, <2>1
  <2>3. CASE pending' = <<>>
    <3>1. Len(pending') = 0 /\ pc' = "report" /\ pc' \notin Listing
      BY <2>1, <2>3 DEF Before, Streamed
    <3> QED
      BY <2>2, <3>1 DEF CountersInv
  <2>4. CASE pending' # <<>>
    <3>1. Len(pending') # 0
      BY <1>1, <2>4 DEF IsSequence
    <3>2. 1 <= Len(pending') /\ 1 <= Len(pending') + 1
      BY <1>1, <3>1
    <3>3. pc' # "report"
      BY <2>1, <2>4
    <3> QED
      BY <2>2, <3>2, <3>3 DEF CountersInv
  <2> QED
    BY <2>3, <2>4
<1>4. CASE ListNodes \/ StreamPods \/ ListClaims \/ ListSlices \/ ListClasses
  <2>1. UNCHANGED <<pending, turn, volume>> /\ pc \in Early /\ pc \in Listing /\ pc' # "report"
    BY <1>4 DEF ListNodes, StreamPods, ListClaims, ListSlices, ListClasses, perPod, Before, Streamed
  <2> QED
    BY <1>2, <2>1 DEF CountersInv
<1>5. CASE RequiredFails \/ Report
  <2>1. UNCHANGED <<pending, turn, volume>> /\ pc' = "done" /\ pc' \notin Before \cup Streamed
    BY <1>5 DEF RequiredFails, CallFails, Report, perPod, gathered, Before, Streamed
  <2> QED
    BY <1>2, <2>1 DEF CountersInv
<1>6. CASE SkipVolume \/ ReadPVC \/ PVCUnreadable
  <2>1. /\ UNCHANGED <<pending, turn>> /\ pc = "pod" /\ pc' = "pod" /\ volume' = volume + 1
    BY <1>6 DEF SkipVolume, ReadPVC, PVCUnreadable, AtVolume, gathered
  <2>3. pc \in Listing /\ pc' \notin Early
    BY <2>1 DEF Before, Streamed
  <2>2. volume' \in Nat /\ 1 <= volume'
    BY <1>2, <2>1
  <2> QED
    BY <1>2, <2>1, <2>2, <2>3 DEF CountersInv
<1>7. CASE DiagnosePod
  <2>1. /\ pc \in Listing /\ turn' = turn + 1 /\ volume' = 1 /\ pending' = pending
        /\ pc' = (IF turn = Len(pending) THEN "report" ELSE "pod") /\ pc' \notin Early
    BY <1>7 DEF DiagnosePod, gathered, Before, Streamed
  <2>2. turn <= Len(pending)
    BY <1>2, <2>1
  <2>3. /\ turn' \in Nat /\ 1 <= turn' /\ turn' <= Len(pending) + 1
        /\ turn # Len(pending) => turn' <= Len(pending)
    BY <1>1, <1>2, <2>1, <2>2
  <2>4. CASE turn = Len(pending)
    <3>1. pc' = "report" /\ pc' \notin Listing /\ turn' = Len(pending) + 1
      BY <2>1, <2>4 DEF Before, Streamed
    <3> QED
      BY <2>1, <2>3, <3>1 DEF CountersInv
  <2>5. CASE turn # Len(pending)
    BY <2>1, <2>3, <2>5 DEF CountersInv
  <2> QED
    BY <2>4, <2>5
<1>8. CASE UNCHANGED <<pc, pending, turn, volume>>
  BY <1>8 DEF CountersInv
<1> QED
  BY <1>3, <1>4, <1>5, <1>6, <1>7, <1>8, StepsOfOthers, OthersLeaveRun
     DEF RunSteps, Lists, PerPod, gathered, perPod

LEMMA ShownKept ==
  ASSUME GatheredInv, CountersInv, ShownInv, [Next]_vars
  PROVE  ShownInv'
<1>1. CASE Lists \/ RequiredFails \/ Report
  <2>1. pc # "pod" /\ UNCHANGED <<missing, unbound, unread>>
    BY <1>1 DEF Lists, ListPending, ListNodes, StreamPods, ListClaims, ListSlices, ListClasses,
                RequiredFails, CallFails, Report, perPod
  <2> QED
    BY <2>1 DEF ShownInv
<1>2. CASE SkipVolume
  BY <1>2 DEF SkipVolume, ShownInv, gathered, pod
<1>3. CASE ReadPVC \/ PVCUnreadable
  <2>1. /\ pc = "pod" /\ pc' = "pod" /\ UNCHANGED <<pending, turn>>
        /\ volume <= Len(pod.volumes) /\ pod.volumes[volume] # ""
        /\ missing' \cup unbound' \cup unread' \subseteq missing \cup unbound \cup unread \cup {pod.volumes[volume]}
    BY <1>3 DEF ReadPVC, PVCUnreadable, AtVolume, gathered
  <2>2. DOMAIN pod.volumes = 1..Len(pod.volumes) /\ Len(pod.volumes) \in Nat
    BY <2>1, PodAtTurn
  <2>3. volume \in Nat /\ 1 <= volume
    BY DEF CountersInv
  <2>4. volume \in DOMAIN pod.volumes
    <3> DEFINE N == Len(pod.volumes)
    <3>1. volume <= N /\ DOMAIN pod.volumes = 1..N /\ N \in Nat
      BY <2>1, <2>2
    <3> HIDE DEF N
    <3> QED
      BY <2>3, <3>1
  <2>5. pod.volumes[volume] \in Range(pod.volumes) \ {""} /\ pod' = pod
    BY <2>1, <2>4 DEF Range, pod
  <2>6. missing' \cup unbound' \cup unread' \subseteq Range(pod.volumes) \ {""}
    BY <2>1, <2>5 DEF ShownInv
  <2> QED
    BY <2>1, <2>5, <2>6 DEF ShownInv
<1>4. CASE DiagnosePod
  BY <1>4 DEF DiagnosePod, perPodStart, ShownInv
<1>5. CASE UNCHANGED <<pc, gathered, perPod>>
  BY <1>5 DEF ShownInv, gathered, perPod, pod
<1> QED
  BY <1>1, <1>2, <1>3, <1>4, <1>5, StepsOfOthers, OthersLeaveRun DEF RunSteps, PerPod

-----------------------------------------------------------------------------
(* The diagnoses *)

thisInput == InputOf(pod, viewsOf(nodes, used), placed, missing, unbound, dra)

\* Analyze takes what run hands it.
LEMMA InputWellFormed ==
  ASSUME GatheredInv, CountersInv, pc = "pod"
  PROVE  WellFormed(thisInput)
<1> DEFINE views == viewsOf(nodes, used)
<1>1. /\ thisInput.pod = pod /\ thisInput.nodes = views /\ thisInput.dra = dra
      /\ thisInput.placed = placed
  BY DEF thisInput, InputOf
<1>2. /\ IsSequence(nodes)
      /\ \A k \in DOMAIN nodes : /\ WellFormedNode(nodes[k])
                                 /\ used[nodes[k].name] \in [Kinds -> Nat]
  BY DEF GatheredInv, WellFormedNodes, Streamed
<1>3. Len(nodes) \in Nat /\ DOMAIN nodes = 1..Len(nodes)
  BY <1>2, Listed
<1>4. DOMAIN views = 1..Len(nodes)
      /\ \A k \in 1..Len(nodes) : views[k] = [nodes[k] EXCEPT !.used = used[nodes[k].name]]
  BY <1>3 DEF viewsOf
<1>5. views \in Seq({views[k] : k \in 1..Len(nodes)})
  <2>1. views = [k \in 1..Len(nodes) |-> views[k]]
    BY <1>3 DEF viewsOf
  <2> HIDE DEF views
  <2> QED
    BY <1>3, <2>1
<1>6. IsSequence(views)
  BY <1>5, IsList
<1>7. \A k \in 1..Len(nodes) : Allocatable(views[k]) \in [Kinds -> Nat] /\ views[k].used \in [Kinds -> Nat]
  <2> SUFFICES ASSUME NEW k \in 1..Len(nodes)
               PROVE  Allocatable(views[k]) \in [Kinds -> Nat] /\ views[k].used \in [Kinds -> Nat]
    OBVIOUS
  <2>1. WellFormedNode(nodes[k]) /\ used[nodes[k].name] \in [Kinds -> Nat]
    BY <1>2, <1>3
  <2>2. views[k].alloc = nodes[k].alloc /\ views[k].used = used[nodes[k].name]
    BY <1>4, <2>1 DEF WellFormedNode
  <2>3. Allocatable(views[k]) = Allocatable(nodes[k])
    BY <2>2 DEF Allocatable
  <2> QED
    BY <2>1, <2>2, <2>3 DEF WellFormedNode
<1> HIDE DEF views
<1>8. \A nv \in Range(views) : Allocatable(nv) \in [Kinds -> Nat] /\ nv.used \in [Kinds -> Nat]
  BY <1>4, <1>7 DEF Range
<1> QED
  BY <1>1, <1>6, <1>8, PodAtTurn DEF WellFormed, GatheredInv

\* What one diagnosis adds to the results.
Added(r, listed) ==
  /\ r = [in |-> thisInput, blocked |-> Obstructed(thisInput), listed |-> listed, unread |-> unread,
          event |-> IF listed THEN latestSchedulerEvent(cluster.events, pod) ELSE ""]
  /\ results' = Append(results, r)

LEMMA OneMoreResult ==
  ASSUME DiagnosePod
  PROVE  \E r, listed : Added(r, listed)
  BY DEF DiagnosePod, Added, thisInput

LEMMA ResultsKept ==
  ASSUME GatheredInv, CountersInv, ResultsInv, [Next]_vars
  PROVE  ResultsInv'
<1>1. CASE DiagnosePod
  <2>1. PICK r, listed : Added(r, listed)
    BY <1>1, OneMoreResult
  <2>2. pc = "pod" /\ turn' = turn + 1 /\ pending' = pending
    BY <1>1 DEF DiagnosePod, gathered
  <2>3. r.in = thisInput /\ results' = Append(results, r)
    BY <2>1 DEF Added
  <2>4. r.in.pod = pending[turn] /\ WellFormed(r.in)
    BY <2>2, <2>3, InputWellFormed DEF thisInput, InputOf, pod
  <2>5. turn \in Nat /\ IsSequence(results) /\ Len(results) = turn - 1
    BY <2>2, PodAtTurn DEF ResultsInv
  <2>6. /\ IsSequence(results') /\ Len(results') = turn /\ results'[turn] = r
        /\ \A k \in DOMAIN results : results'[k] = results[k]
        /\ \A k \in DOMAIN results' : k \in DOMAIN results \/ k = turn
    BY <2>3, <2>5, AppendedList
  <2>7. \A k \in DOMAIN results' : results'[k].in.pod = pending[k] /\ WellFormed(results'[k].in)
    BY <2>4, <2>6 DEF ResultsInv
  <2> QED
    BY <2>2, <2>5, <2>6, <2>7 DEF ResultsInv
<1>2. CASE ListPending
  <2>1. turn = 1 /\ UNCHANGED <<turn, results>>
    BY <1>2 DEF ListPending, perPod, CountersInv, Before
  <2>2. DOMAIN results = {}
    BY <2>1 DEF ResultsInv, IsSequence
  <2> QED
    BY <2>1, <2>2 DEF ResultsInv
<1>3. CASE UNCHANGED <<pending, turn, results>>
  BY <1>3 DEF ResultsInv
<1>4. CASE RunSteps
  <2>1. DiagnosePod \/ ListPending \/ UNCHANGED <<pending, turn, results>>
    BY <1>4 DEF RunSteps, Lists, ListNodes, StreamPods, ListClaims, ListSlices, ListClasses,
         RequiredFails, CallFails, PerPod, ReadPVC, PVCUnreadable, SkipVolume, Report, perPod, gathered
  <2> QED
    BY <1>1, <1>2, <1>3, <2>1
<1> QED
  BY <1>3, <1>4, StepsOfOthers, OthersLeaveRun DEF gathered, perPod
-----------------------------------------------------------------------------
(* What was gathered is true of the cluster whose pods were streamed *)

\* Only the stream of pods sets what the other reads are compared with, and a read
\* that disagrees is not forgotten.
LEMMA TruthStays ==
  ASSUME [Next]_vars
  PROVE  \/ StreamPods
         \/ truth' = truth /\ (torn => torn') /\ (claimsLost => claimsLost')
<1>1. CASE RunSteps
  BY <1>1 DEF RunSteps, Lists, ListPending, ListNodes, ListClaims, ListSlices, ListClasses,
         RequiredFails, CallFails, PerPod, ReadPVC, PVCUnreadable, DiagnosePod, SkipVolume, Report, history
<1>2. CASE UNCHANGED history
  BY <1>2 DEF history
<1> QED
  BY <1>1, <1>2, StepsOfOthers, OthersLeaveRun

LEMMA SnapshotKept ==
  ASSUME ListsInv, SnapshotInv, [Next]_vars
  PROVE  SnapshotInv'
<1>1. CASE StreamPods
  <2>1. /\ UNCHANGED <<nodes>> /\ truth' = cluster
        /\ torn' = (nodes # cluster.nodes \/ podsCache # cluster.pods)
        /\ used' = [n \in {nv.name : nv \in Range(nodes)} |-> usedOn(podsCache, n)]
        /\ placed' = placedOf(podsCache)
    BY <1>1 DEF StreamPods
  <2>2. ~torn' => nodes = cluster.nodes /\ podsCache = cluster.pods
    BY <2>1
  <2> QED
    BY <2>1, <2>2 DEF SnapshotInv, ListsInv
<1>2. CASE ~StreamPods
  <2>1. truth' = truth /\ (torn => torn')
    BY <1>2, TruthStays
  <2>2. pc' \in Streamed => pc \in Streamed /\ UNCHANGED <<nodes, used, placed>>
    <3>1. CASE RunSteps
      BY <1>2, <3>1 DEF RunSteps, Lists, ListPending, ListNodes, ListClaims, ListSlices, ListClasses,
         RequiredFails, CallFails, PerPod, ReadPVC, PVCUnreadable, DiagnosePod, SkipVolume, Report,
         AtVolume, gathered, Streamed
    <3>2. CASE UNCHANGED <<pc, gathered>>
      BY <3>2 DEF gathered
    <3> QED
      BY <3>1, <3>2, StepsOfOthers, OthersLeaveRun
  <2> QED
    BY <2>1, <2>2 DEF SnapshotInv
<1> QED
  BY <1>1, <1>2

LEMMA ClaimsKept ==
  ASSUME GatheredInv, PlaceInv, ClaimsInv, [Next]_vars
  PROVE  ClaimsInv'
<1>1. CASE StreamPods
  <2>1. /\ UNCHANGED <<dra, pending>> /\ dra.claims = {}
        /\ pc' = IF needsDRA(pending) THEN "claims" ELSE "pod"
    BY <1>1 DEF StreamPods, ClaimsInv, Before
  <2>2. needsDRA(pending)' = needsDRA(pending)
    BY <2>1 DEF needsDRA
  <2> QED
    BY <2>1, <2>2 DEF ClaimsInv, Streamed
<1>2. CASE ListClaims
  <2>1. /\ pc = "claims" /\ pc' = "slices" /\ UNCHANGED <<pending, truth>> /\ dra.claims = {}
        /\ \/ /\ dra' = [dra EXCEPT !.claims = cluster.claims]
              /\ torn' = (torn \/ cluster.claims # truth.claims)
           \/ claimsLost' = TRUE /\ dra' = dra
    BY <1>2 DEF ListClaims, ClaimsInv
  <2>2. CASE claimsLost' = TRUE /\ dra' = dra
    BY <2>1, <2>2 DEF ClaimsInv, Before
  <2>3. CASE dra' = [dra EXCEPT !.claims = cluster.claims] /\ torn' = (torn \/ cluster.claims # truth.claims)
    <3>1. dra'.claims = cluster.claims
      BY <2>3 DEF GatheredInv
    <3>2. ~torn' => dra'.claims = truth'.claims
      BY <2>1, <2>3, <3>1
    <3> QED
      BY <2>1, <3>2 DEF ClaimsInv, Before
  <2> QED
    BY <2>1, <2>2, <2>3
<1>3. CASE ListSlices \/ ListClasses
  <2>1. \/ dra' = dra \/ dra' = [dra EXCEPT !.devices = cluster.devices]
        \/ dra' = [dra EXCEPT !.classes = cluster.classes]
    BY <1>3 DEF ListSlices, ListClasses
  <2>2. dra'.claims = dra.claims
    BY <2>1 DEF GatheredInv
  <2>3. UNCHANGED <<pending, truth, torn, claimsLost>> /\ pc \in {"slices", "classes"} /\ pc' \in {"classes", "pod"}
    BY <1>3 DEF ListSlices, ListClasses, history
  <2>4. needsDRA(pending)' = needsDRA(pending)
    BY <2>3 DEF needsDRA
  <2> QED
    BY <2>2, <2>3, <2>4 DEF ClaimsInv, Streamed, Before
<1>4. CASE /\ UNCHANGED dra /\ (pc' \in Streamed \ {"claims"} => pending' = pending)
           /\ (pc' \in Before \cup {"claims"} => pc \in Before \cup {"claims"})
           /\ (pc' \in Streamed \ {"claims"} => pc \in Streamed \ {"claims"})
           /\ ~StreamPods
  <2>1. truth' = truth /\ (torn => torn') /\ (claimsLost => claimsLost')
    BY <1>4, TruthStays
  <2>2. pending' = pending => needsDRA(pending)' = needsDRA(pending)
    BY DEF needsDRA
  <2> QED
    BY <1>4, <2>1, <2>2 DEF ClaimsInv
<1>5. CASE ListPending \/ ListNodes \/ RequiredFails \/ PerPod \/ SkipVolume \/ Report
  <2>1. /\ UNCHANGED dra /\ (pc' \in Streamed \ {"claims"} => pending' = pending)
        /\ (pc' \in Before \cup {"claims"} => pc \in Before \cup {"claims"})
        /\ (pc' \in Streamed \ {"claims"} => pc \in Streamed \ {"claims"})
    BY <1>5 DEF ListPending, ListNodes, RequiredFails, CallFails, PerPod, ReadPVC, PVCUnreadable,
         DiagnosePod, SkipVolume, Report, AtVolume, gathered, Before, Streamed
  <2> QED
    BY <1>1, <1>4, <2>1
<1>6. CASE UNCHANGED <<pc, gathered>>
  BY <1>1, <1>4, <1>6 DEF gathered
<1> QED
  BY <1>1, <1>2, <1>3, <1>5, <1>6, StepsOfOthers, OthersLeaveRun DEF RunSteps, Lists

-----------------------------------------------------------------------------
(* What the volumes showed *)

\* Nothing was looked at yet.
LEMMA NoVolumeYet ==
  ASSUME NEW c, NEW p
  PROVE  VolumesTrue(c, p, {}, {}, {}, 1)
  BY DEF VolumesTrue

\* One more volume: what it shows is added, or it could not be read.
LEMMA NextVolume ==
  ASSUME NEW c, NEW p, NEW gone, NEW waiting, NEW lost, NEW n \in Nat, 1 <= n,
         VolumesTrue(c, p, gone, waiting, lost, n), NEW gone2, NEW waiting2, NEW lost2,
         gone \subseteq gone2, waiting \subseteq waiting2, lost \subseteq lost2,
         gone2 \subseteq absentClaims(c, p), waiting2 \subseteq waitingClaims(c, p),
         p.volumes[n] \in absentClaims(c, p) => p.volumes[n] \in gone2 \cup lost2,
         p.volumes[n] \in waitingClaims(c, p) => p.volumes[n] \in waiting2 \cup lost2
  PROVE  VolumesTrue(c, p, gone2, waiting2, lost2, n + 1)
<1>1. \A k \in 1..((n + 1) - 1) : k \in 1..(n - 1) \/ k = n
  OBVIOUS
<1> QED
  BY <1>1 DEF VolumesTrue

\* A claim that is read shows what the cluster says of it.
LEMMA ClaimRead ==
  ASSUME NEW p, NEW c, NEW name \in Range(p.volumes) \ {""}
  PROVE  /\ name \in absentClaims(c, p) <=> <<p.ns, name>> \notin DOMAIN c.pvcs
         /\ name \in waitingClaims(c, p) <=>
              <<p.ns, name>> \in DOMAIN c.pvcs /\ isUnbound(c.pvcs[<<p.ns, name>>])
  BY DEF absentClaims, waitingClaims, isUnbound

LEMMA VolumesKept ==
  ASSUME GatheredInv, CountersInv, ShownInv, VolumesInv, [Next]_vars
  PROVE  VolumesInv'
<1> SUFFICES ASSUME pc' = "pod", ~torn'
             PROVE  VolumesTrue(truth', pod', missing', unbound', unread', volume')
  BY DEF VolumesInv
<1>1. CASE pc # "pod" \/ DiagnosePod
  <2>1. missing' = {} /\ unbound' = {} /\ unread' = {} /\ volume' = 1
    <3>1. CASE DiagnosePod
      BY <3>1 DEF DiagnosePod, perPodStart
    <3>2. CASE pc # "pod" /\ RunSteps
      <4>1. StreamPods \/ ListClasses
        BY <3>2 DEF RunSteps, Lists, ListPending, ListNodes, ListClaims, ListSlices,
           RequiredFails, CallFails, PerPod, ReadPVC, PVCUnreadable, DiagnosePod, SkipVolume, Report, AtVolume
      <4>2. UNCHANGED perPod /\ pc \in (Before \cup Streamed) \ {"pod"}
        BY <4>1 DEF StreamPods, ListClasses, Before, Streamed
      <4>3. volume = 1 /\ missing = {} /\ unbound = {} /\ unread = {}
        BY <4>2 DEF CountersInv, ShownInv
      <4> QED
        BY <4>2, <4>3 DEF perPod
    <3> QED
      BY <1>1, <3>1, <3>2, StepsOfOthers, OthersLeaveRun
  <2> QED
    BY <2>1, NoVolumeYet
<1>2. CASE pc = "pod" /\ ~DiagnosePod
  <2>1. truth' = truth /\ ~torn
    BY <1>2, TruthStays DEF StreamPods
  <2>2. VolumesTrue(truth, pod, missing, unbound, unread, volume)
    BY <1>2, <2>1 DEF VolumesInv
  <2>3. volume \in Nat /\ 1 <= volume
    BY DEF CountersInv
  <2>4. missing \subseteq absentClaims(truth, pod) /\ unbound \subseteq waitingClaims(truth, pod)
    BY <2>2 DEF VolumesTrue
  <2>5. CASE SkipVolume
    <3>1. /\ pod.volumes[volume] = "" /\ volume' = volume + 1
          /\ UNCHANGED <<pending, turn, missing, unbound, unread>>
      BY <2>5 DEF SkipVolume, AtVolume, gathered
    <3>2. "" \notin absentClaims(truth, pod) /\ "" \notin waitingClaims(truth, pod) /\ pod' = pod
      BY <3>1 DEF absentClaims, waitingClaims, pod
    <3> QED
      BY <2>1, <2>2, <2>3, <2>4, <3>1, <3>2, NextVolume
  <2>6. ASSUME ReadPVC \/ PVCUnreadable
        PROVE  pod.volumes[volume] \in Range(pod.volumes) \ {""} /\ volume' = volume + 1 /\ pod' = pod
    <3>1. /\ pod.volumes[volume] # "" /\ volume' = volume + 1 /\ volume <= Len(pod.volumes)
          /\ UNCHANGED <<pending, turn>>
      BY <2>6 DEF ReadPVC, PVCUnreadable, AtVolume, gathered
    <3> DEFINE N == Len(pod.volumes)
    <3>2. volume <= N /\ DOMAIN pod.volumes = 1..N /\ N \in Nat
      BY <1>2, <3>1, PodAtTurn
    <3> HIDE DEF N
    <3>3. volume \in DOMAIN pod.volumes
      BY <2>3, <3>2
    <3> QED
      BY <3>1, <3>3 DEF Range, pod
  <2>7. CASE ReadPVC
    <3> DEFINE name == pod.volumes[volume]
    <3>1. cluster.pvcs = truth.pvcs /\ unread' = unread
      BY <2>7 DEF ReadPVC
    <3>2. /\ missing' = IF <<pod.ns, name>> \in DOMAIN truth.pvcs THEN missing ELSE missing \cup {name}
          /\ unbound' = IF <<pod.ns, name>> \in DOMAIN truth.pvcs /\ isUnbound(truth.pvcs[<<pod.ns, name>>])
                        THEN unbound \cup {name} ELSE unbound
      BY <2>7, <3>1 DEF ReadPVC, claimOf
    <3>3. name \in Range(pod.volumes) \ {""} /\ volume' = volume + 1 /\ pod' = pod
      BY <2>6, <2>7
    <3> HIDE DEF name
    <3>4. /\ missing' = IF name \in absentClaims(truth, pod) THEN missing \cup {name} ELSE missing
          /\ unbound' = IF name \in waitingClaims(truth, pod) THEN unbound \cup {name} ELSE unbound
      BY <3>2, <3>3, ClaimRead
    <3>5. /\ missing \subseteq missing' /\ unbound \subseteq unbound'
          /\ missing' \subseteq absentClaims(truth, pod) /\ unbound' \subseteq waitingClaims(truth, pod)
          /\ name \in absentClaims(truth, pod) => name \in missing'
          /\ name \in waitingClaims(truth, pod) => name \in unbound'
      BY <2>4, <3>4
    <3> QED
      BY <2>1, <2>2, <2>3, <3>1, <3>3, <3>5, NextVolume DEF name
  <2>8. CASE PVCUnreadable
    <3>1. UNCHANGED <<missing, unbound>> /\ unread' = unread \cup {pod.volumes[volume]}
      BY <2>8 DEF PVCUnreadable
    <3>2. volume' = volume + 1 /\ pod' = pod
      BY <2>6, <2>8
    <3> QED
      BY <2>1, <2>2, <2>3, <2>4, <3>1, <3>2, NextVolume
  <2>9. CASE UNCHANGED <<gathered, perPod>>
    BY <2>1, <2>2, <2>9 DEF gathered, perPod, pod
  <2>10. RunSteps => SkipVolume \/ ReadPVC \/ PVCUnreadable
    BY <1>2 DEF RunSteps, Lists, ListPending, ListNodes, StreamPods, ListClaims, ListSlices, ListClasses,
           RequiredFails, CallFails, PerPod, Report
  <2> QED
    BY <2>5, <2>7, <2>8, <2>9, <2>10, StepsOfOthers, OthersLeaveRun
<1> QED
  BY <1>1, <1>2
-----------------------------------------------------------------------------
(* What obstructs a pod, apart from its claims *)

RoomObstructs(in) ==
  \/ NodesObstruct(in)
  \/ \E name \in Range(ExtNames) : ExtendedObstructs(in, name)
  \/ \E c \in Range(in.pod.spread) : SpreadObstructs(in, c)
  \/ \E t \in Range(in.pod.affinity) : AffinityObstructs(in, t)
  \/ \E t \in Range(in.pod.antiAffinity) : AntiAffinityObstructs(in, t)

ClaimsObstruct(in) == \E prc \in Range(in.pod.resourceClaims) : ClaimObstructs(in, prc)

LEMMA ObstructedBy ==
  ASSUME NEW in
  PROVE  Obstructed(in) <=> StorageObstructs(in) \/ RoomObstructs(in) \/ ClaimsObstruct(in)
  BY DEF Obstructed, RoomObstructs, ClaimsObstruct

\* These inputs are about the same pod in the same place.
SamePlace(a, b) == a.pod = b.pod /\ a.nodes = b.nodes /\ a.placed = b.placed

LEMMA SameRoom ==
  ASSUME NEW a, NEW b, SamePlace(a, b), RoomObstructs(a)
  PROVE  RoomObstructs(b)
<1>1. a.pod = b.pod /\ a.nodes = b.nodes /\ a.placed = b.placed /\ Candidates(a) = Candidates(b)
  BY DEF SamePlace, Candidates
<1>2. \A among, key, d, namespaces, sel :
        selectedIn(a, among, key, d, namespaces, sel) = selectedIn(b, among, key, d, namespaces, sel)
  BY <1>1 DEF selectedIn
<1>3. NodesObstruct(a) => NodesObstruct(b)
  BY <1>1 DEF NodesObstruct
<1>4. \A name : ExtendedObstructs(a, name) => ExtendedObstructs(b, name)
  BY <1>1 DEF ExtendedObstructs
<1>5. \A c, nv : keepsSkew(b, c, nv) => keepsSkew(a, c, nv)
  <2> SUFFICES ASSUME NEW c, NEW nv, keepsSkew(b, c, nv)
               PROVE  keepsSkew(a, c, nv)
    OBVIOUS
  <2> DEFINE weightA(d) == Cardinality(selectedIn(a, Range(a.nodes), c.key, d, {a.pod.ns}, c.selector))
             weightB(d) == Cardinality(selectedIn(b, Range(b.nodes), c.key, d, {b.pod.ns}, c.selector))
  <2>1. \A d : selectedIn(a, Range(a.nodes), c.key, d, {a.pod.ns}, c.selector)
                = selectedIn(b, Range(b.nodes), c.key, d, {b.pod.ns}, c.selector)
    BY <1>1, <1>2
  <2>2. \A d : weightA(d) = weightB(d)
    BY <2>1
  <2>3. \A other \in Range(b.nodes) : c.key \in DOMAIN other.labels =>
          weightB(nv.labels[c.key]) + 1 - weightB(other.labels[c.key]) <= c.maxSkew
    BY DEF keepsSkew
  <2> HIDE DEF weightA, weightB
  <2>4. \A other \in Range(a.nodes) : c.key \in DOMAIN other.labels =>
          weightA(nv.labels[c.key]) + 1 - weightA(other.labels[c.key]) <= c.maxSkew
    BY <1>1, <2>2, <2>3
  <2> QED
    BY <2>4 DEF keepsSkew, weightA
<1>6. \A c : SpreadObstructs(a, c) => SpreadObstructs(b, c)
  BY <1>1, <1>5 DEF SpreadObstructs
<1>7. \A t, nv, among : metBy(a, t, nv, among) <=> metBy(b, t, nv, among)
  BY <1>1, <1>2 DEF metBy
<1>8. \A t : carrying(a, t) = carrying(b, t)
  BY <1>1 DEF carrying
<1>9. \A t : AffinityObstructs(a, t) => AffinityObstructs(b, t)
  BY <1>1, <1>7, <1>8 DEF AffinityObstructs
<1>10. \A t : AntiAffinityObstructs(a, t) => AntiAffinityObstructs(b, t)
  BY <1>1, <1>7, <1>8 DEF AntiAffinityObstructs
<1> QED
  BY <1>1, <1>3, <1>4, <1>6, <1>9, <1>10 DEF RoomObstructs

\* With fewer claims to be seen, no fewer are in the way.
LEMMA FewerClaims ==
  ASSUME NEW a, NEW b, a.pod = b.pod, a.dra.claims \subseteq b.dra.claims, ClaimsObstruct(b)
  PROVE  ClaimsObstruct(a)
<1>1. PICK prc \in Range(b.pod.resourceClaims) : ClaimObstructs(b, prc)
  BY DEF ClaimsObstruct
<1>2. ClaimObstructs(a, prc)
  BY <1>1 DEF ClaimObstructs
<1> QED
  BY <1>1, <1>2 DEF ClaimsObstruct

-----------------------------------------------------------------------------
(* The input that run puts together, and the true one *)

\* A pod that is not bound meanwhile was on no node when the pods were streamed.
LEMMA NotAmongOthers ==
  ASSUME WellFormedCluster(truth), NEW p, ~boundMeanwhile(p)
  PROVE  others(truth, p) = truth.pods
<1>1. truth.pods = [k \in DOMAIN truth.pods |-> truth.pods[k]]
      /\ Range(truth.pods) = {truth.pods[k] : k \in DOMAIN truth.pods}
  BY Listed DEF WellFormedCluster, WellFormedPods
<1>2. \A k \in DOMAIN truth.pods : ~(samePod(p, truth.pods[k]) /\ truth.pods[k].node # "")
  BY <1>1 DEF boundMeanwhile, unscheduled
<1>3. others(truth, p) = [k \in DOMAIN truth.pods |-> truth.pods[k]]
  BY <1>2 DEF others
<1> QED
  BY <1>1, <1>3

LEMMA InputTrue ==
  ASSUME GatheredInv, SnapshotInv, pc = "pod", ~torn, ~boundMeanwhile(pod)
  PROVE  SamePlace(thisInput, trueInput(truth, pod))
<1> DEFINE total == [n \in {nv.name : nv \in Range(nodes)} |-> usedOn(truth.pods, n)]
<1>1. /\ WellFormedCluster(truth) /\ nodes = truth.nodes /\ placed = placedOf(truth.pods)
      /\ used = total
  BY DEF SnapshotInv, Streamed
<1>2. others(truth, pod) = truth.pods
  BY <1>1, NotAmongOthers
<1>3. \A k \in DOMAIN nodes : total[nodes[k].name] = usedOn(truth.pods, nodes[k].name)
  BY DEF Range
<1> HIDE DEF total
<1>4. viewsOf(nodes, used) =
        [k \in DOMAIN truth.nodes |->
           [truth.nodes[k] EXCEPT !.used = usedOn(truth.pods, truth.nodes[k].name)]]
  BY <1>1, <1>3 DEF viewsOf
<1> DEFINE this == thisInput
           true == trueInput(truth, pod)
<1>5. this.pod = pod /\ this.nodes = viewsOf(nodes, used) /\ this.placed = placed
  BY DEF thisInput, InputOf
<1>6. true.pod = pod /\ true.placed = placedOf(others(truth, pod))
  BY DEF trueInput, InputOf
<1>7. true.nodes = [k \in DOMAIN truth.nodes |->
           [truth.nodes[k] EXCEPT !.used = usedOn(others(truth, pod), truth.nodes[k].name)]]
  BY DEF trueInput, InputOf
<1> HIDE DEF this, true
<1>8. true.nodes = [k \in DOMAIN truth.nodes |->
           [truth.nodes[k] EXCEPT !.used = usedOn(truth.pods, truth.nodes[k].name)]]
  BY <1>2, <1>7
<1>9. this.nodes = true.nodes
  BY <1>4, <1>5, <1>8
<1>10. SamePlace(this, true)
  BY <1>1, <1>2, <1>5, <1>6, <1>9 DEF SamePlace
<1> QED
  BY <1>10 DEF this, true

\* The other fields of the two.
LEMMA InputFields ==
  /\ thisInput.missingPVCs = missing /\ thisInput.unboundPVCs = unbound /\ thisInput.dra = dra
  /\ thisInput.pod = pod
  BY DEF thisInput, InputOf

LEMMA TrueFields ==
  ASSUME NEW p
  PROVE  LET true == trueInput(truth, p)
         IN  /\ true.missingPVCs = absentClaims(truth, p) /\ true.unboundPVCs = waitingClaims(truth, p)
             /\ true.dra.claims = truth.claims /\ true.pod = p
  BY DEF trueInput, InputOf

LEMMA NoClaimsNeeded ==
  ASSUME GatheredInv, CountersInv, pc = "pod", ~needsDRA(pending), NEW in, in.pod = pod
  PROVE  ~ClaimsObstruct(in)
<1>1. turn \in DOMAIN pending
  BY PodAtTurn
<1>2. in.pod.resourceClaims = <<>>
  BY <1>1 DEF needsDRA, pod
<1> QED
  BY <1>2 DEF ClaimsObstruct, Range

\* The diagnosis finds an obstacle only where there is one.
LEMMA DiagnosisTrue ==
  ASSUME GatheredInv, CountersInv, SnapshotInv, ClaimsInv, VolumesInv, pc = "pod",
         ~torn, ~claimsLost, ~boundMeanwhile(pod), Obstructed(thisInput)
  PROVE  Obstructed(trueInput(truth, pod))
<1> DEFINE true == trueInput(truth, pod)
<1>1. SamePlace(thisInput, true)
  BY InputTrue
<1>2. /\ true.missingPVCs = absentClaims(truth, pod) /\ true.unboundPVCs = waitingClaims(truth, pod)
      /\ true.dra.claims = truth.claims /\ true.pod = pod
  BY TrueFields
<1> HIDE DEF true
<1>3. CASE StorageObstructs(thisInput)
  <2>1. missing \subseteq absentClaims(truth, pod) /\ unbound \subseteq waitingClaims(truth, pod)
    BY DEF VolumesInv, VolumesTrue
  <2>2. StorageObstructs(true)
    BY <1>2, <1>3, <2>1, InputFields DEF StorageObstructs
  <2> QED
    BY <2>2, ObstructedBy DEF true
<1>4. CASE RoomObstructs(thisInput)
  BY <1>1, <1>4, SameRoom, ObstructedBy DEF true
<1>5. CASE ClaimsObstruct(thisInput)
  <2>1. dra.claims = truth.claims
    BY <1>5, NoClaimsNeeded, InputFields DEF ClaimsInv, Streamed
  <2>2. true.pod = thisInput.pod /\ true.dra.claims \subseteq thisInput.dra.claims
    BY <1>2, <2>1, InputFields
  <2>3. ClaimsObstruct(true)
    BY <1>5, <2>2, FewerClaims
  <2> QED
    BY <2>3, ObstructedBy DEF true
<1> QED
  BY <1>3, <1>4, <1>5, ObstructedBy

\* The input without what its volumes have against it.
withoutVolumes(in) == [in EXCEPT !.missingPVCs = {}, !.unboundPVCs = {}]

\* It misses an obstacle only in volumes that it could not read.
LEMMA DiagnosisMisses ==
  ASSUME GatheredInv, CountersInv, SnapshotInv, ClaimsInv, VolumesInv, pc = "pod",
         volume > Len(pod.volumes), ~torn, ~boundMeanwhile(pod),
         ~Obstructed(thisInput), Obstructed(trueInput(truth, pod))
  PROVE  /\ unread \cap (absentClaims(truth, pod) \cup waitingClaims(truth, pod)) # {}
         /\ ~Obstructed(withoutVolumes(trueInput(truth, pod)))
<1> DEFINE true == trueInput(truth, pod)
           rest == withoutVolumes(true)
<1>1. SamePlace(thisInput, true)
  BY InputTrue
<1>2. /\ true.missingPVCs = absentClaims(truth, pod) /\ true.unboundPVCs = waitingClaims(truth, pod)
      /\ true.dra.claims = truth.claims /\ true.pod = pod
  BY TrueFields
<1>3. /\ rest.missingPVCs = {} /\ rest.unboundPVCs = {} /\ rest.dra = true.dra
      /\ rest.pod = true.pod /\ rest.nodes = true.nodes /\ rest.placed = true.placed
  BY DEF withoutVolumes, trueInput, InputOf
<1>4. Obstructed(true)
  OBVIOUS
<1>5. dra.claims \subseteq truth.claims
  BY DEF ClaimsInv, Streamed
<1> HIDE DEF rest, true
<1>6. ~StorageObstructs(thisInput) /\ ~RoomObstructs(thisInput) /\ ~ClaimsObstruct(thisInput)
  BY ObstructedBy
<1>7. ~RoomObstructs(true) /\ ~RoomObstructs(rest)
  <2>1. SamePlace(true, thisInput) /\ SamePlace(rest, thisInput)
    BY <1>1, <1>3 DEF SamePlace
  <2> QED
    BY <1>6, <2>1, SameRoom
<1>8. ~ClaimsObstruct(true) /\ ~ClaimsObstruct(rest)
  <2>1. thisInput.pod = pod /\ thisInput.dra = dra
    BY InputFields
  <2>2. /\ thisInput.pod = true.pod /\ thisInput.dra.claims \subseteq true.dra.claims
        /\ thisInput.pod = rest.pod /\ thisInput.dra.claims \subseteq rest.dra.claims
    BY <1>2, <1>3, <1>5, <2>1
  <2> QED
    BY <1>6, <2>2, FewerClaims
<1>9. ~Obstructed(rest)
  BY <1>3, <1>7, <1>8, ObstructedBy DEF StorageObstructs
<1>10. absentClaims(truth, pod) # {} \/ waitingClaims(truth, pod) # {}
  BY <1>2, <1>4, <1>7, <1>8, ObstructedBy DEF StorageObstructs
<1>11. missing = {} /\ unbound = {}
  BY <1>6, InputFields DEF StorageObstructs
<1>12. absentClaims(truth, pod) \cup waitingClaims(truth, pod) \subseteq unread
  <2> SUFFICES ASSUME NEW name, name \in absentClaims(truth, pod) \/ name \in waitingClaims(truth, pod)
               PROVE  name \in unread
    OBVIOUS
  <2>1. name \in Range(pod.volumes)
    BY DEF absentClaims, waitingClaims
  <2>2. PICK k \in DOMAIN pod.volumes : pod.volumes[k] = name
    BY <2>1 DEF Range
  <2> DEFINE N == Len(pod.volumes)
  <2>3. DOMAIN pod.volumes = 1..N /\ N \in Nat /\ volume > N
    BY PodAtTurn
  <2>4. volume \in Nat
    BY DEF CountersInv
  <2> HIDE DEF N
  <2>5. k \in 1..(volume - 1)
    BY <2>2, <2>3, <2>4
  <2>6. VolumesTrue(truth, pod, missing, unbound, unread, volume)
    BY DEF VolumesInv
  <2> QED
    BY <1>11, <2>2, <2>5, <2>6 DEF VolumesTrue
<1>13. unread \cap (absentClaims(truth, pod) \cup waitingClaims(truth, pod)) # {}
  BY <1>10, <1>12
<1> QED
  BY <1>9, <1>13 DEF rest, true
-----------------------------------------------------------------------------
(* The diagnoses of a run, one by one *)

\* Each is one of before, or the one that a step of DiagnosePod adds.
LEMMA ResultsGrow ==
  ASSUME ResultsInv, [Next]_vars, NEW r \in Range(results')
  PROVE  \/ r \in Range(results)
         \/ DiagnosePod /\ UNCHANGED <<truth, torn, claimsLost, cluster>>
              /\ \E listed : Added(r, listed)
<1>1. CASE DiagnosePod
  <2>1. PICK new, listed : Added(new, listed)
    BY <1>1, OneMoreResult
  <2>2. IsSequence(results) /\ results' = Append(results, new)
    BY <2>1 DEF Added, ResultsInv
  <2>3. \A k \in DOMAIN results' : k \in DOMAIN results \/ k = Len(results) + 1
    BY <2>2, AppendedList
  <2>4. results'[Len(results) + 1] = new /\ \A k \in DOMAIN results : results'[k] = results[k]
    BY <2>2, AppendedList
  <2>5. r \in Range(results) \/ r = new
    BY <2>3, <2>4 DEF Range
  <2>6. UNCHANGED <<truth, torn, claimsLost, cluster>>
    BY <1>1 DEF DiagnosePod, history, environment
  <2> QED
    BY <1>1, <2>1, <2>5, <2>6
<1>2. CASE RunSteps /\ ~DiagnosePod
  <2>1. results' = results
    BY <1>2 DEF RunSteps, Lists, ListPending, ListNodes, StreamPods, ListClaims, ListSlices, ListClasses,
         RequiredFails, CallFails, PerPod, ReadPVC, PVCUnreadable, SkipVolume, Report, perPod
  <2> QED
    BY <2>1
<1>3. CASE UNCHANGED perPod
  BY <1>3 DEF perPod
<1> QED
  BY <1>1, <1>2, <1>3, StepsOfOthers, OthersLeaveRun

\* Nothing was diagnosed before the pods were streamed.
LEMMA NoResultsYet ==
  ASSUME CountersInv, ResultsInv, StreamPods
  PROVE  Range(results) = {}
<1>1. turn = 1
  BY DEF StreamPods, CountersInv, Before
<1>2. DOMAIN results = {}
  BY <1>1 DEF ResultsInv, IsSequence
<1> QED
  BY <1>2 DEF Range

NotInvented(r) ==
  r.blocked /\ ~torn /\ ~claimsLost =>
    Obstructed(trueInput(truth, r.in.pod)) \/ boundMeanwhile(r.in.pod)

LEMMA NothingInventedKept ==
  ASSUME RunInv, [Next]_vars
  PROVE  NothingInvented'
<1> USE DEF RunInv, TurnInv
<1> SUFFICES ASSUME NEW r \in Range(results')
             PROVE  NotInvented(r)'
  BY DEF NothingInvented, NotInvented
<1>1. CASE r \in Range(results)
  <2>1. ~StreamPods
    BY <1>1, NoResultsYet
  <2>2. truth' = truth /\ (torn => torn') /\ (claimsLost => claimsLost')
    BY <2>1, TruthStays
  <2>3. NotInvented(r)
    BY <1>1 DEF NothingInvented, NotInvented
  <2>4. boundMeanwhile(r.in.pod)' = boundMeanwhile(r.in.pod)
    BY <2>2 DEF boundMeanwhile
  <2> QED
    BY <2>2, <2>3, <2>4 DEF NotInvented
<1>2. ASSUME DiagnosePod, UNCHANGED <<truth, torn, claimsLost>>, NEW listed, Added(r, listed)
      PROVE  NotInvented(r)'
  <2>1. pc = "pod" /\ r.blocked = Obstructed(thisInput) /\ r.in = thisInput
    BY <1>2 DEF DiagnosePod, Added
  <2>2. r.in.pod = pod
    BY <2>1, InputFields
  <2>3. ~torn /\ ~claimsLost /\ ~boundMeanwhile(pod) /\ Obstructed(thisInput)
          => Obstructed(trueInput(truth, pod))
    BY <2>1, DiagnosisTrue
  <2>4. NotInvented(r)
    BY <2>1, <2>2, <2>3 DEF NotInvented
  <2>5. boundMeanwhile(r.in.pod)' = boundMeanwhile(r.in.pod)
    BY <1>2 DEF boundMeanwhile
  <2> QED
    BY <1>2, <2>4, <2>5 DEF NotInvented
<1> QED
  BY <1>1, <1>2, ResultsGrow

NotHidden(r) ==
  LET true == trueInput(truth, r.in.pod)
  IN  ~r.blocked /\ ~torn /\ Obstructed(true) =>
        \/ boundMeanwhile(r.in.pod)
        \/ /\ r.unread \cap (true.missingPVCs \cup true.unboundPVCs) # {}
           /\ ~Obstructed(withoutVolumes(true))

LEMMA NothingHiddenKept ==
  ASSUME RunInv, [Next]_vars
  PROVE  NothingHidden'
<1> USE DEF RunInv, TurnInv
<1> SUFFICES ASSUME NEW r \in Range(results')
             PROVE  NotHidden(r)'
  BY DEF NothingHidden, NotHidden, withoutVolumes
<1>1. CASE r \in Range(results)
  <2>1. ~StreamPods
    BY <1>1, NoResultsYet
  <2>2. truth' = truth /\ (torn => torn')
    BY <2>1, TruthStays
  <2>3. NotHidden(r)
    BY <1>1 DEF NothingHidden, NotHidden, withoutVolumes
  <2>4. boundMeanwhile(r.in.pod)' = boundMeanwhile(r.in.pod)
    BY <2>2 DEF boundMeanwhile
  <2> QED
    BY <2>2, <2>3, <2>4 DEF NotHidden
<1>2. ASSUME DiagnosePod, UNCHANGED <<truth, torn, claimsLost>>, NEW listed, Added(r, listed)
      PROVE  NotHidden(r)'
  <2>1. /\ pc = "pod" /\ volume > Len(pod.volumes)
        /\ r.blocked = Obstructed(thisInput) /\ r.in = thisInput /\ r.unread = unread
    BY <1>2 DEF DiagnosePod, Added
  <2>2. r.in.pod = pod
    BY <2>1, InputFields
  <2> DEFINE true == trueInput(truth, pod)
  <2>3. /\ true.missingPVCs = absentClaims(truth, pod) /\ true.unboundPVCs = waitingClaims(truth, pod)
    BY TrueFields
  <2>4. ~torn /\ ~boundMeanwhile(pod) /\ ~Obstructed(thisInput) /\ Obstructed(true)
          => /\ unread \cap (absentClaims(truth, pod) \cup waitingClaims(truth, pod)) # {}
             /\ ~Obstructed(withoutVolumes(true))
    BY <2>1, DiagnosisMisses
  <2> HIDE DEF true
  <2>5. trueInput(truth, r.in.pod) = true
    BY <2>2 DEF true
  <2>6. NotHidden(r)
    BY <2>1, <2>2, <2>3, <2>4, <2>5 DEF NotHidden
  <2>7. boundMeanwhile(r.in.pod)' = boundMeanwhile(r.in.pod)
    BY <1>2 DEF boundMeanwhile
  <2> QED
    BY <1>2, <2>6, <2>7 DEF NotHidden
<1> QED
  BY <1>1, <1>2, ResultsGrow

\* The event shown is the latest of the pod's failures.
ShowsLatest(r) ==
  r.listed =>
    LET dated == {k \in failures(r.in.pod) : cluster.events[k].last > 0}
    IN  IF dated = {} THEN r.event = ""
        ELSE \E k \in dated :
               /\ r.event = cluster.events[k].message
               /\ \A j \in dated : cluster.events[j].last <= cluster.events[k].last

LEMMA LatestShown ==
  ASSUME ListsInv, NEW r, r.event = latestSchedulerEvent(cluster.events, r.in.pod)
  PROVE  ShowsLatest(r)
<1> DEFINE events == cluster.events
           p == r.in.pod
           N == Len(events)
           v == latestUpTo(events, p)[N]
           dated == {k \in failures(p) : events[k].last > 0}
<1>1. IsSequence(events) /\ \A k \in DOMAIN events : events[k].last \in Nat
  BY DEF ListsInv, WellFormedCluster, WellFormedEvents
<1>2. DOMAIN events = 1..N
  BY <1>1, Listed
<1>3. dated = datedUpTo(events, p, N)
  BY <1>2 DEF failures, datedUpTo
<1>4. LatestOf(v, events, p, N)
  BY <1>1, LatestFound
<1>5. r.event = v.message
  BY DEF latestSchedulerEvent
<1> HIDE DEF v, N, dated, events
<1>6. \/ v = NoEvent /\ dated = {}
      \/ \E k \in dated : v = events[k] /\ \A j \in dated : events[j].last <= events[k].last
  BY <1>3, <1>4 DEF LatestOf
<1>7. IF dated = {} THEN r.event = ""
      ELSE \E k \in dated : /\ r.event = events[k].message
                            /\ \A j \in dated : events[j].last <= events[k].last
  <2>1. CASE dated = {}
    <3>1. v = NoEvent
      BY <1>6, <2>1
    <3>2. r.event = ""
      BY <1>5, <3>1 DEF NoEvent
    <3> QED
      BY <2>1, <3>2
  <2>2. CASE dated # {}
    <3>1. PICK k \in dated : v = events[k] /\ \A j \in dated : events[j].last <= events[k].last
      BY <1>6, <2>2
    <3>2. r.event = events[k].message
      BY <1>5, <3>1
    <3> QED
      BY <2>2, <3>1, <3>2
  <2> QED
    BY <2>1, <2>2
<1> QED
  BY <1>7 DEF ShowsLatest, dated, events

LEMMA EventIsLatestKept ==
  ASSUME RunInv, [Next]_vars
  PROVE  EventIsLatest'
<1> USE DEF RunInv, TurnInv
<1> SUFFICES ASSUME NEW r \in Range(results')
             PROVE  ShowsLatest(r)'
  BY DEF EventIsLatest, ShowsLatest
<1>1. ShowsLatest(r)
  <2>1. CASE r \in Range(results)
    BY <2>1 DEF EventIsLatest, ShowsLatest
  <2>2. ASSUME NEW listed, Added(r, listed)
        PROVE  ShowsLatest(r)
    <3>1. /\ r.listed = listed /\ r.in = thisInput
          /\ r.event = IF listed THEN latestSchedulerEvent(cluster.events, pod) ELSE ""
      BY <2>2 DEF Added
    <3>2. r.in.pod = pod
      BY <3>1, InputFields
    <3>3. CASE listed
      BY <3>1, <3>2, <3>3, LatestShown
    <3>4. CASE ~listed
      BY <3>1, <3>4 DEF ShowsLatest
    <3> QED
      BY <3>3, <3>4
  <2> QED
    BY <2>1, <2>2, ResultsGrow
<1>2. cluster'.events = cluster.events
  BY ListsKept
<1>3. failures(r.in.pod)' = failures(r.in.pod)
  BY <1>2 DEF failures
<1> QED
  BY <1>1, <1>2, <1>3 DEF ShowsLatest
-----------------------------------------------------------------------------
(* As long as nothing changes *)

\* The pods listed are those asked for.
LEMMA AskedFor ==
  ASSUME ListsInv, ListPending
  PROVE  Range(pending') = {p \in Range(cluster.pods) : asked(p)}
<1> DEFINE pods == cluster.pods
           asks == {k \in DOMAIN pods : /\ unscheduled(pods[k])
                                        /\ IF opts.podName # "" THEN pods[k] \in found
                                                                ELSE inScope(pods[k])}
<1>1. AllAt(pending', pods, asks) /\ IsSequence(pending')
  <2>1. pending' = selectedUpTo(cluster.pods, asks)[Len(cluster.pods)]
    BY DEF ListPending
  <2>2. asks \in SUBSET DOMAIN cluster.pods
    OBVIOUS
  <2> HIDE DEF asks, pods
  <2> QED
    BY <2>1, <2>2, PendingListed DEF WellFormedPods, pods
<1>2. IsSequence(pods)
  BY DEF ListsInv, WellFormedCluster, WellFormedPods
<1>3. /\ Range(pods) = {pods[k] : k \in DOMAIN pods}
      /\ Range(pending') = {pending'[k] : k \in DOMAIN pending'}
  <2> HIDE DEF pods
  <2> QED
    BY <1>1, <1>2, Listed
<1>4. ASSUME NEW k \in DOMAIN pods
      PROVE  k \in asks <=> asked(pods[k])
  <2> DEFINE p == pods[k]
  <2>1. p \in Range(cluster.pods)
    BY <1>3
  <2>2. opts.podName # "" => found # {}
    BY DEF ListPending
  <2>3. CASE opts.podName = ""
    <3>1. opts.podName \in {"", p.name}
      BY <2>3
    <3> QED
      BY <2>3, <3>1 DEF asked
  <2>4. CASE opts.podName # ""
    <3>1. scope # ""
      BY <2>2, <2>4 DEF found
    <3>2. p \in found <=> p.name = opts.podName /\ p.ns = scope
      BY <2>1, <3>1 DEF found
    <3>3. inScope(p) <=> p.ns = scope
      BY <3>1 DEF inScope
    <3>4. opts.podName \in {"", p.name} <=> p.name = opts.podName
      BY <2>4
    <3> QED
      BY <2>4, <3>2, <3>3, <3>4 DEF asked
  <2> QED
    BY <2>3, <2>4
<1> HIDE DEF asks, pods
<1>5. \A k \in asks : k \in DOMAIN pods
  BY DEF asks
<1>6. Range(pending') = {p \in Range(pods) : asked(p)}
  <2>1. ASSUME NEW p \in Range(pending')
        PROVE  p \in Range(pods) /\ asked(p)
    <3>1. PICK j \in DOMAIN pending' : p = pending'[j]
      BY <1>3
    <3>2. PICK i \in asks : pending'[j] = pods[i]
      BY <1>1 DEF AllAt
    <3> QED
      BY <1>3, <1>4, <1>5, <3>1, <3>2
  <2>2. ASSUME NEW p \in Range(pods), asked(p)
        PROVE  p \in Range(pending')
    <3>1. PICK k \in DOMAIN pods : p = pods[k]
      BY <1>3
    <3>2. k \in asks
      BY <1>4, <2>2, <3>1
    <3>3. PICK j \in DOMAIN pending' : pending'[j] = pods[k]
      BY <1>1, <3>2 DEF AllAt
    <3> QED
      BY <1>3, <3>1, <3>3
  <2> QED
    BY <2>1, <2>2
<1> QED
  BY <1>6 DEF pods

Still ==
  /\ nodesCache = cluster.nodes /\ podsCache = cluster.pods /\ ~torn
  /\ pc \in Streamed \cup {"pods"} => nodes = cluster.nodes
  /\ pc \in Streamed \/ results # <<>> => truth = cluster
  /\ pc # "pending" /\ outcome # "error" =>
       Range(pending) = {p \in Range(cluster.pods) : asked(p)}

LEMMA StillKept ==
  ASSUME ListsInv, PlaceInv, StillInv, [Next]_vars
  PROVE  StillInv'
<1>1. changes' \in Nat /\ (changes' = 0 => changes = 0 /\ cluster' = cluster)
  <2>1. changes \in Nat
    BY DEF StillInv
  <2>2. CASE ClusterChanges
    <3>1. changes' = changes + 1
      BY <2>2 DEF ClusterChanges, Bind, End, Replace, Join, Leave, BindVolume, Allocate, PodBecomes, Become
    <3> QED
      BY <2>1, <3>1
  <2>3. CASE CacheFollows
    BY <2>1, <2>3 DEF CacheFollows
  <2>4. CASE UNCHANGED environment
    BY <2>1, <2>4 DEF environment
  <2> QED
    BY <2>2, <2>3, <2>4, StepsOfOthers, StepsOfRun
<1>2. ASSUME changes = 0, cluster' = cluster, Still, ~ClusterChanges
      PROVE  Still'
  <2>1. CASE UNCHANGED <<opts, environment, pc, gathered, perPod, outcome, history>>
    BY <1>2, <2>1 DEF Still, asked, inScope, scope, environment, gathered, perPod, history
  <2>2. CASE CacheFollows
    BY <1>2, <2>2 DEF Still, asked, inScope, scope, CacheFollows, gathered, perPod, history
  <2>3. CASE RunSteps
    <3>1. UNCHANGED <<opts, nodesCache, podsCache>>
      BY <2>3, StepsOfRun DEF environment
    <3>2. \A p : asked(p)' <=> asked(p)
      BY <3>1 DEF asked, inScope, scope
    <3>3. CASE ListPending
      <4>1. /\ UNCHANGED <<torn, truth, results, outcome>> /\ pc' \in {"report", "nodes"}
        BY <3>3 DEF ListPending, perPod, history
      <4>2. Range(pending') = {p \in Range(cluster.pods) : asked(p)}
        BY <3>3, AskedFor
      <4> QED
        BY <1>2, <3>1, <3>2, <4>1, <4>2 DEF Still, Streamed
    <3>4. CASE ListNodes
      BY <1>2, <3>1, <3>2, <3>4 DEF Still, Streamed, ListNodes, perPod, history
    <3>5. CASE StreamPods
      BY <1>2, <3>1, <3>2, <3>5 DEF Still, Streamed, StreamPods, perPod
    <3>6. CASE ListClaims \/ ListSlices \/ ListClasses
      <4>1. UNCHANGED <<nodes, pending, results, outcome, truth>>
        BY <3>6 DEF ListClaims, ListSlices, ListClasses, perPod, history
      <4>4. pc \in Streamed /\ pc' \in Streamed /\ pc # "pending"
        BY <3>6 DEF Streamed, ListClaims, ListSlices, ListClasses
      <4>5. torn' => torn \/ cluster.claims # truth.claims
        BY <3>6 DEF ListClaims, ListSlices, ListClasses, history
      <4>2. truth = cluster /\ nodes = cluster.nodes /\ ~torn
        BY <1>2, <4>4 DEF Still
      <4>3. ~torn' /\ truth' = cluster'
        BY <1>2, <4>1, <4>2, <4>5
      <4> QED
        BY <1>2, <3>1, <3>2, <4>1, <4>2, <4>3, <4>4 DEF Still
    <3>7. CASE PerPod \/ SkipVolume
      <4>1. UNCHANGED <<nodes, pending, outcome, truth>>
        BY <3>7 DEF PerPod, ReadPVC, PVCUnreadable, DiagnosePod, SkipVolume, gathered, history
      <4>4. pc \in Streamed /\ pc # "pending"
        BY <3>7 DEF Streamed, PerPod, ReadPVC, PVCUnreadable, DiagnosePod, SkipVolume, AtVolume
      <4>5. torn' => torn \/ cluster.pvcs # truth.pvcs
        BY <3>7 DEF PerPod, ReadPVC, PVCUnreadable, DiagnosePod, SkipVolume, history
      <4>2. truth = cluster /\ nodes = cluster.nodes /\ ~torn
        BY <1>2, <4>4 DEF Still
      <4>3. ~torn' /\ truth' = cluster'
        BY <1>2, <4>1, <4>2, <4>5
      <4> QED
        BY <1>2, <3>1, <3>2, <4>1, <4>2, <4>3, <4>4 DEF Still
    <3>8. CASE RequiredFails
      <4>1. UNCHANGED <<torn, truth, results>> /\ pc' = "done" /\ outcome' = "error"
        BY <3>8 DEF RequiredFails, CallFails, perPod, history
      <4>2. pc' \notin Streamed \cup {"pods"}
        BY <4>1 DEF Streamed
      <4> QED
        BY <1>2, <3>1, <4>1, <4>2 DEF Still
    <3>9. CASE Report
      <4>1. UNCHANGED <<torn, truth, results, pending>> /\ pc = "report" /\ pc' = "done"
        BY <3>9 DEF Report, gathered, perPod, history
      <4>2. outcome # "error" /\ pc' \notin Streamed \cup {"pods"}
        BY <4>1 DEF PlaceInv, Streamed
      <4> QED
        BY <1>2, <3>1, <3>2, <4>1, <4>2 DEF Still
    <3> QED
      BY <2>3, <3>3, <3>4, <3>5, <3>6, <3>7, <3>8, <3>9 DEF RunSteps, Lists
  <2> QED
    BY <1>2, <2>1, <2>2, <2>3, StepsOfOthers
<1>3. changes' = 0 => ~ClusterChanges
  <2>1. ClusterChanges => changes' = changes + 1
    BY DEF ClusterChanges, Bind, End, Replace, Join, Leave, BindVolume, Allocate, PodBecomes, Become
  <2> QED
    BY <2>1 DEF StillInv
<1>4. changes = 0 => Still
  BY DEF StillInv, Still
<1>5. changes' = 0 => Still'
  BY <1>1, <1>2, <1>3, <1>4
<1> QED
  BY <1>1, <1>5 DEF StillInv, Still

-----------------------------------------------------------------------------
(* What run returns *)

\* Each pod of the list is diagnosed.
LEMMA AllDiagnosed ==
  ASSUME GatheredInv, CountersInv, ResultsInv, pc = "report"
  PROVE  DOMAIN results = DOMAIN pending /\ \A k \in DOMAIN pending : results[k].in.pod = pending[k]
<1>1. Len(pending) \in Nat /\ DOMAIN pending = 1..Len(pending)
  BY Listed DEF GatheredInv, WellFormedPods
<1>2. turn = Len(pending) + 1 /\ Len(results) = turn - 1
  BY DEF CountersInv, ResultsInv
<1>3. DOMAIN results = 1..Len(results)
  BY Listed DEF ResultsInv
<1> QED
  BY <1>1, <1>2, <1>3 DEF ResultsInv

\* While nothing moves no pod is bound.
LEMMA NotBound ==
  ASSUME WellFormedCluster(cluster), truth = cluster, NEW p \in Range(cluster.pods), unscheduled(p)
  PROVE  ~boundMeanwhile(p)
<1>1. Range(cluster.pods) = {cluster.pods[k] : k \in DOMAIN cluster.pods}
  BY Listed DEF WellFormedCluster, WellFormedPods
<1>2. \A q \in Range(cluster.pods) : samePod(p, q) => q = p
  BY <1>1 DEF WellFormedCluster, samePod, idOf
<1> QED
  BY <1>2 DEF boundMeanwhile

waitingPods ==
  {p \in Range(cluster.pods) :
     /\ unscheduled(p) /\ inScope(p) /\ opts.podName \in {"", p.name}
     /\ Obstructed(trueInput(cluster, p))}

OutcomeRight(out) ==
  /\ out = "none" /\ (\A r \in Range(results) : r.unread = {}) => waitingPods = {}
  /\ out = "blockers" => waitingPods # {}

\* What is reported of the diagnoses of the pods as they are is true.
LEMMA ReportTrue ==
  ASSUME RunInv, pc = "report", changes = 0, ~claimsLost
  PROVE  OutcomeRight(IF hasBlockers(results) THEN "blockers" ELSE "none")
<1> USE DEF RunInv, TurnInv
<1>1. /\ WellFormedCluster(cluster) /\ ~torn
      /\ results # <<>> => truth = cluster
      /\ Range(pending) = {p \in Range(cluster.pods) : asked(p)}
  BY DEF StillInv, ListsInv, PlaceInv
<1>2. DOMAIN results = DOMAIN pending /\ \A k \in DOMAIN pending : results[k].in.pod = pending[k]
  BY AllDiagnosed
<1>3. /\ Range(pending) = {pending[k] : k \in DOMAIN pending}
      /\ Range(results) = {results[k] : k \in DOMAIN results}
  BY Listed DEF GatheredInv, WellFormedPods, ResultsInv
<1>4. ASSUME NEW k \in DOMAIN pending
      PROVE  /\ pending[k] \in Range(cluster.pods) /\ asked(pending[k])
             /\ truth = cluster /\ ~boundMeanwhile(pending[k])
  <2>1. pending[k] \in Range(cluster.pods) /\ asked(pending[k])
    BY <1>1, <1>3
  <2>2. truth = cluster
    BY <1>1, <1>2
  <2> QED
    BY <1>1, <2>1, <2>2, NotBound DEF asked
<1>5. CASE hasBlockers(results)
  <2>1. PICK k \in DOMAIN results : results[k].blocked
    BY <1>5 DEF hasBlockers
  <2> DEFINE p == pending[k]
  <2>2. results[k].in.pod = p /\ results[k] \in Range(results) /\ k \in DOMAIN pending
    BY <1>2, <1>3
  <2>3. Obstructed(trueInput(truth, p))
    BY <1>1, <1>4, <2>1, <2>2 DEF NothingInvented
  <2>4. p \in waitingPods
    BY <1>4, <2>2, <2>3 DEF waitingPods, asked
  <2> QED
    BY <1>5, <2>4 DEF OutcomeRight
<1>6. CASE ~hasBlockers(results)
  <2>1. ASSUME \A r \in Range(results) : r.unread = {}, NEW p \in waitingPods
        PROVE  FALSE
    <3>1. p \in Range(cluster.pods) /\ asked(p) /\ Obstructed(trueInput(cluster, p))
      BY <2>1 DEF waitingPods, asked
    <3>2. PICK k \in DOMAIN pending : p = pending[k]
      BY <1>1, <1>3, <3>1
    <3>3. results[k] \in Range(results) /\ results[k].in.pod = p /\ ~results[k].blocked
      BY <1>2, <1>3, <1>6, <3>2 DEF hasBlockers
    <3>4. results[k].unread = {}
      BY <2>1, <3>3
    <3>5. Obstructed(trueInput(truth, p)) /\ ~boundMeanwhile(p)
      BY <1>4, <3>1, <3>2
    <3>6. NotHidden(results[k])
      BY <3>3 DEF NothingHidden, NotHidden, withoutVolumes
    <3> QED
      BY <1>1, <3>3, <3>4, <3>5, <3>6 DEF NotHidden
  <2> QED
    BY <1>6, <2>1 DEF OutcomeRight
<1> QED
  BY <1>5, <1>6

LEMMA OutcomeTrueIff ==
  OutcomeTrue <=> (changes = 0 /\ ~claimsLost => OutcomeRight(outcome))
  BY DEF OutcomeTrue, OutcomeRight, waitingPods

LEMMA OutcomeTrueKept ==
  ASSUME RunInv, [Next]_vars
  PROVE  OutcomeTrue'
<1> USE DEF RunInv, TurnInv
<1>1. CASE outcome' \notin {"none", "blockers"}
  BY <1>1 DEF OutcomeTrue
<1>2. CASE Report /\ outcome' # "error"
  <2>1. /\ pc = "report" /\ outcome' = IF hasBlockers(results) THEN "blockers" ELSE "none"
        /\ UNCHANGED <<opts, cluster, changes, results, claimsLost>>
    BY <1>2 DEF Report, environment, perPod, history
  <2>2. changes = 0 /\ ~claimsLost => OutcomeRight(outcome')
    BY <2>1, ReportTrue
  <2>3. waitingPods' = waitingPods
    BY <2>1 DEF waitingPods, inScope, scope
  <2>4. OutcomeRight(outcome)' <=> OutcomeRight(outcome')
    BY <2>1, <2>3 DEF OutcomeRight
  <2>5. changes' = 0 /\ ~claimsLost' => OutcomeRight(outcome)'
    BY <2>1, <2>2, <2>4
  <2> QED
    BY <2>5 DEF OutcomeTrue, OutcomeRight, waitingPods
<1>3. CASE outcome # ""
  <2>1. pc = "done"
    BY <1>3 DEF PlaceInv
  <2>2. ~RunSteps /\ ~ClusterChanges /\ ~CacheFollows
    BY <2>1 DEF RunSteps, Lists, ListPending, ListNodes, StreamPods, ListClaims, ListSlices, ListClasses,
         RequiredFails, CallFails, PerPod, ReadPVC, PVCUnreadable, DiagnosePod, SkipVolume, Report, AtVolume,
         ClusterChanges, Bind, End, Replace, Join, Leave, BindVolume, Allocate, PodBecomes, Become, CacheFollows
  <2>3. UNCHANGED <<opts, environment, pc, gathered, perPod, outcome, history>>
    BY <2>2, StepsOfOthers
  <2> QED
    BY <2>3 DEF OutcomeTrue, inScope, scope, environment, perPod, history
<1>4. CASE outcome = "" /\ ~Report
  <2>1. outcome' \in {"", "error"}
    BY <1>4, StepsOfOthers, OthersLeaveRun
       DEF RunSteps, Lists, ListPending, ListNodes, StreamPods, ListClaims, ListSlices, ListClasses,
           RequiredFails, CallFails, PerPod, ReadPVC, PVCUnreadable, DiagnosePod, SkipVolume
  <2> QED
    BY <1>1, <2>1
<1> QED
  BY <1>1, <1>2, <1>3, <1>4

-----------------------------------------------------------------------------
(* The invariant, from the first state on *)

LEMMA EmptyList ==
  /\ IsSequence(<<>>) /\ DOMAIN <<>> = {} /\ Len(<<>>) = 0 /\ Range(<<>>) = {}
<1>1. <<>> \in Seq({}) /\ DOMAIN <<>> = {} /\ Len(<<>>) = 0
  OBVIOUS
<1>2. IsSequence(<<>>)
  BY <1>1, IsList
<1>3. Range(<<>>) = {}
  BY <1>1 DEF Range
<1> QED
  BY <1>1, <1>2, <1>3

LEMMA RunInvInit ==
  ASSUME Init
  PROVE  RunInv
<1>1. /\ WellFormedCluster(cluster)
      /\ nodesCache = cluster.nodes /\ podsCache = cluster.pods /\ changes = 0 /\ pc = "pending"
      /\ pending = <<>> /\ nodes = <<>> /\ used = <<>> /\ placed = <<>> /\ dra = NoObjects
      /\ turn = 1 /\ volume = 1 /\ missing = {} /\ unbound = {} /\ unread = {}
      /\ results = <<>> /\ outcome = "" /\ torn = FALSE
  BY ClustersAssumption DEF Init
<1>2. pc \in Before /\ pc \notin Streamed /\ Range(results) = {}
  BY <1>1, EmptyList DEF Before, Streamed
<1>3. ListsInv
  BY <1>1 DEF ListsInv, WellFormedCluster
<1>4. GatheredInv
  <2>1. WellFormedPods(<<>>) /\ WellFormedNodes(<<>>) /\ IsSequence(<<>>)
    BY EmptyList DEF WellFormedPods, WellFormedNodes
  <2>2. "claims" \in DOMAIN dra /\ dra.claims = {} /\ NamesUnique({})
    BY <1>1 DEF NoObjects, NamesUnique
  <2> QED
    BY <1>1, <1>2, <2>1, <2>2 DEF GatheredInv
<1>5. TurnInv
  <2>1. PlaceInv
    BY <1>1, <1>2 DEF PlaceInv
  <2>2. Len(pending) = 0
    BY <1>1, EmptyList
  <2>3. CountersInv
    <3> DEFINE N == Len(pending)
    <3>1. /\ turn \in Nat /\ volume \in Nat /\ 1 <= turn /\ turn <= N + 1 /\ 1 <= volume
      <4>1. N = 0 /\ turn = 1 /\ volume = 1
        BY <1>1, <2>2
      <4> HIDE DEF N
      <4> QED
        BY <4>1
    <3>2. pc \notin (Before \cup Streamed) \ {"pending"} /\ pc # "report"
      BY <1>1 DEF Before, Streamed
    <3> QED
      BY <1>1, <3>1, <3>2 DEF CountersInv
  <2>4. ShownInv
    BY <1>1 DEF ShownInv
  <2> QED
    BY <2>1, <2>3, <2>4 DEF TurnInv
<1>6. ResultsInv
  <2>1. IsSequence(results) /\ DOMAIN results = {} /\ Len(results) = 0
    BY <1>1, EmptyList
  <2>2. turn - 1 = 0
    <3>1. turn = 1
      BY <1>1
    <3> QED
      BY <3>1
  <2> QED
    BY <2>1, <2>2 DEF ResultsInv
<1>7. SnapshotInv /\ ClaimsInv /\ VolumesInv
  BY <1>1, <1>2 DEF SnapshotInv, ClaimsInv, VolumesInv, NoObjects, Streamed
<1>8. NothingInvented /\ NothingHidden /\ EventIsLatest
  BY <1>2 DEF NothingInvented, NothingHidden, EventIsLatest
<1>9. StillInv
  BY <1>1, <1>2 DEF StillInv
<1>10. OutcomeTrue
  BY <1>1 DEF OutcomeTrue
<1> QED
  BY <1>3, <1>4, <1>5, <1>6, <1>7, <1>8, <1>9, <1>10 DEF RunInv

LEMMA RunInvNext ==
  ASSUME RunInv, [Next]_vars
  PROVE  RunInv'
<1>1. ListsInv' /\ GatheredInv'
  BY ListsKept, GatheredKept DEF RunInv
<1>2. TurnInv'
  BY PlaceKept, CountersKept, ShownKept DEF RunInv, TurnInv
<1>3. ResultsInv'
  BY ResultsKept DEF RunInv, TurnInv
<1>4. SnapshotInv' /\ ClaimsInv' /\ VolumesInv'
  BY SnapshotKept, ClaimsKept, VolumesKept DEF RunInv, TurnInv
<1>5. NothingInvented' /\ NothingHidden' /\ EventIsLatest' /\ OutcomeTrue'
  BY NothingInventedKept, NothingHiddenKept, EventIsLatestKept, OutcomeTrueKept
<1>6. StillInv'
  BY StillKept DEF RunInv, TurnInv
<1> QED
  BY <1>1, <1>2, <1>3, <1>4, <1>5, <1>6 DEF RunInv

LEMMA RunInvariant == Spec => []RunInv
<1>1. Init => RunInv
  BY RunInvInit
<1>2. RunInv /\ [Next]_vars => RunInv'
  BY RunInvNext
<1> QED
  BY <1>1, <1>2, PTL DEF Spec

\* main.go:96-148, run: the diagnoses follow the list of pending pods, what is recorded
\* of volumes is about the pod that is diagnosed, and Analyze is given what its own
\* theorems ask for.
THEOREM RunTyped == Spec => []TypeOK
<1>1. ASSUME RunInv
      PROVE  TypeOK
  <2> USE DEF RunInv, TurnInv
  <2>1. missing \cup unbound \cup unread \subseteq
          IF pc = "pod" THEN Range(pod.volumes) \ {""} ELSE {}
    BY <1>1 DEF ShownInv
  <2>2. [k \in DOMAIN results |-> results[k].in.pod] = SubSeq(pending, 1, turn - 1)
    <3>1. turn \in Nat /\ 1 <= turn /\ Len(results) = turn - 1 /\ DOMAIN results = 1..Len(results)
      BY <1>1, Listed DEF CountersInv, ResultsInv
    <3>2. \A k \in 1..(turn - 1) : results[k].in.pod = pending[k]
      BY <1>1, <3>1 DEF ResultsInv
    <3>3. SubSeq(pending, 1, turn - 1) = [k \in 1..(turn - 1) |-> pending[k]]
      BY <3>1
    <3> QED
      BY <3>1, <3>2, <3>3
  <2>3. \A r \in Range(results) : WellFormed(r.in)
    BY <1>1, Listed DEF ResultsInv
  <2>4. outcome \in {"", "none", "blockers", "error"} /\ (outcome # "" <=> pc = "done")
    BY <1>1 DEF PlaceInv
  <2> QED
    BY <2>1, <2>2, <2>3, <2>4 DEF TypeOK
<1> QED
  BY <1>1, RunInvariant, PTL

\* main.go:43, exit code 1, and 113-148: of whatever cluster, and however it changes
\* between the calls, a pod said to be blocked is blocked, if what was read was true
\* at one time.
THEOREM InventsNothing == Spec => []NothingInvented
<1>1. RunInv => NothingInvented
  BY DEF RunInv
<1> QED
  BY <1>1, RunInvariant, PTL

\* main.go:303-369: the errors that are passed over hide nothing but the volumes that
\* could not be read.
THEOREM HidesNothing == Spec => []NothingHidden
<1>1. RunInv => NothingHidden
  BY DEF RunInv
<1> QED
  BY <1>1, RunInvariant, PTL

\* main.go:42-45: while nothing moves and all calls are answered, "none" and "blockers"
\* say of the pods that were asked for what is true of them.
THEOREM TellsTheTruth == Spec => []OutcomeTrue
<1>1. RunInv => OutcomeTrue
  BY DEF RunInv
<1> QED
  BY <1>1, RunInvariant, PTL

\* main.go:339-353, latestSchedulerEvent: the event shown with a pod is the latest of
\* its dated failures to schedule, in lists of any length and order.
THEOREM ShowsLatestEvent == Spec => []EventIsLatest
<1>1. RunInv => EventIsLatest
  BY DEF RunInv
<1> QED
  BY <1>1, RunInvariant, PTL

-----------------------------------------------------------------------------
(* Whose requests are held against it *)

\* The pods of the cluster have their fields and are told apart by their ids.
Identified ==
  /\ {"pods", "nodes", "pvcs", "claims"} \subseteq DOMAIN cluster
  /\ \A k \in DOMAIN cluster.pods : {"ns", "name", "phase", "node"} \subseteq DOMAIN cluster.pods[k]
  /\ \A j, k \in DOMAIN cluster.pods : samePod(cluster.pods[j], cluster.pods[k]) => j = k

LEMMA ClusterIdentified ==
  ASSUME ListsInv
  PROVE  Identified
  BY DEF ListsInv, WellFormedCluster, WellFormedPods, PodFields, Identified, samePod, idOf

\* The cache shows the same pods, and one on a node that has left it only if replaced.
CacheBehind ==
  /\ DOMAIN podsCache = DOMAIN cluster.pods
  /\ \A k \in DOMAIN podsCache :
       /\ samePod(podsCache[k], cluster.pods[k])
       /\ podsCache[k].node # "" /\ cluster.pods[k].node = "" => idOf(cluster.pods[k]) \in replaced

Gathering == {"nodes", "pods"}

\* A pod listed as pending is on no node yet, unless it was bound since.
ListedStands ==
  pc \in Gathering =>
    \A i \in DOMAIN pending : \E k \in DOMAIN cluster.pods :
      /\ samePod(pending[i], cluster.pods[k])
      /\ idOf(pending[i]) \in bound \/ cluster.pods[k].node = ""

NotYetSeen == pc \in Gathering \cup {"pending"} => truth = Nil

PodsInv == CacheBehind /\ ListedStands /\ NotYetSeen /\ CountedOnlyIfMoved

-----------------------------------------------------------------------------
(* What a change of the cluster does to its pods *)

\* The pods of d are those of the cluster, each with its id, and only pod k may
\* have moved.
MovesOnly(d, k) ==
  /\ {"pods", "nodes", "pvcs", "claims"} \subseteq DOMAIN d
  /\ DOMAIN d.pods = DOMAIN cluster.pods
  /\ \A j \in DOMAIN cluster.pods :
       /\ {"ns", "name", "phase", "node"} \subseteq DOMAIN d.pods[j]
       /\ samePod(d.pods[j], cluster.pods[j])
       /\ j # k => d.pods[j].node = cluster.pods[j].node

LEMMA PodMoves ==
  ASSUME Identified, NEW k \in DOMAIN cluster.pods, NEW node, NEW phase, PodBecomes(k, node, phase)
  PROVE  MovesOnly(cluster', k) /\ cluster'.pods[k].node = node
<1> DEFINE moved == [cluster.pods[k] EXCEPT !.node = node, !.phase = phase]
           pods == [cluster.pods EXCEPT ![k] = moved]
<1>1. cluster' = [cluster EXCEPT !.pods[k].node = node, !.pods[k].phase = phase]
  BY DEF PodBecomes, Become
<1>2. {"ns", "name", "phase", "node"} \subseteq DOMAIN cluster.pods[k]
  BY DEF Identified
<1>3. /\ DOMAIN moved = DOMAIN cluster.pods[k]
      /\ moved.node = node /\ moved.ns = cluster.pods[k].ns /\ moved.name = cluster.pods[k].name
  BY <1>2
<1>4. /\ "pods" \in DOMAIN cluster
      /\ DOMAIN cluster' = DOMAIN cluster /\ cluster'.pods = pods
  BY <1>1 DEF Identified
<1>5. DOMAIN pods = DOMAIN cluster.pods /\ pods[k] = moved
      /\ \A j \in DOMAIN cluster.pods : j # k => pods[j] = cluster.pods[j]
  OBVIOUS
<1> HIDE DEF moved, pods
<1>6. samePod(moved, cluster.pods[k])
  BY <1>3 DEF samePod, idOf
<1>7. \A j \in DOMAIN cluster.pods :
        /\ {"ns", "name", "phase", "node"} \subseteq DOMAIN pods[j]
        /\ samePod(pods[j], cluster.pods[j])
        /\ j # k => pods[j].node = cluster.pods[j].node
  <2> TAKE j \in DOMAIN cluster.pods
  <2>1. CASE j = k
    BY <2>1, <1>2, <1>3, <1>5, <1>6
  <2>2. CASE j # k
    BY <2>2, <1>5 DEF Identified, samePod
  <2> QED
    BY <2>1, <2>2
<1> QED
  BY <1>3, <1>4, <1>5, <1>7 DEF MovesOnly, Identified

\* The part of the cluster that the pods are not in.
LEMMA PodsStay ==
  ASSUME Identified, NEW field \in {"nodes", "pvcs", "claims"}, NEW value,
         cluster' = [cluster EXCEPT ![field] = value]
  PROVE  DOMAIN cluster' = DOMAIN cluster /\ cluster'.pods = cluster.pods
  BY DEF Identified

-----------------------------------------------------------------------------
(* How the steps keep the invariant *)

\* One pod moved: it stayed where it was, or left its node as replaced, or went from
\* no node to one and, if it was listed, is recorded as bound.
LEMMA InvMoves ==
  ASSUME Identified, PodsInv, NEW k \in DOMAIN cluster.pods, MovesOnly(cluster', k),
         UNCHANGED <<podsCache, pc, pending, truth, seen>>,
         bound \subseteq bound', replaced \subseteq replaced',
         \/ cluster'.pods[k].node = cluster.pods[k].node
         \/ cluster'.pods[k].node = "" /\ idOf(cluster.pods[k]) \in replaced'
         \/ cluster.pods[k].node = "" /\ (pc \in Gathering => idOf(cluster.pods[k]) \in bound')
  PROVE  PodsInv'
<1>2. /\ DOMAIN cluster'.pods = DOMAIN cluster.pods
      /\ \A j \in DOMAIN cluster.pods :
           /\ idOf(cluster'.pods[j]) = idOf(cluster.pods[j])
           /\ j # k => cluster'.pods[j].node = cluster.pods[j].node
  BY DEF MovesOnly, samePod
<1>3. CacheBehind'
  <2>1. ASSUME NEW j \in DOMAIN cluster.pods
        PROVE  /\ idOf(podsCache[j]) = idOf(cluster'.pods[j])
               /\ podsCache[j].node # "" /\ cluster'.pods[j].node = ""
                    => idOf(cluster'.pods[j]) \in replaced'
    <3>1. /\ idOf(podsCache[j]) = idOf(cluster.pods[j])
          /\ podsCache[j].node # "" /\ cluster.pods[j].node = "" => idOf(cluster.pods[j]) \in replaced
      BY DEF PodsInv, CacheBehind, samePod
    <3>2. CASE j # k
      BY <3>1, <3>2, <1>2
    <3>3. CASE j = k
      BY <3>1, <3>3, <1>2
    <3> QED
      BY <3>2, <3>3
  <2>2. DOMAIN podsCache = DOMAIN cluster'.pods
    BY <1>2 DEF PodsInv, CacheBehind
  <2>3. podsCache' = podsCache
    OBVIOUS
  <2> HIDE DEF idOf
  <2> QED
    BY <1>2, <2>1, <2>2, <2>3 DEF CacheBehind, samePod, idOf
<1>4. ListedStands'
  <2> SUFFICES ASSUME pc \in Gathering, NEW i \in DOMAIN pending
               PROVE  \E j \in DOMAIN cluster'.pods :
                        /\ idOf(pending[i]) = idOf(cluster'.pods[j])
                        /\ idOf(pending[i]) \in bound' \/ cluster'.pods[j].node = ""
    BY DEF ListedStands, samePod, idOf
  <2>1. PICK j \in DOMAIN cluster.pods :
          /\ idOf(pending[i]) = idOf(cluster.pods[j])
          /\ idOf(pending[i]) \in bound \/ cluster.pods[j].node = ""
    BY DEF PodsInv, ListedStands, samePod
  <2>2. idOf(pending[i]) \in bound' \/ cluster'.pods[j].node = ""
    BY <1>2, <2>1
  <2> QED
    BY <1>2, <2>1, <2>2
<1>5. NotYetSeen'
  BY DEF PodsInv, NotYetSeen
<1>6. CountedOnlyIfMoved'
  BY DEF PodsInv, CountedOnlyIfMoved, samePod, idOf
<1> QED
  BY <1>3, <1>4, <1>5, <1>6 DEF PodsInv

\* Nothing that the invariant speaks of changed, but for going on in run.
LEMMA InvGoesOn ==
  ASSUME PodsInv, cluster'.pods = cluster.pods,
         UNCHANGED <<podsCache, bound, replaced, pending, truth, seen>>,
         pc' \in Gathering => pc \in Gathering,
         pc' = "pending" => pc = "pending"
  PROVE  PodsInv'
<1>2. CacheBehind'
  BY DEF PodsInv, CacheBehind, samePod, idOf
<1>3. ListedStands'
  BY DEF PodsInv, ListedStands, samePod, idOf
<1>4. NotYetSeen'
  BY DEF PodsInv, NotYetSeen
<1>5. CountedOnlyIfMoved'
  BY DEF PodsInv, CountedOnlyIfMoved, samePod, idOf
<1> QED
  BY <1>2, <1>3, <1>4, <1>5 DEF PodsInv

\* The cache is as behind as before, or not at all.
LEMMA InvCache ==
  ASSUME PodsInv, CacheFollows
  PROVE  PodsInv'
<1>1. /\ UNCHANGED <<cluster, bound, replaced, pc, pending, truth, seen>>
      /\ podsCache' = podsCache \/ podsCache' = cluster.pods
  BY DEF CacheFollows, gathered, history
<1>2. CacheBehind'
  BY <1>1 DEF PodsInv, CacheBehind, samePod, idOf
<1>3. ListedStands' /\ NotYetSeen' /\ CountedOnlyIfMoved'
  BY <1>1 DEF PodsInv, ListedStands, NotYetSeen, CountedOnlyIfMoved, samePod, idOf
<1> QED
  BY <1>2, <1>3 DEF PodsInv

\* The pods listed are on no node when they are listed.
LEMMA InvListPending ==
  ASSUME ListsInv, PodsInv, ListPending
  PROVE  PodsInv'
<1>1. ASSUME NEW i \in DOMAIN pending'
      PROVE  \E k \in DOMAIN cluster.pods : samePod(pending'[i], cluster.pods[k]) /\ cluster.pods[k].node = ""
  <2>1. pending'[i] \in Range(cluster.pods) /\ unscheduled(pending'[i])
    BY AskedFor DEF Range, asked
  <2> QED
    BY <2>1 DEF Range, samePod, unscheduled
<1>2. /\ UNCHANGED <<cluster, podsCache, bound, replaced, truth, seen>>
      /\ pc = "pending" /\ pc' # "pending"
  BY DEF ListPending, environment, history
<1>3. truth = Nil
  BY <1>2 DEF PodsInv, NotYetSeen
<1>4. ListedStands'
  BY <1>1, <1>2 DEF ListedStands
<1>5. CacheBehind'
  BY <1>2 DEF PodsInv, CacheBehind, samePod, idOf
<1>6. NotYetSeen' /\ CountedOnlyIfMoved'
  BY <1>2, <1>3 DEF NotYetSeen, CountedOnlyIfMoved
<1> QED
  BY <1>4, <1>5, <1>6 DEF PodsInv

\* A pod listed that the stream shows on a node was bound since, or the cache that
\* the stream is served from still shows the pod it replaced.
LEMMA InvStreamPods ==
  ASSUME Identified, PodsInv, StreamPods
  PROVE  PodsInv'
<1>1. /\ UNCHANGED <<cluster, podsCache, bound, replaced, pending>>
      /\ pc = "pods" /\ pc' \notin Gathering \cup {"pending"}
      /\ truth' = cluster /\ seen' = podsCache
  BY DEF StreamPods, environment, Gathering
<1>2. ASSUME NEW i \in DOMAIN pending, NEW j \in DOMAIN podsCache,
             samePod(pending[i], podsCache[j]), podsCache[j].node # ""
      PROVE  \/ idOf(pending[i]) \in bound
             \/ idOf(pending[i]) \in replaced /\ podsCache # cluster.pods
  <2>1. PICK k \in DOMAIN cluster.pods :
          /\ samePod(pending[i], cluster.pods[k])
          /\ idOf(pending[i]) \in bound \/ cluster.pods[k].node = ""
    BY <1>1 DEF PodsInv, ListedStands, Gathering
  <2>2. j \in DOMAIN cluster.pods /\ samePod(podsCache[j], cluster.pods[j])
    BY DEF PodsInv, CacheBehind
  <2>3. j = k
    BY <1>2, <2>1, <2>2 DEF Identified, samePod
  <2>4. CASE cluster.pods[j].node = ""
    BY <1>2, <2>2, <2>4 DEF PodsInv, CacheBehind, samePod
  <2> QED
    BY <2>1, <2>3, <2>4
<1>3. CountedOnlyIfMoved'
  BY <1>1, <1>2 DEF CountedOnlyIfMoved, samePod, idOf
<1>4. CacheBehind'
  BY <1>1 DEF PodsInv, CacheBehind, samePod, idOf
<1>5. ListedStands' /\ NotYetSeen'
  BY <1>1 DEF ListedStands, NotYetSeen
<1> QED
  BY <1>3, <1>4, <1>5 DEF PodsInv

LEMMA InvClusterChanges ==
  ASSUME Identified, PodsInv, ClusterChanges
  PROVE  PodsInv'
<1>1. ASSUME NEW k \in DOMAIN cluster.pods, Bind(k)
      PROVE  PodsInv'
  <2>1. PICK n \in Range(cluster.nodes) : PodBecomes(k, n.name, "Pending")
    BY <1>1 DEF Bind
  <2>2. MovesOnly(cluster', k)
    BY <2>1, PodMoves
  <2>3. UNCHANGED <<podsCache, pc, pending, truth, seen>>
    BY <2>1 DEF PodBecomes, Become, gathered, history
  <2>4. /\ cluster.pods[k].node = "" /\ bound \subseteq bound' /\ replaced' = replaced
        /\ pc \in Gathering => idOf(cluster.pods[k]) \in bound'
    BY <1>1 DEF Bind, unscheduled, Gathering
  <2> QED
    BY <2>2, <2>3, <2>4, InvMoves
<1>2. ASSUME NEW k \in DOMAIN cluster.pods, End(k)
      PROVE  PodsInv'
  <2>1. PodBecomes(k, cluster.pods[k].node, "Succeeded") /\ UNCHANGED <<bound, replaced>>
    BY <1>2 DEF End
  <2>2. MovesOnly(cluster', k) /\ cluster'.pods[k].node = cluster.pods[k].node
    BY <2>1, PodMoves
  <2>3. UNCHANGED <<podsCache, pc, pending, truth, seen>>
    BY <2>1 DEF PodBecomes, Become, gathered, history
  <2> QED
    BY <2>1, <2>2, <2>3, InvMoves
<1>3. ASSUME NEW k \in DOMAIN cluster.pods, Replace(k)
      PROVE  PodsInv'
  <2>1. /\ PodBecomes(k, "", "Pending") /\ UNCHANGED bound
        /\ replaced' = replaced \cup {idOf(cluster.pods[k])}
    BY <1>3 DEF Replace
  <2>2. MovesOnly(cluster', k) /\ cluster'.pods[k].node = ""
    BY <2>1, PodMoves
  <2>3. UNCHANGED <<podsCache, pc, pending, truth, seen>>
    BY <2>1 DEF PodBecomes, Become, gathered, history
  <2> QED
    BY <2>1, <2>2, <2>3, InvMoves
<1>4. ASSUME NEW field \in {"nodes", "pvcs", "claims"}, NEW value,
             Become([cluster EXCEPT ![field] = value]), UNCHANGED <<bound, replaced>>
      PROVE  PodsInv'
  <2>1. DOMAIN cluster' = DOMAIN cluster /\ cluster'.pods = cluster.pods
    BY <1>4, PodsStay DEF Become
  <2> QED
    BY <1>4, <2>1, InvGoesOn DEF Become, gathered, history
<1>5. ASSUME Join
      PROVE  PodsInv'
  BY <1>5, <1>4 DEF Join
<1>6. ASSUME NEW k \in DOMAIN cluster.nodes, Leave(k)
      PROVE  PodsInv'
  BY <1>6, <1>4 DEF Leave
<1>7. ASSUME NEW id \in DOMAIN cluster.pvcs, BindVolume(id)
      PROVE  PodsInv'
  BY <1>7, <1>4 DEF BindVolume
<1>8. ASSUME NEW claim \in cluster.claims, Allocate(claim)
      PROVE  PodsInv'
  BY <1>8, <1>4 DEF Allocate
<1> QED
  BY <1>1, <1>2, <1>3, <1>5, <1>6, <1>7, <1>8 DEF ClusterChanges

LEMMA InvNext ==
  ASSUME ListsInv, PodsInv, [Next]_vars
  PROVE  PodsInv'
<1>1. CASE ListPending
  BY <1>1, InvListPending
<1>2. CASE StreamPods
  BY <1>2, InvStreamPods, ClusterIdentified
<1>3. CASE ListNodes \/ ListClaims \/ ListSlices \/ ListClasses
  BY <1>3, InvGoesOn DEF ListNodes, ListClaims, ListSlices, ListClasses, environment, history, Gathering
<1>4. CASE RequiredFails
  BY <1>4, InvGoesOn DEF RequiredFails, CallFails, environment, gathered, history, Gathering
<1>5. CASE PerPod
  BY <1>5, InvGoesOn DEF PerPod, ReadPVC, PVCUnreadable, DiagnosePod, AtVolume, environment, gathered, history, Gathering
<1>6. CASE SkipVolume \/ Report
  BY <1>6, InvGoesOn DEF SkipVolume, Report, AtVolume, environment, gathered, history, Gathering
<1>7. CASE Deadline
  BY <1>7, InvGoesOn DEF Deadline, environment, gathered, history, Gathering
<1>8. CASE ClusterChanges
  BY <1>8, InvClusterChanges, ClusterIdentified
<1>9. CASE CacheFollows
  BY <1>9, InvCache
<1>10. CASE UNCHANGED vars
  BY <1>10, InvGoesOn DEF vars, environment, gathered, history, Gathering
<1> QED
  BY <1>1, <1>2, <1>3, <1>4, <1>5, <1>6, <1>7, <1>8, <1>9, <1>10 DEF Next, Lists, Done

LEMMA InvInit ==
  ASSUME Init
  PROVE  PodsInv
<1>1. podsCache = cluster.pods /\ pc = "pending" /\ truth = Nil
  BY DEF Init
<1>2. CacheBehind
  BY <1>1 DEF CacheBehind, samePod
<1>3. ListedStands /\ NotYetSeen /\ CountedOnlyIfMoved
  BY <1>1 DEF ListedStands, NotYetSeen, CountedOnlyIfMoved, Gathering
<1> QED
  BY <1>2, <1>3 DEF PodsInv

\* main.go:113-232: however the cluster changes between the calls and however far
\* its cache is behind, the stream shows a listed pod on a node only if it was bound
\* after it was listed or replaced a pod that the cache still shows.
THEOREM CountsOnlyMoved == Spec => []CountedOnlyIfMoved
<1>1. Init => PodsInv
  BY InvInit
<1>2. RunInv /\ PodsInv /\ [Next]_vars => PodsInv'
  BY InvNext DEF RunInv
<1>3. PodsInv => CountedOnlyIfMoved
  BY DEF PodsInv
<1> QED
  BY <1>1, <1>2, <1>3, RunInvariant, PTL DEF Spec
=============================================================================
