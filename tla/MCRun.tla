------------------------------- MODULE MCRun --------------------------------
(***************************************************************************)
(* Runs on small clusters, each made for one of the things that a run      *)
(* reads: room on nodes, volumes, DRA objects, other pods, events.         *)
(***************************************************************************)
EXTENDS Run, MCInputs

CONSTANT MaxEvents     \* the length of the lists of events

MCExtNames == <<>>
MCNumerals == {}
MCParseInt == [n \in {} |-> 0]

-----------------------------------------------------------------------------
(* Building blocks *)

None == [cpu |-> 0, mem |-> 0]

Host(name, cpu) ==
  [Node(Ready, FALSE, {}, [host |-> name], [cpu |-> cpu, mem |-> 4], None) EXCEPT !.name = name]

Pod(name, ns, phase, node) ==
  [name |-> name, phase |-> phase, node |-> node, volumes |-> <<>>]
    @@ [PlainPod EXCEPT !.ns = ns, !.labels = [app |-> "web"]]

Waiting(name) == Pod(name, "default", "Pending", "")
Running(name, node) == Pod(name, "default", "Running", node)

Event(name, reason, last, message) ==
  [ns |-> "default", kind |-> "Pod", name |-> name, reason |-> reason, last |-> last, message |-> message]

Cluster(pods, hosts) ==
  [pods |-> pods, nodes |-> hosts, events |-> <<>>, pvcs |-> [id \in {} |-> ""],
   claims |-> {}, devices |-> 0, classes |-> {}]

Requested(name, ns, all, structured) ==
  [podName |-> name, ns |-> ns, all |-> all, structured |-> structured]

-----------------------------------------------------------------------------
(* Room: pods that are bound, end or are replaced, on a node with just enough *)

RoomClusters ==
  {Cluster(<<Waiting("web"), Running("db", "h1")>>, <<Host("h1", cpu)>>) : cpu \in {1, 2}}
  \cup {Cluster(<<Waiting("web"), Pod("db", "default", "Pending", "h1"),
                  Pod("web", "other", "Pending", "")>>, <<Host("h1", 2)>>)}

(* Volumes: each claim is there or not, bound or not; the second pod has none *)

WithVolumes == [Waiting("web") EXCEPT !.volumes = <<"data", "", "logs">>]

VolumeClusters ==
  {[Cluster(<<WithVolumes, Waiting("db")>>, <<Host("h1", 1)>>) EXCEPT !.pvcs = pvcs] :
     pvcs \in {<<"default", "data">> :> data @@ <<"default", "logs">> :> "Bound" :
                 data \in {"Bound", "Pending"}}
              \cup {<<"default", "logs">> :> "Bound"}}

(* Resource claims: only the second pod uses one *)

WithClaim ==
  [Waiting("gpu") EXCEPT !.resourceClaims = <<[name |-> "device", claim |-> "c1"]>>]

ClaimClusters ==
  {[Cluster(<<Waiting("web"), WithClaim>>, <<Host("h1", 1)>>)
      EXCEPT !.claims = {[ns |-> "default", name |-> "c1", allocated |-> allocated, classes |-> {"gpu"}]},
             !.devices = 1, !.classes = {"gpu"}] : allocated \in BOOLEAN}

(* Company: a replica keeps away from its own kind *)

Apart ==
  [Waiting("web") EXCEPT !.antiAffinity =
     <<[key |-> "host", namespaces |-> {},
        selector |-> [matchLabels |-> [app |-> "web"], matchExpressions |-> <<>>]]>>]

CompanyClusters == {Cluster(<<Apart, Running("db", "h1")>>, <<Host("h1", 4)>>)}

(* Events: dated or not, in any order, of this pod and of others *)

SomeEvents ==
  {Event("web", "FailedScheduling", 0, "undated"), Event("web", "FailedScheduling", 1, "early"),
   Event("web", "FailedScheduling", 2, "late"), Event("web", "Scheduled", 3, "scheduled"),
   Event("db", "FailedScheduling", 3, "other")}

EventClusters ==
  {[Cluster(<<Waiting("web")>>, <<Host("h1", 1)>>) EXCEPT !.events = events] :
     events \in SeqsUpTo(SomeEvents, MaxEvents)}

-----------------------------------------------------------------------------
AllClusters ==
  RoomClusters \cup VolumeClusters \cup ClaimClusters \cup CompanyClusters \cup EventClusters

\* As in MCNodes, the names that a cfg substitutes.
MCClusters == AllClusters
MCSpare == {Host("h2", 1)}

MCRequests ==
  {Requested("", "default", FALSE, FALSE), Requested("", "default", TRUE, TRUE),
   Requested("web", "default", FALSE, FALSE), Requested("web", "default", TRUE, FALSE)}
=============================================================================
