------------------------------ MODULE Analyze -------------------------------
(***************************************************************************)
(* pkg/diagnose/analyze.go: Analyze explains why one pod cannot be placed. *)
(* It is one sequential pass, and its order is what this module keeps:     *)
(*                                                                         *)
(*   pvcs -> nodes* -> filters -> capacity -> extended* -> spread*         *)
(*        -> affinity* -> antiAffinity* -> claims* -> conclude -> done     *)
(*                                                                         *)
(* where * is a loop over the sequence that i indexes.  Later stages read  *)
(* only what the node loop accumulated, so a wrong tally there surfaces as *)
(* a wrong cause, severity or exit code several stages later.              *)
(***************************************************************************)
EXTENDS Obstacles

VARIABLES
  in,         \* the Input
  pc,         \* the stage of the pass
  i,          \* index of the loop of that stage
  verdicts,   \* res.Nodes
  counts,     \* rejected nodes per filter, eligible nodes per lacking kind
  taintSet,   \* untolerated taints met
  eligible,   \* eligibleViews
  fit,        \* eligible nodes that also have room
  maxAlloc,   \* per basic kind: the biggest single node, if it were empty
  maxFree,    \* per basic kind: the largest free amount on one eligible node
  sumFree,    \* per basic kind: total free over the eligible nodes
  causes      \* res.Causes

tally == <<verdicts, counts, taintSet, eligible, fit, maxAlloc, maxFree, sumFree>>
vars  == <<in, pc, i, tally, causes>>

Request == PodRequests(in.pod)

severityIf(cond, a, b) == IF cond THEN a ELSE b

HasBlocker(list) == \E k \in DOMAIN list : list[k].severity = Blocker

-----------------------------------------------------------------------------
(* The node loop: every node is classified by the first filter it fails. *)

\* A NodeVerdict: about holds the untolerated taint keys or the lacking kinds.
NodeVerdict(node, schedulable, reason, about) ==
  [name |-> node.name, schedulable |-> schedulable, reason |-> reason, about |-> about]

Init ==
  /\ in \in Inputs
  /\ pc = "pvcs" /\ i = 1
  /\ verdicts = <<>> /\ eligible = <<>> /\ causes = <<>>
  /\ counts = [r \in Range(Filters) \cup Basic |-> 0]
  /\ taintSet = {} /\ fit = 0
  /\ maxAlloc = [kind \in Basic |-> 0]
  /\ maxFree = [kind \in Basic |-> 0]
  /\ sumFree = [kind \in Basic |-> 0]

ReportPVCs ==
  /\ pc = "pvcs"
  /\ causes' = causes
       \o CauseIf(in.missingPVCs # {}, Cause(Blocker, "PVCNotFound", "", 0))
       \o CauseIf(in.unboundPVCs # {}, Cause(Blocker, "PVCUnbound", "", 0))
  /\ pc' = "nodes"
  /\ UNCHANGED <<in, i, tally>>

RejectNode ==
  /\ pc = "nodes" /\ i <= Len(in.nodes)
  /\ \E f \in DOMAIN Filters :
       LET node == in.nodes[i]
           bad  == IF Filters[f] = "taint" THEN UntoleratedTaints(in.pod, node) ELSE {}
       IN  /\ Fails(Filters[f], in.pod, node)
           /\ \A g \in 1..(f - 1) : ~Fails(Filters[g], in.pod, node)
           /\ counts' = [counts EXCEPT ![Filters[f]] = @ + 1]
           /\ taintSet' = taintSet \cup bad
           /\ verdicts' = Append(verdicts,
                NodeVerdict(node, FALSE, Filters[f], {taint.key : taint \in bad}))
  /\ i' = i + 1
  /\ UNCHANGED <<in, pc, eligible, fit, maxAlloc, maxFree, sumFree, causes>>

\* Mutant: a node with exactly enough free is taken to lack it.
lacksAtLimit(nv) == {kind \in Basic : Free(nv, kind) <= Request[kind]}

lacks(nv) == {kind \in Basic : Free(nv, kind) < Request[kind]}

\* Mutant: an overcommitted node is subtracted from the total of the others.
freeForTotalUnguarded(nv, kind) == Free(nv, kind)

freeForTotal(nv, kind) == IF Free(nv, kind) > 0 THEN Free(nv, kind) ELSE 0

AdmitNode ==
  /\ pc = "nodes" /\ i <= Len(in.nodes)
  /\ LET nv   == in.nodes[i]
         lack == lacks(nv)
     IN  /\ Passes(in.pod, nv)
         /\ eligible' = Append(eligible, nv)
         /\ maxAlloc' = [kind \in Basic |-> Larger(Allocatable(nv)[kind], maxAlloc[kind])]
         /\ maxFree' = [kind \in Basic |-> Larger(Free(nv, kind), maxFree[kind])]
         /\ sumFree' = [kind \in Basic |-> sumFree[kind] + freeForTotal(nv, kind)]
         /\ fit' = IF lack = {} THEN fit + 1 ELSE fit
         /\ counts' = [r \in DOMAIN counts |-> IF r \in lack THEN counts[r] + 1 ELSE counts[r]]
         /\ verdicts' = Append(verdicts,
              NodeVerdict(nv, lack = {}, IF lack = {} THEN "fits" ELSE "insufficient", lack))
  /\ i' = i + 1
  /\ UNCHANGED <<in, pc, taintSet, causes>>

\* The results of a stable sort on severity alone: there is exactly one.
sortCauses(list) ==
  {[k \in DOMAIN list |-> list[p[k]]] :
     p \in {p \in Bijection(DOMAIN list, DOMAIN list) :
              \A j, k \in DOMAIN list :
                j < k => \/ list[p[j]].severity < list[p[k]].severity
                         \/ list[p[j]].severity = list[p[k]].severity /\ p[j] < p[k]}}

\* An empty cluster ends the analysis here; the later stages do not run.
FinishNodes ==
  /\ pc = "nodes" /\ i > Len(in.nodes)
  /\ IF in.nodes = <<>>
     THEN /\ causes' \in sortCauses(Append(causes, Cause(Blocker, "NoNodes", "", 0)))
          /\ pc' = "done"
     ELSE pc' = "filters" /\ UNCHANGED causes
  /\ i' = 1
  /\ UNCHANGED <<in, tally>>

-----------------------------------------------------------------------------
(* The stages that read the tally *)

\* Mutant: one rejected node is not worth a cause.
filterCauseOfSeveral(filter, cond, severity) ==
  CauseIf(cond /\ counts[filter] > 1, Cause(severity, filter, "", counts[filter]))

filterCause(filter, cond, severity) ==
  CauseIf(cond, Cause(severity, filter, "", counts[filter]))

\* Mutant: one eligible node is taken for none.
hardSeverityOfFew == severityIf(Len(eligible) <= 1, Blocker, Warning)

hardSeverity == severityIf(eligible = <<>>, Blocker, Warning)

\* Mutant: cordons are context whatever else was found.
cordonSeverityInfo == Info

\* Cordons are to blame only if no node is left and no taint explains it.
cordonSeverity == severityIf(eligible = <<>> /\ taintSet = {}, Blocker, Info)

ReportFilters ==
  /\ pc = "filters"
  /\ causes' = causes
       \o filterCause("notready", counts["notready"] > 0, hardSeverity)
       \o filterCause("taint", taintSet # {}, hardSeverity)
       \o filterCause("selector", counts["selector"] > 0, hardSeverity)
       \o filterCause("affinity", counts["affinity"] > 0, hardSeverity)
       \o filterCause("cordoned", counts["cordoned"] > 0, cordonSeverity)
  /\ pc' = "capacity"
  /\ UNCHANGED <<in, i, tally>>

within(bound) == \A kind \in Basic : Request[kind] <= bound[kind]

\* Mutant: what is free on one node is taken for its size.
capacityTitleByFree ==
  IF ~within(maxFree) THEN "LargerThanAnyNode"
  ELSE IF within(sumFree) THEN "Fragmentation"
  ELSE "InsufficientFree"

capacityTitle ==
  IF ~within(maxAlloc) THEN "LargerThanAnyNode"
  ELSE IF within(sumFree) /\ ~within(maxFree) THEN "Fragmentation"
  ELSE "InsufficientFree"

\* Mutant: the capacity cause replaces what was found before.
AnalyzeCapacityAlone ==
  /\ pc = "capacity"
  /\ causes' = CauseIf(eligible # <<>> /\ fit = 0,
                       Cause(Blocker, capacityTitle, "", Len(eligible)))
  /\ pc' = "extended"
  /\ UNCHANGED <<in, i, tally>>

AnalyzeCapacity ==
  /\ pc = "capacity"
  /\ causes' = causes \o CauseIf(eligible # <<>> /\ fit = 0,
                                 Cause(Blocker, capacityTitle, "", Len(eligible)))
  /\ pc' = "extended"
  /\ UNCHANGED <<in, i, tally>>

\* One turn of the loop over items in a stage, or the step to the next stage.
CheckItems(stage, items, next, causesOf(_)) ==
  /\ pc = stage
  /\ \/ /\ i <= Len(items)
        /\ causes' = causes \o causesOf(items[i])
        /\ i' = i + 1
        /\ UNCHANGED pc
     \/ /\ i > Len(items)
        /\ i' = 1 /\ pc' = next
        /\ UNCHANGED causes
  /\ UNCHANGED <<in, tally>>

CheckExtended ==
  CheckItems("extended", ExtNames, "spread",
    LAMBDA name : AnalyzeExtendedResources(name, in.pod, eligible, in.chain))

CheckSpread ==
  CheckItems("spread", in.pod.spread, "affinity",
    LAMBDA c : AnalyzeTopologySpread(c, in.pod, in.nodes, eligible, in.placed))

CheckAffinity ==
  CheckItems("affinity", in.pod.affinity, "antiAffinity",
    LAMBDA t : affinityCauses(t, in.pod, eligible, in.placed))

CheckAntiAffinity ==
  CheckItems("antiAffinity", in.pod.antiAffinity, "claims",
    LAMBDA t : antiAffinityCauses(t, in.pod, eligible, in.placed))

CheckClaims ==
  CheckItems("claims", in.pod.resourceClaims, "conclude",
    LAMBDA prc : AnalyzeDRA(prc, in.pod, in.dra))

\* Mutant: that some node fits is told in every diagnosis.
conclusionAlways ==
  IF fit > 0 THEN Append(causes, Cause(Info, "LooksLikeItFits", "", fit)) ELSE causes

\* An empty diagnosis becomes a cause that says so.
conclusion ==
  IF causes # <<>> THEN causes
  ELSE IF fit > 0 THEN <<Cause(Info, "LooksLikeItFits", "", fit)>>
  ELSE <<Cause(Info, "Undetermined", "", 0)>>

Conclude ==
  /\ pc = "conclude"
  /\ causes' \in sortCauses(conclusion)
  /\ pc' = "done"
  /\ UNCHANGED <<in, i, tally>>

Done == pc = "done" /\ UNCHANGED vars

Next ==
  \/ ReportPVCs \/ RejectNode \/ AdmitNode \/ FinishNodes
  \/ ReportFilters \/ AnalyzeCapacity
  \/ CheckExtended \/ CheckSpread \/ CheckAffinity \/ CheckAntiAffinity
  \/ CheckClaims \/ Conclude
  \/ Done

\* Analyze is one function call: it runs to its return.
Spec == Init /\ [][Next]_vars /\ WF_vars(Next)

-----------------------------------------------------------------------------
(* Type invariant *)

Stages == {"pvcs", "nodes", "filters", "capacity", "extended", "spread",
           "affinity", "antiAffinity", "claims", "conclude", "done"}

Reasons == Range(Filters) \cup {"fits", "insufficient"}

\* Every variable has its type: Analyze never leaves a tally below zero, a node
\* without one of the known reasons or a cause without one of the severities.
TypeOK ==
  /\ in \in Inputs
  /\ pc \in Stages
  /\ i \in Nat \ {0}
  /\ IsSequence(verdicts)
  /\ \A v \in Range(verdicts) : v.schedulable \in BOOLEAN /\ v.reason \in Reasons
  /\ counts \in [Range(Filters) \cup Basic -> Nat]
  /\ eligible \in Seq(Range(in.nodes))
  /\ fit \in Nat
  /\ maxAlloc \in [Basic -> Nat] /\ maxFree \in [Basic -> Nat] /\ sumFree \in [Basic -> Nat]
  /\ IsSequence(causes)
  /\ \A c \in Range(causes) : c.severity \in {Blocker, Warning, Info}

-----------------------------------------------------------------------------
(* Safety *)

titles == {causes[k].title : k \in DOMAIN causes}

\* analyze.go:360-362: "every fit==0 path above should already have recorded a
\* cause", so the defensive fallback is never taken.
NeverUndetermined == "Undetermined" \notin titles

\* The stages agree with each other: no diagnosis is empty, and one that finds
\* the pod should fit says nothing else.
NeverEmptyNorContradictory ==
  pc = "done" => /\ causes # <<>>
                 /\ "LooksLikeItFits" \in titles => Len(causes) = 1 /\ fit > 0

\* When no node can take the pod the CLI must exit with 1, whatever mixture of
\* cordoned, NotReady, tainted, mismatching and full nodes is to blame: the
\* downgrades to Warning and Info may not leave the diagnosis without a Blocker.
NoRoomIsBlocked ==
  pc = "done" /\ NodesObstruct(in) => HasBlocker(causes)

reported(family) == Cardinality({k \in DOMAIN causes : causes[k].title \in family})

countOf(items, Obstructs(_)) == Cardinality({k \in DOMAIN items : Obstructs(items[k])})

\* Every obstacle of the later stages is reported by one cause of its kind, none
\* is reported twice and none is invented: per extended resource, constraint,
\* term and claim entry.  (An empty cluster is reported alone.)
CausesMatchObstacles ==
  pc = "done" /\ in.nodes # <<>> =>
    /\ reported({"NoEligibleProvider", "GPUStackBroken", "NoGPUPlugin", "NoProvider",
                 "InsufficientExtended"})
         = countOf(ExtNames, LAMBDA name : ExtendedObstructs(in, name))
    /\ reported({"NoTopologyKey", "SpreadUnsatisfied"})
         = countOf(in.pod.spread, LAMBDA c : SpreadObstructs(in, c))
    /\ reported({"AffinityUnsatisfied"})
         = countOf(in.pod.affinity, LAMBDA t : AffinityObstructs(in, t))
    /\ reported({"AntiAffinityUnsatisfied"})
         = countOf(in.pod.antiAffinity, LAMBDA t : AntiAffinityObstructs(in, t))
    /\ reported({"ClaimNotCreated", "ClaimNotFound", "ClaimClassMissing", "ClaimUnallocated",
                 "ClaimNoDevices", "ClaimDevicesBusy"})
         = countOf(in.pod.resourceClaims, LAMBDA prc : ClaimObstructs(in, prc))

\* What the candidates among the first n nodes have free together, for each n.
freeUpTo(kind) ==
  LET spare(n) == IF Passes(in.pod, in.nodes[n]) THEN Larger(Free(in.nodes[n], kind), 0) ELSE 0
      total[n \in 0..Len(in.nodes)] == IF n = 0 THEN 0 ELSE total[n - 1] + spare(n)
  IN  total

freeInTotal(kind) == freeUpTo(kind)[Len(in.nodes)]

\* The capacity causes say what is true of the cluster: a pod called larger than
\* any node would fit none of the candidates even if they were empty; where
\* fragmentation is reported the candidates together have what the pod asks for.
CapacityTruthful ==
  /\ "LargerThanAnyNode" \in titles =>
       \A nv \in Candidates(in) : \E kind \in Basic : Request[kind] > Allocatable(nv)[kind]
  /\ "Fragmentation" \in titles =>
       /\ \A kind \in Basic : Request[kind] <= freeInTotal(kind)
       /\ NodesObstruct(in)

\* A GPU cause names the broken component only if a component is broken, and a
\* "not advertised" cause is given only if no candidate advertises the resource.
ExtendedTruthful ==
  \A k \in DOMAIN causes :
    LET c == causes[k]
    IN  /\ c.title = "GPUStackBroken" => in.chain # Nil /\ in.chain.firstBroken # Nil
        /\ c.title \in {"NoEligibleProvider", "GPUStackBroken", "NoGPUPlugin", "NoProvider"} =>
             /\ \A nv \in Candidates(in) : Allocatable(nv)[c.subject] = 0
             /\ c.n = Request[c.subject]

\* What a constraint looks at once the pod is placed on nv.
placedOn(nv) ==
  [nodes  |-> in.nodes,
   placed |-> Append(in.placed, [ns |-> in.pod.ns, node |-> nv.name, labels |-> in.pod.labels])]

weightIn(input, c, d) ==
  Cardinality(selectedIn(input, Range(input.nodes), c.key, d, {in.pod.ns}, c.selector))

\* Placing the pod on nv really pushes the skew of the constraint above maxSkew.
breaksSkew(c, nv) ==
  \E other \in Range(in.nodes) :
    /\ c.key \in DOMAIN other.labels
    /\ weightIn(placedOn(nv), c, nv.labels[c.key]) - weightIn(in, c, other.labels[c.key]) > c.maxSkew

noPlacementLeft(c) == \A nv \in Candidates(in) : c.key \in DOMAIN nv.labels => breaksSkew(c, nv)

\* A cause carries the key and the skew of its constraint, which two constraints may share.
blames(cause, c) ==
  /\ cause.subject = c.key /\ cause.n = c.maxSkew
  /\ c.whenUnsatisfiable = "DoNotSchedule"

\* A spread cause is the truth about every placement that is left: after placing
\* the pod on any candidate the domain of that candidate would be above maxSkew,
\* by a constraint that the cause names, if that constraint selects the pod.
SpreadBlockerReal ==
  \A cause \in Range(causes) : cause.title = "SpreadUnsatisfied" =>
    \E c \in Range(in.pod.spread) :
      /\ blames(cause, c)
      /\ LabelSelectorMatches(c.selector, in.pod.labels) => noPlacementLeft(c)

-----------------------------------------------------------------------------
(* What the documentation says and the code does not keep (see README.md) *)

\* README.md:64: insufficient free capacity means "not enough room now, even in
\* aggregate", so some kind is short even in total.
InsufficientIsReal ==
  "InsufficientFree" \in titles => \E kind \in Basic : Request[kind] > freeInTotal(kind)

\* topology.go:124: infeasible means that "once we add the pod" the skew is above
\* maxSkew, also for a pod that its constraint does not select.
SpreadBlockerRealForAnyPod ==
  \A cause \in Range(causes) : cause.title = "SpreadUnsatisfied" =>
    \E c \in Range(in.pod.spread) : blames(cause, c) /\ noPlacementLeft(c)

\* topology.go:193: "no eligible domain currently contains such a pod" is said
\* only when that is so, whichever node of the domain the pod is on.
AffinityBlockerReal ==
  \A t \in Range(in.pod.affinity) :
    (\E k \in DOMAIN causes : causes[k].title = "AffinityUnsatisfied" /\ causes[k].subject = t.key)
      => ~ \E nv \in carrying(in, t) : metBy(in, t, nv, Range(in.nodes))

-----------------------------------------------------------------------------
(* Action property *)

\* Analyze only ever adds to its findings, and reorders them once, at its return;
\* a verdict once given to a node is never revised.
FindingsKept ==
  [][/\ IsPrefix(verdicts, verdicts')
     /\ pc' # "done" => IsPrefix(causes, causes')
     /\ \A k \in DOMAIN causes : causes[k] \in Range(causes')]_vars

-----------------------------------------------------------------------------
(* What the diagnosis promises, and that this module keeps the promise *)

\* One reason per node, a function of the pod and that node alone; blocked (exit
\* code 1) exactly when the Input holds an obstacle.
Promise == INSTANCE Diagnosis WITH
  ReasonsOf <- LAMBDA input : [k \in DOMAIN input.nodes |-> ReasonFor(input.pod, input.nodes[k])],
  BlockedBy <- Obstructed,
  answered <- pc = "done",
  reasons <- IF pc = "done" THEN [k \in DOMAIN verdicts |-> verdicts[k].reason] ELSE <<>>,
  blocked <- pc = "done" /\ HasBlocker(causes)

\* The whole pass looks like one step from the Input to the promised answer.
KeepsPromise == Promise!Spec
=============================================================================
