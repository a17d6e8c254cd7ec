----------------------------- MODULE Obstacles ------------------------------
(***************************************************************************)
(* What an Input says, stated on its sets: which nodes pass the filters,   *)
(* which of them have room, and what obstructs the pod.  Nothing here is   *)
(* about the order in which nodes are listed, stages run or tallies grow;  *)
(* the diagnosis that module Analyze computes step by step is compared     *)
(* with it.                                                                *)
(***************************************************************************)
EXTENDS Extended, DRA

CONSTANT Inputs       \* the Input values Analyze is called with

IsSequence(s) == s \in Seq(Range(s))

\* Lists are lists, amounts are not negative, a claim's name is unique in its namespace.
WellFormedPod(pod) ==
  /\ IsSequence(pod.spread) /\ IsSequence(pod.affinity)
  /\ IsSequence(pod.antiAffinity) /\ IsSequence(pod.resourceClaims)
  /\ PodRequests(pod) \in [Kinds -> Nat]
  /\ \A c \in Range(pod.spread) : c.maxSkew \in Int

NamesUnique(claims) == \A a, b \in claims : a.ns = b.ns /\ a.name = b.name => a = b

WellFormed(in) ==
  /\ WellFormedPod(in.pod)
  /\ IsSequence(in.nodes) /\ IsSequence(in.placed)
  /\ \A nv \in Range(in.nodes) : /\ Allocatable(nv) \in [Kinds -> Nat]
                                /\ nv.used \in [Kinds -> Nat]
  /\ NamesUnique(in.dra.claims)

ASSUME InputsAssumption == \A in \in Inputs : WellFormed(in)

Candidates(in) == {nv \in Range(in.nodes) : Passes(in.pod, nv)}

\* The node has at least need of this kind to spare.
Spares(nv, kind, need) == need + nv.used[kind] <= Allocatable(nv)[kind]

HasRoom(pod, nv) == \A kind \in Basic : Spares(nv, kind, PodRequests(pod)[kind])

\* The verdict on a node: the first filter it fails, or else whether it has room.
ReasonFor(pod, nv) ==
  IF Passes(pod, nv)
  THEN IF HasRoom(pod, nv) THEN "fits" ELSE "insufficient"
  ELSE Filters[CHOOSE f \in DOMAIN Filters :
                 /\ Fails(Filters[f], pod, nv)
                 /\ \A g \in 1..(f - 1) : ~Fails(Filters[g], pod, nv)]

-----------------------------------------------------------------------------
(* The obstacles *)

StorageObstructs(in) == in.missingPVCs # {} \/ in.unboundPVCs # {}

NodesObstruct(in) == ~ \E nv \in Candidates(in) : HasRoom(in.pod, nv)

ExtendedObstructs(in, name) ==
  LET need == PodRequests(in.pod)[name]
  IN  need > 0 /\ ~ \E nv \in Candidates(in) : Spares(nv, name, need)

\* The pods on the nodes of this domain that a constraint or term selects.
selectedIn(in, nodes, key, d, namespaces, sel) ==
  {p \in DOMAIN in.placed :
     /\ in.placed[p].ns \in namespaces
     /\ LabelSelectorMatches(sel, in.placed[p].labels)
     /\ \E nv \in nodes : /\ nv.name = in.placed[p].node
                          /\ key \in DOMAIN nv.labels /\ nv.labels[key] = d}

\* One more pod in the domain of nv keeps the skew within maxSkew.
keepsSkew(in, c, nv) ==
  LET weight(d) == Cardinality(selectedIn(in, Range(in.nodes), c.key, d, {in.pod.ns}, c.selector))
  IN  \A other \in Range(in.nodes) :
        c.key \in DOMAIN other.labels =>
          weight(nv.labels[c.key]) + 1 - weight(other.labels[c.key]) <= c.maxSkew

SpreadObstructs(in, c) ==
  /\ c.whenUnsatisfiable = "DoNotSchedule"
  /\ ~ \E nv \in Candidates(in) : c.key \in DOMAIN nv.labels /\ keepsSkew(in, c, nv)

\* A pod that the term selects shares the domain of nv, among these nodes.
metBy(in, t, nv, nodes) ==
  selectedIn(in, nodes, t.key, nv.labels[t.key],
             IF t.namespaces = {} THEN {in.pod.ns} ELSE t.namespaces, t.selector) # {}

carrying(in, t) == {nv \in Candidates(in) : t.key \in DOMAIN nv.labels}

AffinityObstructs(in, t) ==
  ~ \E nv \in carrying(in, t) : metBy(in, t, nv, Candidates(in))

AntiAffinityObstructs(in, t) ==
  /\ carrying(in, t) # {}
  /\ \A nv \in carrying(in, t) : metBy(in, t, nv, Candidates(in))

ClaimObstructs(in, prc) ==
  ~ \E claim \in in.dra.claims :
      claim.ns = in.pod.ns /\ claim.name = claimRef(in.pod, prc)
        /\ claim.name # "" /\ claim.allocated

\* The pod is obstructed: the reason for which the CLI is to exit with 1.
Obstructed(in) ==
  \/ StorageObstructs(in)
  \/ NodesObstruct(in)
  \/ \E name \in Range(ExtNames) : ExtendedObstructs(in, name)
  \/ \E c \in Range(in.pod.spread) : SpreadObstructs(in, c)
  \/ \E t \in Range(in.pod.affinity) : AffinityObstructs(in, t)
  \/ \E t \in Range(in.pod.antiAffinity) : AntiAffinityObstructs(in, t)
  \/ \E prc \in Range(in.pod.resourceClaims) : ClaimObstructs(in, prc)
=============================================================================
