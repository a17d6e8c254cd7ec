------------------------------ MODULE Extended ------------------------------
(***************************************************************************)
(* pkg/diagnose/extended.go and the part of operator.go it calls: why an   *)
(* extended resource (a GPU, hugepages) keeps the pod from the eligible    *)
(* nodes.  chain is the ChainStatus that AnalyzeOperatorChain found: Nil,  *)
(* or a record [detected, firstBroken], firstBroken Nil or a component.    *)
(***************************************************************************)
EXTENDS Topology, Resources

CONSTANT GPUNames     \* the names isGPUResourceName recognises

ASSUME GPUNamesAssumption == GPUNames \subseteq Range(ExtNames)

isGPUResourceName(name) == name \in GPUNames

extendedNotAdvertised(name, need, chain) ==
  LET enriched == isGPUResourceName(name) /\ chain # Nil
  IN  Cause(Blocker,
            CASE ~enriched                               -> "NoEligibleProvider"
              [] enriched /\ chain.firstBroken # Nil     -> "GPUStackBroken"
              [] enriched /\ chain.firstBroken = Nil
                          /\ ~chain.detected             -> "NoGPUPlugin"
              [] OTHER                                   -> "NoProvider",
            name, need)

\* Mutant: a node whose devices are all in use does not count.
advertisersWithRoom(name, eligible) ==
  {k \in DOMAIN eligible : Free(eligible[k], name) > 0}

advertisers(name, eligible) ==
  {k \in DOMAIN eligible : Allocatable(eligible[k])[name] > 0}

\* Mutant: a node with exactly enough free does not do.
servesMore(nv, name, need) == Free(nv, name) > need

\* Mutant: any free device will do, however many are asked for.
servesAny(nv, name, need) == Free(nv, name) > 0

serves(nv, name, need) == Free(nv, name) >= need

\* What AnalyzeExtendedResources reports of one resource name.
AnalyzeExtendedResources(name, pod, eligible, chain) ==
  LET need == PodRequests(pod)[name]
      offers == advertisers(name, eligible)
  IN  IF need <= 0 THEN <<>>
      ELSE IF offers = {} THEN <<extendedNotAdvertised(name, need, chain)>>
      ELSE CauseIf(~ \E k \in offers : serves(eligible[k], name, need),
                   Cause(Blocker, "InsufficientExtended", name, need))
=============================================================================
