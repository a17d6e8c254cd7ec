-------------------------------- MODULE DRA ---------------------------------
(***************************************************************************)
(* pkg/diagnose/dra.go: Dynamic Resource Allocation.  A pod's claim entry  *)
(* is a record [name, claim]: claim is the direct ResourceClaimName, ""    *)
(* for an entry resolved through pod.claimStatuses, a sequence of records  *)
(* [name, claim] whose claim may be Nil.                                   *)
(*                                                                         *)
(* dra.claims is the set of ResourceClaims [ns, name, allocated, classes], *)
(* dra.devices the number of devices its ResourceSlices publish and        *)
(* dra.classes the names of its DeviceClasses; these two are Nil when the  *)
(* list was not obtained.                                                  *)
(***************************************************************************)
EXTENDS Topology

\* The name of the claim that an entry stands for, "" when there is none yet.
claimRef(pod, prc) ==
  LET resolved == {s \in DOMAIN pod.claimStatuses :
                     /\ pod.claimStatuses[s].name = prc.name
                     /\ pod.claimStatuses[s].claim # Nil}
  IN  IF prc.claim # "" THEN prc.claim
      ELSE IF resolved = {} THEN ""
      ELSE LET first == CHOOSE s \in resolved : \A r \in resolved : s <= r
           IN  pod.claimStatuses[first].claim

\* requestedClasses is claim.classes: the non-empty class names of its requests.
unallocatedClaimCause(name, claim, dra) ==
  LET missing == IF dra.classes = Nil THEN {} ELSE claim.classes \ dra.classes
  IN  Cause(Blocker,
            CASE missing # {}                      -> "ClaimClassMissing"
              [] missing = {} /\ dra.devices = Nil -> "ClaimUnallocated"
              [] missing = {} /\ dra.devices = 0   -> "ClaimNoDevices"
              [] OTHER                             -> "ClaimDevicesBusy",
            name, 0)

\* Mutant: a claim of that name in any namespace will do.
claimsNamedAnywhere(name, pod, dra) == {claim \in dra.claims : claim.name = name}

claimsNamed(name, pod, dra) ==
  {claim \in dra.claims : claim.ns = pod.ns /\ claim.name = name}

\* Mutant: an unallocated claim is passed over when no ResourceSlices were read.
claimCausesOfSlices(name, claim, dra) ==
  CauseIf(~claim.allocated /\ dra.devices # Nil, unallocatedClaimCause(name, claim, dra))

claimCauses(name, claim, dra) ==
  CauseIf(~claim.allocated, unallocatedClaimCause(name, claim, dra))

\* What AnalyzeDRA reports of one entry of the pod's resourceClaims.
AnalyzeDRA(prc, pod, dra) ==
  LET name == claimRef(pod, prc)
      found == claimsNamed(name, pod, dra)
  IN  IF name = "" THEN <<Cause(Blocker, "ClaimNotCreated", prc.name, 0)>>
      ELSE IF found = {} THEN <<Cause(Blocker, "ClaimNotFound", name, 0)>>
      ELSE claimCauses(name, CHOOSE claim \in found : TRUE, dra)
=============================================================================
