------------------------- MODULE AnalyzeTruth_proofs --------------------------
(***************************************************************************)
(* Proofs about what the single causes of a diagnosis say, for every value *)
(* of the constants: each is true of the Input, none is lost or revised,   *)
(* and every obstacle of a later stage has exactly one.                    *)
(***************************************************************************)
EXTENDS Analyze_proofs, Totals_proofs, FiniteSetTheorems

-----------------------------------------------------------------------------
(* What a cause says, and what the tallies must be for it to be true *)

ExtendedTitles == {"NoEligibleProvider", "GPUStackBroken", "NoGPUPlugin", "NoProvider",
                   "InsufficientExtended"}
SpreadTitles == {"NoTopologyKey", "SpreadUnsatisfied"}
AffinityTitles == {"AffinityUnsatisfied"}
AntiAffinityTitles == {"AntiAffinityUnsatisfied"}
ClaimTitles == {"ClaimNotCreated", "ClaimNotFound", "ClaimClassMissing", "ClaimUnallocated",
                "ClaimNoDevices", "ClaimDevicesBusy"}

\* The titles of the later stages.
StageTitles ==
  ExtendedTitles \cup SpreadTitles \cup AffinityTitles \cup AntiAffinityTitles \cup ClaimTitles

NotAdvertised == {"NoEligibleProvider", "GPUStackBroken", "NoGPUPlugin", "NoProvider"}

\* What the cause says is true of the Input.
Sound(cause) ==
  /\ cause.title = "LargerThanAnyNode" =>
       \A nv \in Candidates(in) : \E kind \in Basic : Request[kind] > Allocatable(nv)[kind]
  /\ cause.title = "Fragmentation" =>
       (\A kind \in Basic : Request[kind] <= freeInTotal(kind)) /\ NodesObstruct(in)
  /\ cause.title = "GPUStackBroken" => in.chain # Nil /\ in.chain.firstBroken # Nil
  /\ cause.title \in NotAdvertised =>
       /\ \A nv \in Candidates(in) : Allocatable(nv)[cause.subject] = 0
       /\ cause.n = Request[cause.subject]
  /\ cause.title = "SpreadUnsatisfied" =>
       \E c \in Range(in.pod.spread) :
         /\ blames(cause, c)
         /\ LabelSelectorMatches(c.selector, in.pod.labels) => noPlacementLeft(c)

\* The capacity tallies are those of the nodes classified so far.
TallyInv ==
  \A kind \in Basic :
    /\ \A nv \in Range(eligible) : Allocatable(nv)[kind] <= maxAlloc[kind]
    /\ sumFree[kind] = freeUpTo(kind)[seen]

\* Every cause is true, and that the pod should fit is said alone and at the end.
TruthInv ==
  /\ \A cause \in Range(causes) : Sound(cause)
  /\ pc # "done" => \A cause \in Range(causes) : cause.title # "LooksLikeItFits"
  /\ NeverEmptyNorContradictory

-----------------------------------------------------------------------------
(* Lists of true causes *)

\* A list of true causes that a stage adds.
Told(s) == IsSequence(s) /\ \A cause \in Range(s) : Sound(cause) /\ cause.title # "LooksLikeItFits"

\* The same, of a stage that checks no items.
Plain(s) == Told(s) /\ \A cause \in Range(s) : cause.title \notin StageTitles

\* True causes are added to s to make t.
Adds(s, t) == \E new : Plain(new) /\ t = s \o new

LEMMA ToldLists ==
  ASSUME NEW s, NEW t
  PROVE  /\ Plain(<<>>)
         /\ Told(s) /\ Told(t) => Told(s \o t)
         /\ Plain(s) /\ Plain(t) => Plain(s \o t)
<1>1. Plain(<<>>)
  BY ShortLists DEF Told, Plain
<1>2. ASSUME IsSequence(s), IsSequence(t)
      PROVE  IsSequence(s \o t) /\ Range(s \o t) = Range(s) \cup Range(t)
  BY <1>2, ConcatLists
<1>3. Told(s) /\ Told(t) => Told(s \o t)
  BY <1>2 DEF Told
<1>4. Plain(s) /\ Plain(t) => Plain(s \o t)
  BY <1>2, <1>3 DEF Told, Plain
<1> QED
  BY <1>1, <1>3, <1>4

\* What is added later comes after what was added before.
LEMMA AddsMore ==
  ASSUME NEW s, IsSequence(s), NEW t, Adds(s, t), NEW u, Plain(u)
  PROVE  Adds(s, t \o u)
<1>1. PICK new : Plain(new) /\ t = s \o new
  BY DEF Adds
<1>2. s \in Seq(Range(s)) /\ new \in Seq(Range(new)) /\ u \in Seq(Range(u))
  BY <1>1 DEF Plain, Told, IsSequence
<1> DEFINE S == Range(s) \cup Range(new) \cup Range(u)
<1>3. s \in Seq(S) /\ new \in Seq(S) /\ u \in Seq(S)
  BY <1>2
<1>4. (s \o new) \o u = s \o (new \o u)
  BY <1>3, ConcatAssociative
<1> QED
  BY <1>1, <1>4, ToldLists DEF Adds

\* Nothing is added where nothing changes.
LEMMA AddsNothing ==
  ASSUME NEW s, IsSequence(s)
  PROVE  Adds(s, s) /\ \A u : Plain(u) => Adds(s, s \o u)
<1>1. s \in Seq(Range(s))
  BY DEF IsSequence
<1>2. s = s \o <<>>
  BY <1>1, ConcatEmptySeq
<1> QED
  BY <1>2, ToldLists DEF Adds

\* A cause that says nothing of capacity and of no item of a later stage is true.
LEMMA PlainCause ==
  ASSUME NEW title, title \notin StageTitles,
         title \notin {"LargerThanAnyNode", "Fragmentation", "LooksLikeItFits"},
         NEW severity, NEW subject, NEW n, NEW cond
  PROVE  Plain(CauseIf(cond, Cause(severity, title, subject, n)))
<1> DEFINE cause == Cause(severity, title, subject, n)
<1>1. cause.title = title
  BY DEF Cause
<1>2. NotAdvertised \subseteq StageTitles
      /\ "SpreadUnsatisfied" \in StageTitles /\ "GPUStackBroken" \in StageTitles
  BY DEF NotAdvertised, StageTitles, ExtendedTitles, SpreadTitles
<1> HIDE DEF cause
<1>3. Sound(cause) /\ cause.title # "LooksLikeItFits" /\ cause.title \notin StageTitles
  BY <1>1, <1>2 DEF Sound
<1>4. Plain(CauseIf(cond, cause))
  BY <1>3, CauseIfList DEF Plain, Told
<1> QED
  BY <1>4 DEF cause

\* analyze.go:123-139: the claims stage adds causes that are true.
LEMMA AddsPVCs == IsSequence(causes) /\ ReportPVCs => Adds(causes, causes')
<1> SUFFICES ASSUME IsSequence(causes), ReportPVCs PROVE Adds(causes, causes')
  OBVIOUS
<1> DEFINE missing == CauseIf(in.missingPVCs # {}, Cause(Blocker, "PVCNotFound", "", 0))
           unbound == CauseIf(in.unboundPVCs # {}, Cause(Blocker, "PVCUnbound", "", 0))
<1>1. causes' = causes \o missing \o unbound
  BY Zenon DEF ReportPVCs
<1>2. Plain(missing) /\ Plain(unbound)
  BY PlainCause DEF StageTitles, ExtendedTitles, SpreadTitles, AffinityTitles, AntiAffinityTitles,
     ClaimTitles
<1> HIDE DEF missing, unbound
<1>3. Adds(causes, causes \o missing)
  BY <1>2, AddsNothing
<1> QED
  BY <1>1, <1>2, <1>3, AddsMore

\* analyze.go:239-283: so does the stage of the filters.
LEMMA AddsFilters == IsSequence(causes) /\ ReportFilters => Adds(causes, causes')
<1> SUFFICES ASSUME IsSequence(causes), ReportFilters PROVE Adds(causes, causes')
  OBVIOUS
<1> DEFINE notready == filterCause("notready", counts["notready"] > 0, hardSeverity)
           taint == filterCause("taint", taintSet # {}, hardSeverity)
           selector == filterCause("selector", counts["selector"] > 0, hardSeverity)
           affinity == filterCause("affinity", counts["affinity"] > 0, hardSeverity)
           cordoned == filterCause("cordoned", counts["cordoned"] > 0, cordonSeverity)
<1>1. causes' = causes \o notready \o taint \o selector \o affinity \o cordoned
  BY Zenon DEF ReportFilters
<1>2. /\ Plain(notready) /\ Plain(taint) /\ Plain(selector) /\ Plain(affinity) /\ Plain(cordoned)
  BY PlainCause DEF filterCause, StageTitles, ExtendedTitles, SpreadTitles, AffinityTitles,
     AntiAffinityTitles, ClaimTitles
<1> HIDE DEF notready, taint, selector, affinity, cordoned
<1>3. Adds(causes, causes \o notready)
  BY <1>2, AddsNothing
<1>4. Adds(causes, causes \o notready \o taint)
  BY <1>2, <1>3, AddsMore
<1>5. Adds(causes, causes \o notready \o taint \o selector)
  BY <1>2, <1>4, AddsMore
<1>6. Adds(causes, causes \o notready \o taint \o selector \o affinity)
  BY <1>2, <1>5, AddsMore
<1> QED
  BY <1>1, <1>2, <1>6, AddsMore

-----------------------------------------------------------------------------
(* Capacity *)

\* Its equations determine the total over the nodes, and make it a number.
LEMMA FreeRecursion ==
  ASSUME in \in Inputs, NEW kind \in Basic
  PROVE  LET spare(n) == IF Passes(in.pod, in.nodes[n]) THEN Larger(Free(in.nodes[n], kind), 0) ELSE 0
             total == freeUpTo(kind)
         IN  /\ total \in [0..Len(in.nodes) -> Nat]
             /\ total[0] = 0
             /\ \A n \in 1..Len(in.nodes) : total[n] = total[n - 1] + spare(n)
<1> DEFINE N == Len(in.nodes)
           spare(n) == IF Passes(in.pod, in.nodes[n]) THEN Larger(Free(in.nodes[n], kind), 0) ELSE 0
           step == [n \in 1..N |-> [v \in Nat |-> v + spare(n)]]
           equation(f) == f = [n \in 0..N |-> IF n = 0 THEN 0 ELSE f[n - 1] + spare(n)]
           total == freeUpTo(kind)
<1>1. N \in Nat /\ 0 \in Nat /\ \A n \in 1..N : spare(n) \in Nat
  <2>1. N \in Nat /\ \A n \in 1..N : Free(in.nodes[n], kind) \in Int
    BY InputFacts
  <2> QED
    BY <2>1 DEF Larger
<1>2. total = CHOOSE f : equation(f)
  BY DEF freeUpTo
<1> HIDE DEF N, spare, total
<1>3. step \in Steps(N, Nat)
  BY <1>1 DEF Steps
<1>4. PICK f : f \in [0..N -> Nat] /\ Unrolls(f, 0, step, N)
  <2> HIDE DEF step
  <2> QED
    BY <1>1, <1>3, Recursion
<1>5. equation(f)
  <2>1. \A n \in 1..N : f[n - 1] \in Nat
    BY <1>1, <1>4
  <2>2. \A n \in 1..N : step[n][f[n - 1]] = f[n - 1] + spare(n)
    BY <2>1
  <2>3. f = [n \in 0..N |-> IF n = 0 THEN 0 ELSE step[n][f[n - 1]]]
    BY <1>4 DEF Unrolls
  <2>4. f[0] = 0 /\ \A n \in 1..N : f[n] = f[n - 1] + spare(n)
    <3> HIDE DEF step
    <3> QED
      BY <1>1, <2>2, <2>3
  <2>5. \A n \in 0..N : f[n] = IF n = 0 THEN 0 ELSE f[n - 1] + spare(n)
    BY <1>1, <2>4
  <2>6. f = [n \in 0..N |-> f[n]]
    BY <1>4
  <2> QED
    BY <2>5, <2>6
<1>6. equation(total)
  <2> HIDE DEF equation
  <2> QED
    BY <1>2, <1>5
<1>7. total = [n \in 0..N |-> total[n]] /\ total[0] = 0
  BY <1>1, <1>6
<1>8. \A n \in 1..N : total[n] = total[n - 1] + spare(n)
  BY <1>1, <1>6
<1>9. \A n \in 0..N : total[n] \in Nat
  <2>1. \A n \in 1..N : total[n - 1] \in Nat => total[n] \in Nat
    BY <1>1, <1>8
  <2>2. total[0] \in Nat
    BY <1>7
  <2> QED
    BY <1>1, <2>1, <2>2, StaysIn
<1>10. total \in [0..N -> Nat]
  BY <1>7, <1>9
<1> QED
  BY <1>7, <1>8, <1>10 DEF N, spare, total

\* A rejected node adds nothing to the tallies, and has nothing to spare.
LEMMA TallyReject == TypeOK /\ LoopInv /\ TallyInv /\ RejectNode => TallyInv'
<1> SUFFICES ASSUME TypeOK, LoopInv, TallyInv, RejectNode PROVE TallyInv'
  OBVIOUS
<1>1. /\ pc = "nodes" /\ i <= Len(in.nodes) /\ i' = i + 1
      /\ UNCHANGED <<in, pc, eligible, maxAlloc, sumFree>>
  BY DEF RejectNode
<1>2. seen = i - 1 /\ seen' = i /\ i \in 1..Len(in.nodes)
  BY <1>1, SeenNext
<1>3. ~Passes(in.pod, in.nodes[i])
  BY ReasonRejected DEF RejectNode
<1>4. ASSUME NEW kind \in Basic
      PROVE  /\ \A nv \in Range(eligible') : Allocatable(nv)[kind] <= maxAlloc'[kind]
             /\ sumFree'[kind] = freeUpTo(kind)'[seen']
  <2>1. freeUpTo(kind)' = freeUpTo(kind)
    BY <1>1 DEF freeUpTo
  <2>2. freeUpTo(kind)[i] = freeUpTo(kind)[i - 1]
    <3>1. /\ freeUpTo(kind) \in [0..Len(in.nodes) -> Nat]
          /\ freeUpTo(kind)[i] = freeUpTo(kind)[i - 1]
               + (IF Passes(in.pod, in.nodes[i]) THEN Larger(Free(in.nodes[i], kind), 0) ELSE 0)
      BY <1>2, FreeRecursion DEF TypeOK
    <3>2. freeUpTo(kind)[i - 1] \in Nat
      BY <1>2, <3>1
    <3> QED
      BY <1>3, <3>1, <3>2
  <2>3. freeUpTo(kind)[i] = freeUpTo(kind)[seen]
    BY <1>2, <2>2
  <2> QED
    BY <1>1, <1>2, <2>1, <2>3 DEF TallyInv
<1> QED
  BY <1>4 DEF TallyInv

\* analyze.go:187-201: an admitted node adds what it has to spare, if anything.
LEMMA TallyAdmit == TypeOK /\ LoopInv /\ TallyInv /\ AdmitNode => TallyInv'
<1> SUFFICES ASSUME TypeOK, LoopInv, TallyInv, AdmitNode PROVE TallyInv'
  OBVIOUS
<1> DEFINE node == in.nodes[i]
<1>1. /\ pc = "nodes" /\ i <= Len(in.nodes) /\ i' = i + 1
      /\ UNCHANGED <<in, pc>> /\ Passes(in.pod, node)
      /\ eligible' = Append(eligible, node)
      /\ maxAlloc' = [kind \in Basic |-> Larger(Allocatable(node)[kind], maxAlloc[kind])]
      /\ sumFree' = [kind \in Basic |-> sumFree[kind] + freeForTotal(node, kind)]
  BY DEF AdmitNode
<1>2. seen = i - 1 /\ seen' = i /\ i \in 1..Len(in.nodes) /\ node \in Range(in.nodes)
  BY <1>1, SeenNext
<1>3. Range(eligible') = Range(eligible) \cup {node} /\ Range(eligible) \subseteq Range(in.nodes)
  BY <1>1, OwnRange, AppendToList DEF TypeOK
<1>4. ASSUME NEW kind \in Basic
      PROVE  /\ \A nv \in Range(eligible') : Allocatable(nv)[kind] <= maxAlloc'[kind]
             /\ sumFree'[kind] = freeUpTo(kind)'[seen']
  <2>1. /\ \A nv \in Range(in.nodes) : Allocatable(nv)[kind] \in Nat
        /\ Free(node, kind) \in Int /\ maxAlloc[kind] \in Nat
    BY <1>2, InputFacts DEF TypeOK
  <2>2. maxAlloc'[kind] = Larger(Allocatable(node)[kind], maxAlloc[kind])
    BY <1>1
  <2>3. \A nv \in Range(eligible) : Allocatable(nv)[kind] <= maxAlloc[kind]
    BY DEF TallyInv
  <2>4. \A nv \in Range(eligible') : Allocatable(nv)[kind] <= maxAlloc'[kind]
    BY <1>2, <1>3, <2>1, <2>2, <2>3 DEF Larger
  <2>5. freeUpTo(kind)' = freeUpTo(kind)
    BY <1>1 DEF freeUpTo
  <2>6. freeUpTo(kind)[i] = freeUpTo(kind)[i - 1] + Larger(Free(node, kind), 0)
    BY <1>1, <1>2, FreeRecursion DEF TypeOK
  <2>7. freeForTotal(node, kind) = Larger(Free(node, kind), 0)
    BY DEF freeForTotal, Larger
  <2>8. sumFree'[kind] = sumFree[kind] + freeForTotal(node, kind)
    BY <1>1
  <2>9. sumFree[kind] = freeUpTo(kind)[i - 1]
    BY <1>2 DEF TallyInv
  <2> QED
    BY <1>2, <2>4, <2>5, <2>6, <2>7, <2>8, <2>9
<1> QED
  BY <1>4 DEF TallyInv

\* The steps outside the loop leave the tallies as they are.
LEMMA TallyFrame ==
  ASSUME TallyInv, UNCHANGED <<in, tally>>, seen' = seen
  PROVE  TallyInv'
<1>1. eligible' = eligible /\ maxAlloc' = maxAlloc /\ sumFree' = sumFree /\ in' = in
  BY DEF tally
<1>2. \A kind \in Basic : freeUpTo(kind)' = freeUpTo(kind)
  BY <1>1 DEF freeUpTo
<1> QED
  BY <1>1, <1>2 DEF TallyInv

\* analyze.go:285-325: the cause that the capacity analysis gives is true.
LEMMA AddsCapacity == TypeOK /\ LoopInv /\ TallyInv /\ AnalyzeCapacity => Adds(causes, causes')
<1> SUFFICES ASSUME TypeOK, LoopInv, TallyInv, AnalyzeCapacity PROVE Adds(causes, causes')
  OBVIOUS
<1> DEFINE cond == eligible # <<>> /\ fit = 0
           cause == Cause(Blocker, capacityTitle, "", Len(eligible))
<1>1. pc = "capacity" /\ causes' = causes \o CauseIf(cond, cause)
  BY Zenon DEF AnalyzeCapacity
<1>2. cause.title = capacityTitle
  BY DEF Cause
<1>3. seen = Len(in.nodes)
  BY <1>1 DEF seen
<1>4. Range(eligible) = Candidates(in) /\ (fit > 0 <=> ~NodesObstruct(in))
  BY <1>1, AfterLoop
<1>5. /\ \A kind \in Basic : Request[kind] \in Nat /\ maxAlloc[kind] \in Nat
      /\ \A nv \in Candidates(in), kind \in Basic : Allocatable(nv)[kind] \in Nat
  BY InputFacts DEF TypeOK, Candidates
<1>6. capacityTitle = "LargerThanAnyNode" =>
        \A nv \in Candidates(in) : \E kind \in Basic : Request[kind] > Allocatable(nv)[kind]
  <2> SUFFICES ASSUME capacityTitle = "LargerThanAnyNode"
               PROVE  \A nv \in Candidates(in) : \E kind \in Basic : Request[kind] > Allocatable(nv)[kind]
    OBVIOUS
  <2>1. PICK kind \in Basic : ~(Request[kind] <= maxAlloc[kind])
    BY DEF capacityTitle, within
  <2>2. \A nv \in Candidates(in) : Allocatable(nv)[kind] <= maxAlloc[kind]
    BY <1>4 DEF TallyInv
  <2>3. \A nv \in Candidates(in) : Request[kind] > Allocatable(nv)[kind]
    BY <1>5, <2>1, <2>2
  <2> QED
    BY <2>3
<1>7. capacityTitle = "Fragmentation" => \A kind \in Basic : Request[kind] <= freeInTotal(kind)
  BY <1>3 DEF capacityTitle, within, TallyInv, freeInTotal
<1>8. capacityTitle \in {"LargerThanAnyNode", "Fragmentation", "InsufficientFree"}
  BY DEF capacityTitle
<1> HIDE DEF cause
<1>9. cond => Sound(cause)
  <2>1. cause.title \notin NotAdvertised \cup {"GPUStackBroken", "SpreadUnsatisfied"}
    BY <1>2, <1>8 DEF NotAdvertised
  <2> QED
    BY <1>2, <1>4, <1>6, <1>7, <2>1 DEF Sound
<1>10. Plain(CauseIf(cond, cause))
  <2>1. cause.title \notin StageTitles /\ cause.title # "LooksLikeItFits"
    BY <1>2, <1>8 DEF StageTitles, ExtendedTitles, SpreadTitles, AffinityTitles,
       AntiAffinityTitles, ClaimTitles
  <2> QED
    BY <1>9, <2>1, CauseIfList DEF Plain, Told
<1> QED
  BY <1>1, <1>10, AddsNothing DEF TypeOK

-----------------------------------------------------------------------------
(* The checks of the later stages *)

\* A check reports one cause of its kind, or none.
Single(new, family) == new = <<>> \/ \E cause : new = <<cause>> /\ cause.title \in family

\* What a check reports is added to the causes as it should be.
Reports(new, family) == Told(new) /\ Single(new, family)

\* The lists that the checks are made of.
LEMMA ReportLists ==
  ASSUME NEW family, NEW title \in family, NEW severity, NEW subject, NEW n,
         Sound(Cause(severity, title, subject, n)), title # "LooksLikeItFits", NEW cond
  PROVE  /\ Reports(<<>>, family)
         /\ Reports(<<Cause(severity, title, subject, n)>>, family)
         /\ Reports(CauseIf(cond, Cause(severity, title, subject, n)), family)
<1> DEFINE cause == Cause(severity, title, subject, n)
<1>1. cause.title = title
  BY DEF Cause
<1> HIDE DEF cause
<1>2. Sound(cause)
  BY DEF cause
<1>3. Reports(<<>>, family) /\ Reports(<<cause>>, family)
  BY <1>1, <1>2, ShortLists DEF Reports, Told, Single
<1>4. Reports(CauseIf(cond, cause), family)
  BY <1>3 DEF CauseIf
<1> QED
  BY <1>3, <1>4 DEF cause

\* A cause of which nothing more is said than its title is true.
LEMMA SoundCause ==
  ASSUME NEW title,
         title \notin {"LargerThanAnyNode", "Fragmentation", "SpreadUnsatisfied"} \cup NotAdvertised,
         NEW severity, NEW subject, NEW n
  PROVE  Sound(Cause(severity, title, subject, n))
<1>1. Cause(severity, title, subject, n).title = title
  BY DEF Cause
<1> QED
  BY <1>1 DEF Sound, NotAdvertised

\* extended.go:46-62: a resource is called not advertised when no candidate has any, and
\* the chain is blamed when a component of it is broken.
LEMMA ExtendedReports ==
  ASSUME in \in Inputs, eligible \in Seq(Range(in.nodes)), Range(eligible) = Candidates(in),
         NEW name \in Range(ExtNames)
  PROVE  Reports(AnalyzeExtendedResources(name, in.pod, eligible, in.chain), ExtendedTitles)
<1> DEFINE need == PodRequests(in.pod)[name]
           offers == advertisers(name, eligible)
           cause == extendedNotAdvertised(name, need, in.chain)
           short == Cause(Blocker, "InsufficientExtended", name, need)
<1>1. need = Request[name] /\ name \in Kinds
  BY DEF Request, Kinds
<1>2. \A nv \in Candidates(in) : Allocatable(nv)[name] \in Nat
  BY <1>1, InputFacts DEF Candidates
<1>3. Sound(short)
  BY SoundCause DEF NotAdvertised
<1>4. CASE need <= 0
  <2>1. AnalyzeExtendedResources(name, in.pod, eligible, in.chain) = <<>>
    BY <1>4 DEF AnalyzeExtendedResources
  <2> QED
    BY <2>1, ToldLists DEF Reports, Single, Plain
<1>5. CASE ~(need <= 0) /\ offers = {}
  <2>1. AnalyzeExtendedResources(name, in.pod, eligible, in.chain) = <<cause>>
    BY <1>5, Zenon DEF AnalyzeExtendedResources
  <2>2. /\ cause.title \in NotAdvertised /\ cause.subject = name /\ cause.n = need
        /\ cause.title = "GPUStackBroken" => in.chain # Nil /\ in.chain.firstBroken # Nil
    BY DEF extendedNotAdvertised, Cause, NotAdvertised
  <2>3. \A nv \in Candidates(in) : Allocatable(nv)[name] = 0
    <3>1. \A k \in DOMAIN eligible : ~(Allocatable(eligible[k])[name] > 0)
      BY <1>5 DEF advertisers
    <3> QED
      BY <1>2, <3>1 DEF Range
  <2> HIDE DEF cause, need
  <2>4. Sound(cause)
    <3>1. cause.title \notin {"LargerThanAnyNode", "Fragmentation", "SpreadUnsatisfied"}
      BY <2>2 DEF NotAdvertised
    <3> QED
      BY <1>1, <2>2, <2>3, <3>1 DEF Sound
  <2>5. cause.title \in ExtendedTitles /\ cause.title # "LooksLikeItFits"
    BY <2>2 DEF NotAdvertised, ExtendedTitles
  <2> QED
    BY <2>1, <2>4, <2>5, ShortLists DEF Reports, Told, Single
<1>6. CASE ~(need <= 0) /\ offers # {}
  <2> DEFINE cond == ~ \E k \in offers : serves(eligible[k], name, need)
  <2>1. AnalyzeExtendedResources(name, in.pod, eligible, in.chain) = CauseIf(cond, short)
    BY <1>6, Zenon DEF AnalyzeExtendedResources
  <2> HIDE DEF cond
  <2>2. Reports(CauseIf(cond, short), ExtendedTitles)
    BY <1>3, ReportLists DEF ExtendedTitles
  <2> QED
    BY <2>1, <2>2
<1> QED
  BY <1>4, <1>5, <1>6

\* A constraint that selects the pod counts it too once it is placed.
LEMMA WeightAfter ==
  ASSUME in \in Inputs, NEW c, LabelSelectorMatches(c.selector, in.pod.labels),
         NEW nv \in Range(in.nodes), c.key \in DOMAIN nv.labels
  PROVE  weightIn(placedOn(nv), c, nv.labels[c.key]) = weightIn(in, c, nv.labels[c.key]) + 1
<1> DEFINE d == nv.labels[c.key]
           L == Len(in.placed)
           new == [ns |-> in.pod.ns, node |-> nv.name, labels |-> in.pod.labels]
           after == Append(in.placed, new)
           before == selectedIn(in, Range(in.nodes), c.key, d, {in.pod.ns}, c.selector)
           then == selectedIn(placedOn(nv), Range(in.nodes), c.key, d, {in.pod.ns}, c.selector)
           there(p) == \E other \in Range(in.nodes) :
                         /\ other.name = p.node /\ c.key \in DOMAIN other.labels
                         /\ other.labels[c.key] = d
           counts1(p) == p.ns \in {in.pod.ns} /\ LabelSelectorMatches(c.selector, p.labels) /\ there(p)
<1>1. IsSequence(in.placed) /\ L \in Nat /\ DOMAIN in.placed = 1..L
  BY InputsAssumption DEF WellFormed, IsSequence
<1>2. /\ DOMAIN after = 1..(L + 1) /\ after[L + 1] = new
      /\ \A p \in 1..L : after[p] = in.placed[p]
  <2>1. IsSequence(after) /\ Len(after) = L + 1 /\ \A p \in 1..L : after[p] = in.placed[p]
    BY <1>1, AppendToList
  <2>2. after[L + 1] = new
    BY <1>1, AppendToList
  <2> QED
    BY <2>1, <2>2 DEF IsSequence
<1>3. before = {p \in 1..L : counts1(in.placed[p])}
  BY <1>1 DEF selectedIn
<1>4. then = {p \in 1..(L + 1) : counts1(after[p])}
  <2>1. placedOn(nv).placed = after
    BY DEF placedOn
  <2> HIDE DEF after
  <2> QED
    BY <1>2, <2>1 DEF selectedIn
<1>5. counts1(new)
  OBVIOUS
<1> HIDE DEF counts1, new, after, before, then, L
<1>6. then = before \cup {L + 1} /\ L + 1 \notin before
  <2>1. 1..(L + 1) = (1..L) \cup {L + 1} /\ L + 1 \notin 1..L
    BY <1>1
  <2>2. \A p \in 1..L : counts1(after[p]) <=> counts1(in.placed[p])
    BY <1>2
  <2>3. counts1(after[L + 1])
    BY <1>2, <1>5
  <2> QED
    BY <1>3, <1>4, <2>1, <2>2, <2>3
<1>7. IsFiniteSet(before)
  <2>1. IsFiniteSet(1..L)
    BY <1>1, FS_Interval
  <2> QED
    BY <1>3, <2>1, FS_Subset
<1>8. Cardinality(then) = Cardinality(before) + 1
  BY <1>6, <1>7, FS_AddElement
<1>9. weightIn(placedOn(nv), c, d) = Cardinality(then)
  BY DEF weightIn, placedOn, then
<1>10. weightIn(in, c, d) = Cardinality(before)
  BY DEF weightIn, before
<1> QED
  BY <1>8, <1>9, <1>10

\* A domain holds a number of pods.
LEMMA WeightIsNat ==
  ASSUME in \in Inputs, NEW c, NEW d
  PROVE  weightIn(in, c, d) \in Nat
<1> DEFINE selected == selectedIn(in, Range(in.nodes), c.key, d, {in.pod.ns}, c.selector)
           L == Len(in.placed)
<1>1. DOMAIN in.placed = 1..L /\ L \in Nat
  BY InputsAssumption DEF WellFormed, IsSequence
<1>2. selected \subseteq 1..L
  BY <1>1 DEF selectedIn
<1> HIDE DEF selected, L
<1>3. IsFiniteSet(selected)
  <2>1. IsFiniteSet(1..L)
    BY <1>1, FS_Interval
  <2> QED
    BY <1>2, <2>1, FS_Subset
<1>4. Cardinality(selected) \in Nat
  BY <1>3, FS_CardinalityType
<1> QED
  BY <1>4 DEF weightIn, selected

\* topology.go:76-143: where a constraint is reported, no placement that is left keeps it.
LEMMA SpreadReports ==
  ASSUME in \in Inputs, Range(eligible) = Candidates(in), NEW c \in Range(in.pod.spread)
  PROVE  Reports(AnalyzeTopologySpread(c, in.pod, in.nodes, eligible, in.placed), SpreadTitles)
<1> DEFINE possible == feasible(c, in.pod, in.nodes, eligible, in.placed)
           causesOf == AnalyzeTopologySpread(c, in.pod, in.nodes, eligible, in.placed)
           cause == Cause(Blocker, "SpreadUnsatisfied", c.key, c.maxSkew)
<1>1. Reports(<<>>, SpreadTitles)
  BY ToldLists DEF Reports, Single, Plain
<1>2. Reports(<<Cause(Blocker, "NoTopologyKey", c.key, 0)>>, SpreadTitles)
  <2>1. Sound(Cause(Blocker, "NoTopologyKey", c.key, 0))
    BY SoundCause DEF NotAdvertised
  <2> QED
    BY <2>1, ReportLists DEF SpreadTitles
<1>3. CASE c.whenUnsatisfiable # "DoNotSchedule"
  BY <1>1, <1>3 DEF AnalyzeTopologySpread
<1>4. CASE c.whenUnsatisfiable = "DoNotSchedule" /\ domainsOf(in.nodes, c.key) = {}
  BY <1>2, <1>4, Zenon DEF AnalyzeTopologySpread
<1>5. CASE c.whenUnsatisfiable = "DoNotSchedule" /\ domainsOf(in.nodes, c.key) # {}
  <2>1. causesOf = CauseIf(~possible, cause)
    BY <1>5, Zenon DEF AnalyzeTopologySpread
  <2>2. ASSUME ~possible
        PROVE  Sound(cause)
    <3>1. HasBlocker(CauseIf(~possible, cause))
      BY <2>2, BlockersOf
    <3>2. SpreadObstructs(in, c)
      BY <2>1, <3>1, SpreadFaithful
    <3>3. ASSUME LabelSelectorMatches(c.selector, in.pod.labels),
                 NEW nv \in Candidates(in), c.key \in DOMAIN nv.labels
          PROVE  breaksSkew(c, nv)
      <4>1. nv \in Range(in.nodes)
        BY DEF Candidates
      <4>2. ~keepsSkew(in, c, nv)
        BY <1>5, <3>2, <3>3 DEF SpreadObstructs
      <4>3. PICK other \in Range(in.nodes) :
              /\ c.key \in DOMAIN other.labels
              /\ ~(weightIn(in, c, nv.labels[c.key]) + 1 - weightIn(in, c, other.labels[c.key])
                     <= c.maxSkew)
        BY <4>2 DEF keepsSkew, weightIn
      <4>4. weightIn(placedOn(nv), c, nv.labels[c.key]) = weightIn(in, c, nv.labels[c.key]) + 1
        BY <3>3, <4>1, WeightAfter
      <4>5. c.maxSkew \in Int
        BY InputsAssumption DEF WellFormed, WellFormedPod
      <4>6. \A d : weightIn(in, c, d) \in Nat
        BY WeightIsNat
      <4>7. weightIn(placedOn(nv), c, nv.labels[c.key]) - weightIn(in, c, other.labels[c.key])
              > c.maxSkew
        BY <4>3, <4>4, <4>5, <4>6
      <4> QED
        BY <4>3, <4>7 DEF breaksSkew
    <3>4. LabelSelectorMatches(c.selector, in.pod.labels) => noPlacementLeft(c)
      BY <3>3 DEF noPlacementLeft
    <3>5. cause.title = "SpreadUnsatisfied" /\ cause.subject = c.key /\ cause.n = c.maxSkew
      BY DEF Cause
    <3> HIDE DEF cause
    <3>6. blames(cause, c)
      BY <1>5, <3>5 DEF blames
    <3> QED
      BY <3>4, <3>5, <3>6 DEF Sound, NotAdvertised
  <2>3. CASE possible
    BY <1>1, <2>1, <2>3 DEF CauseIf
  <2>4. CASE ~possible
    <3>1. Sound(cause)
      BY <2>2, <2>4
    <3> QED
      BY <2>1, <3>1, ReportLists DEF SpreadTitles
  <2> QED
    BY <2>3, <2>4
<1> QED
  BY <1>3, <1>4, <1>5

\* topology.go:186-212: one cause for a term, or none.
LEMMA AffinityReports ==
  ASSUME NEW t
  PROVE  /\ Reports(affinityCauses(t, in.pod, eligible, in.placed), AffinityTitles)
         /\ Reports(antiAffinityCauses(t, in.pod, eligible, in.placed), AntiAffinityTitles)
<1>1. /\ Sound(Cause(Blocker, "AffinityUnsatisfied", t.key, 0))
      /\ Sound(Cause(Blocker, "AntiAffinityUnsatisfied", t.key, 0))
  BY SoundCause DEF NotAdvertised
<1>2. Reports(affinityCauses(t, in.pod, eligible, in.placed), AffinityTitles)
  BY <1>1, ReportLists DEF affinityCauses, AffinityTitles
<1>3. Reports(antiAffinityCauses(t, in.pod, eligible, in.placed), AntiAffinityTitles)
  BY <1>1, ReportLists DEF antiAffinityCauses, AntiAffinityTitles
<1> QED
  BY <1>2, <1>3

\* dra.go:62-87: one cause for a claim of the pod, or none.
LEMMA ClaimsReport ==
  ASSUME NEW prc
  PROVE  Reports(AnalyzeDRA(prc, in.pod, in.dra), ClaimTitles)
<1>1. ASSUME NEW title \in ClaimTitles, NEW subject, NEW cond
      PROVE  /\ Reports(<<Cause(Blocker, title, subject, 0)>>, ClaimTitles)
             /\ Reports(CauseIf(cond, Cause(Blocker, title, subject, 0)), ClaimTitles)
  <2>1. Sound(Cause(Blocker, title, subject, 0)) /\ title # "LooksLikeItFits"
    BY SoundCause DEF NotAdvertised, ClaimTitles
  <2> QED
    BY <2>1, ReportLists
<1>2. ASSUME NEW name, NEW claim
      PROVE  Reports(claimCauses(name, claim, in.dra), ClaimTitles)
  <2>1. PICK title \in ClaimTitles : unallocatedClaimCause(name, claim, in.dra) = Cause(Blocker, title, name, 0)
    BY DEF unallocatedClaimCause, ClaimTitles
  <2> QED
    BY <1>1, <2>1 DEF claimCauses
<1> DEFINE name == claimRef(in.pod, prc)
           found == claimsNamed(name, in.pod, in.dra)
<1>3. /\ Reports(<<Cause(Blocker, "ClaimNotCreated", prc.name, 0)>>, ClaimTitles)
      /\ Reports(<<Cause(Blocker, "ClaimNotFound", name, 0)>>, ClaimTitles)
  BY <1>1 DEF ClaimTitles
<1>4. Reports(claimCauses(name, CHOOSE claim \in found : TRUE, in.dra), ClaimTitles)
  BY <1>2
<1>5. CASE name = ""
  BY <1>3, <1>5, Zenon DEF AnalyzeDRA
<1>6. CASE name # "" /\ found = {}
  BY <1>3, <1>6, Zenon DEF AnalyzeDRA
<1>7. CASE name # "" /\ found # {}
  BY <1>4, <1>7, Zenon DEF AnalyzeDRA
<1> QED
  BY <1>5, <1>6, <1>7

-----------------------------------------------------------------------------
(* The turns of the later loops *)

\* The items of each later stage that obstruct the pod.
ExtendedMet == {k \in DOMAIN ExtNames : ExtendedObstructs(in, ExtNames[k])}
SpreadMet == {k \in DOMAIN in.pod.spread : SpreadObstructs(in, in.pod.spread[k])}
AffinityMet == {k \in DOMAIN in.pod.affinity : AffinityObstructs(in, in.pod.affinity[k])}
AntiAffinityMet ==
  {k \in DOMAIN in.pod.antiAffinity : AntiAffinityObstructs(in, in.pod.antiAffinity[k])}
ClaimsMet == {k \in DOMAIN in.pod.resourceClaims : ClaimObstructs(in, in.pod.resourceClaims[k])}

\* One turn of a later loop: an item is checked, and reported if it obstructs, or the loop ends.
Turn(stage, items, next, family, met, new) ==
  /\ pc = stage /\ UNCHANGED <<in, tally>>
  /\ Len(items) \in Nat /\ met \subseteq 1..Len(items) /\ i \in Nat
  /\ \/ /\ i \in 1..Len(items) /\ i' = i + 1 /\ pc' = stage
        /\ causes' = causes \o new
        /\ Reports(new, family) /\ (new # <<>> <=> i \in met)
     \/ i = Len(items) + 1 /\ i' = 1 /\ pc' = next /\ UNCHANGED causes

\* A list of Blockers has one exactly when it is not empty.
LEMMA BlockersListed ==
  ASSUME NEW s, Blocking(s)
  PROVE  HasBlocker(s) <=> s # <<>>
<1>1. s = <<>> <=> Range(s) = {}
  BY OwnRange DEF Blocking, IsSequence
<1> QED
  BY <1>1, HasBlockerRange DEF Blocking

\* analyze.go:328, extended.go:26-63.
LEMMA ExtendedTurn ==
  ASSUME IInv, CheckExtended
  PROVE  Turn("extended", ExtNames, "spread", ExtendedTitles, ExtendedMet,
              AnalyzeExtendedResources(ExtNames[i], in.pod, eligible, in.chain))
<1> DEFINE items == ExtNames
           new == AnalyzeExtendedResources(ExtNames[i], in.pod, eligible, in.chain)
<1>1. pc = "extended" /\ UNCHANGED <<in, tally>> /\ TypeOK /\ LoopInv /\ IndexInv /\ StageInv
  BY DEF CheckExtended, CheckItems, IInv
<1>2. /\ in \in Inputs /\ eligible \in Seq(Range(in.nodes)) /\ Range(eligible) = Candidates(in)
      /\ i \in Nat \ {0}
  BY <1>1, StageFacts DEF AfterCapacity, AfterExtended
<1>3. Len(items) \in Nat /\ DOMAIN items = 1..Len(items) /\ i <= Len(items) + 1
  BY <1>1, <1>2, ExtNamesAssumption DEF IndexInv
<1>4. CASE i <= Len(items)
  <2>1. causes' = causes \o new /\ i' = i + 1 /\ pc' = pc
    <3>1. ~(i > Len(items))
      BY <1>2, <1>3, <1>4
    <3> QED
      BY <3>1, Zenon DEF CheckExtended, CheckItems
  <2>2. items[i] \in Range(items) /\ i \in DOMAIN items
    BY <1>2, <1>3, <1>4 DEF Range
  <2>3. Reports(new, ExtendedTitles) /\ Blocking(new) /\ (HasBlocker(new) <=> i \in ExtendedMet)
    BY <1>2, <2>2, ExtendedReports, ExtendedBlocking, ExtendedFaithful DEF ExtendedMet
  <2>4. (new # <<>> <=> i \in ExtendedMet) /\ i \in 1..Len(items) /\ ExtendedMet \subseteq 1..Len(items)
    BY <1>2, <1>3, <1>4, <2>3, BlockersListed DEF ExtendedMet
  <2> HIDE DEF new
  <2>5. Turn("extended", items, "spread", ExtendedTitles, ExtendedMet, new)
    <3> HIDE DEF items
    <3> QED
      BY <1>1, <1>2, <1>3, <2>1, <2>3, <2>4 DEF Turn
  <2> QED
    BY <2>5 DEF new
<1>5. CASE i > Len(items)
  <2>1. causes' = causes /\ i' = 1 /\ pc' = "spread" /\ i = Len(items) + 1
    BY <1>2, <1>3, <1>5 DEF CheckExtended, CheckItems
  <2> HIDE DEF new
  <2> QED
    BY <1>1, <1>2, <1>3, <2>1 DEF Turn, ExtendedMet
<1> QED
  BY <1>2, <1>3, <1>4, <1>5

\* analyze.go:339, topology.go:76-143.
LEMMA SpreadTurn ==
  ASSUME IInv, CheckSpread
  PROVE  Turn("spread", in.pod.spread, "affinity", SpreadTitles, SpreadMet,
              AnalyzeTopologySpread(in.pod.spread[i], in.pod, in.nodes, eligible, in.placed))
<1> DEFINE items == in.pod.spread
           new == AnalyzeTopologySpread(in.pod.spread[i], in.pod, in.nodes, eligible, in.placed)
<1>1. pc = "spread" /\ UNCHANGED <<in, tally>> /\ TypeOK /\ LoopInv /\ IndexInv /\ StageInv
  BY DEF CheckSpread, CheckItems, IInv
<1>2. /\ in \in Inputs /\ eligible \in Seq(Range(in.nodes)) /\ Range(eligible) = Candidates(in)
      /\ i \in Nat \ {0}
  BY <1>1, StageFacts DEF AfterCapacity, AfterExtended, AfterSpread, AfterAffinity, AfterAntiAffinity,
     AfterClaims
<1>3. Len(items) \in Nat /\ DOMAIN items = 1..Len(items) /\ i <= Len(items) + 1
  BY <1>1, <1>2, InputsAssumption DEF IndexInv, IsSequence, WellFormed, WellFormedPod
<1>4. CASE i <= Len(items)
  <2>1. causes' = causes \o new /\ i' = i + 1 /\ pc' = pc
    <3>1. ~(i > Len(items))
      BY <1>2, <1>3, <1>4
    <3> QED
      BY <3>1, Zenon DEF CheckSpread, CheckItems
  <2>2. items[i] \in Range(items) /\ i \in DOMAIN items
    BY <1>2, <1>3, <1>4 DEF Range
  <2>3. Reports(new, SpreadTitles) /\ Blocking(new) /\ (HasBlocker(new) <=> i \in SpreadMet)
    BY <1>2, <2>2, SpreadReports, SpreadBlocking, SpreadFaithful DEF SpreadMet
  <2>4. (new # <<>> <=> i \in SpreadMet) /\ i \in 1..Len(items) /\ SpreadMet \subseteq 1..Len(items)
    BY <1>2, <1>3, <1>4, <2>3, BlockersListed DEF SpreadMet
  <2> HIDE DEF new
  <2>5. Turn("spread", items, "affinity", SpreadTitles, SpreadMet, new)
    <3> HIDE DEF items
    <3> QED
      BY <1>1, <1>2, <1>3, <2>1, <2>3, <2>4 DEF Turn
  <2> QED
    BY <2>5 DEF new
<1>5. CASE i > Len(items)
  <2>1. causes' = causes /\ i' = 1 /\ pc' = "affinity" /\ i = Len(items) + 1
    BY <1>2, <1>3, <1>5 DEF CheckSpread, CheckItems
  <2> HIDE DEF new
  <2> QED
    BY <1>1, <1>2, <1>3, <2>1 DEF Turn, SpreadMet
<1> QED
  BY <1>2, <1>3, <1>4, <1>5

\* analyze.go:340, topology.go:186-197.
LEMMA AffinityTurn ==
  ASSUME IInv, CheckAffinity
  PROVE  Turn("affinity", in.pod.affinity, "antiAffinity", AffinityTitles, AffinityMet,
              affinityCauses(in.pod.affinity[i], in.pod, eligible, in.placed))
<1> DEFINE items == in.pod.affinity
           new == affinityCauses(in.pod.affinity[i], in.pod, eligible, in.placed)
<1>1. pc = "affinity" /\ UNCHANGED <<in, tally>> /\ TypeOK /\ LoopInv /\ IndexInv /\ StageInv
  BY DEF CheckAffinity, CheckItems, IInv
<1>2. /\ in \in Inputs /\ eligible \in Seq(Range(in.nodes)) /\ Range(eligible) = Candidates(in)
      /\ i \in Nat \ {0}
  BY <1>1, StageFacts DEF AfterCapacity, AfterExtended, AfterSpread, AfterAffinity, AfterAntiAffinity,
     AfterClaims
<1>3. Len(items) \in Nat /\ DOMAIN items = 1..Len(items) /\ i <= Len(items) + 1
  BY <1>1, <1>2, InputsAssumption DEF IndexInv, IsSequence, WellFormed, WellFormedPod
<1>4. CASE i <= Len(items)
  <2>1. causes' = causes \o new /\ i' = i + 1 /\ pc' = pc
    <3>1. ~(i > Len(items))
      BY <1>2, <1>3, <1>4
    <3> QED
      BY <3>1, Zenon DEF CheckAffinity, CheckItems
  <2>2. items[i] \in Range(items) /\ i \in DOMAIN items
    BY <1>2, <1>3, <1>4 DEF Range
  <2>3. Reports(new, AffinityTitles) /\ Blocking(new) /\ (HasBlocker(new) <=> i \in AffinityMet)
    BY <1>2, <2>2, AffinityReports, AffinityBlocking, AffinityFaithful DEF AffinityMet
  <2>4. (new # <<>> <=> i \in AffinityMet) /\ i \in 1..Len(items) /\ AffinityMet \subseteq 1..Len(items)
    BY <1>2, <1>3, <1>4, <2>3, BlockersListed DEF AffinityMet
  <2> HIDE DEF new
  <2>5. Turn("affinity", items, "antiAffinity", AffinityTitles, AffinityMet, new)
    <3> HIDE DEF items
    <3> QED
      BY <1>1, <1>2, <1>3, <2>1, <2>3, <2>4 DEF Turn
  <2> QED
    BY <2>5 DEF new
<1>5. CASE i > Len(items)
  <2>1. causes' = causes /\ i' = 1 /\ pc' = "antiAffinity" /\ i = Len(items) + 1
    BY <1>2, <1>3, <1>5 DEF CheckAffinity, CheckItems
  <2> HIDE DEF new
  <2> QED
    BY <1>1, <1>2, <1>3, <2>1 DEF Turn, AffinityMet
<1> QED
  BY <1>2, <1>3, <1>4, <1>5

\* analyze.go:340, topology.go:199-212.
LEMMA AntiAffinityTurn ==
  ASSUME IInv, CheckAntiAffinity
  PROVE  Turn("antiAffinity", in.pod.antiAffinity, "claims", AntiAffinityTitles, AntiAffinityMet,
              antiAffinityCauses(in.pod.antiAffinity[i], in.pod, eligible, in.placed))
<1> DEFINE items == in.pod.antiAffinity
           new == antiAffinityCauses(in.pod.antiAffinity[i], in.pod, eligible, in.placed)
<1>1. pc = "antiAffinity" /\ UNCHANGED <<in, tally>> /\ TypeOK /\ LoopInv /\ IndexInv /\ StageInv
  BY DEF CheckAntiAffinity, CheckItems, IInv
<1>2. /\ in \in Inputs /\ eligible \in Seq(Range(in.nodes)) /\ Range(eligible) = Candidates(in)
      /\ i \in Nat \ {0}
  BY <1>1, StageFacts DEF AfterCapacity, AfterExtended, AfterSpread, AfterAffinity, AfterAntiAffinity,
     AfterClaims
<1>3. Len(items) \in Nat /\ DOMAIN items = 1..Len(items) /\ i <= Len(items) + 1
  BY <1>1, <1>2, InputsAssumption DEF IndexInv, IsSequence, WellFormed, WellFormedPod
<1>4. CASE i <= Len(items)
  <2>1. causes' = causes \o new /\ i' = i + 1 /\ pc' = pc
    <3>1. ~(i > Len(items))
      BY <1>2, <1>3, <1>4
    <3> QED
      BY <3>1, Zenon DEF CheckAntiAffinity, CheckItems
  <2>2. items[i] \in Range(items) /\ i \in DOMAIN items
    BY <1>2, <1>3, <1>4 DEF Range
  <2>3. Reports(new, AntiAffinityTitles) /\ Blocking(new) /\ (HasBlocker(new) <=> i \in AntiAffinityMet)
    BY <1>2, <2>2, AffinityReports, AffinityBlocking, AffinityFaithful DEF AntiAffinityMet
  <2>4. (new # <<>> <=> i \in AntiAffinityMet) /\ i \in 1..Len(items) /\ AntiAffinityMet \subseteq 1..Len(items)
    BY <1>2, <1>3, <1>4, <2>3, BlockersListed DEF AntiAffinityMet
  <2> HIDE DEF new
  <2>5. Turn("antiAffinity", items, "claims", AntiAffinityTitles, AntiAffinityMet, new)
    <3> HIDE DEF items
    <3> QED
      BY <1>1, <1>2, <1>3, <2>1, <2>3, <2>4 DEF Turn
  <2> QED
    BY <2>5 DEF new
<1>5. CASE i > Len(items)
  <2>1. causes' = causes /\ i' = 1 /\ pc' = "claims" /\ i = Len(items) + 1
    BY <1>2, <1>3, <1>5 DEF CheckAntiAffinity, CheckItems
  <2> HIDE DEF new
  <2> QED
    BY <1>1, <1>2, <1>3, <2>1 DEF Turn, AntiAffinityMet
<1> QED
  BY <1>2, <1>3, <1>4, <1>5

\* analyze.go:345, dra.go:62-87.
LEMMA ClaimsTurn ==
  ASSUME IInv, CheckClaims
  PROVE  Turn("claims", in.pod.resourceClaims, "conclude", ClaimTitles, ClaimsMet,
              AnalyzeDRA(in.pod.resourceClaims[i], in.pod, in.dra))
<1> DEFINE items == in.pod.resourceClaims
           new == AnalyzeDRA(in.pod.resourceClaims[i], in.pod, in.dra)
<1>1. pc = "claims" /\ UNCHANGED <<in, tally>> /\ TypeOK /\ LoopInv /\ IndexInv /\ StageInv
  BY DEF CheckClaims, CheckItems, IInv
<1>2. /\ in \in Inputs /\ eligible \in Seq(Range(in.nodes)) /\ Range(eligible) = Candidates(in)
      /\ i \in Nat \ {0}
  BY <1>1, StageFacts DEF AfterCapacity, AfterExtended, AfterSpread, AfterAffinity, AfterAntiAffinity,
     AfterClaims
<1>3. Len(items) \in Nat /\ DOMAIN items = 1..Len(items) /\ i <= Len(items) + 1
  BY <1>1, <1>2, InputsAssumption DEF IndexInv, IsSequence, WellFormed, WellFormedPod
<1>4. CASE i <= Len(items)
  <2>1. causes' = causes \o new /\ i' = i + 1 /\ pc' = pc
    <3>1. ~(i > Len(items))
      BY <1>2, <1>3, <1>4
    <3> QED
      BY <3>1, Zenon DEF CheckClaims, CheckItems
  <2>2. items[i] \in Range(items) /\ i \in DOMAIN items
    BY <1>2, <1>3, <1>4 DEF Range
  <2>3. Reports(new, ClaimTitles) /\ Blocking(new) /\ (HasBlocker(new) <=> i \in ClaimsMet)
    BY <1>2, <2>2, ClaimsReport, ClaimsBlocking, ClaimsFaithful DEF ClaimsMet
  <2>4. (new # <<>> <=> i \in ClaimsMet) /\ i \in 1..Len(items) /\ ClaimsMet \subseteq 1..Len(items)
    BY <1>2, <1>3, <1>4, <2>3, BlockersListed DEF ClaimsMet
  <2> HIDE DEF new
  <2>5. Turn("claims", items, "conclude", ClaimTitles, ClaimsMet, new)
    <3> HIDE DEF items
    <3> QED
      BY <1>1, <1>2, <1>3, <2>1, <2>3, <2>4 DEF Turn
  <2> QED
    BY <2>5 DEF new
<1>5. CASE i > Len(items)
  <2>1. causes' = causes /\ i' = 1 /\ pc' = "conclude" /\ i = Len(items) + 1
    BY <1>2, <1>3, <1>5 DEF CheckClaims, CheckItems
  <2> HIDE DEF new
  <2> QED
    BY <1>1, <1>2, <1>3, <2>1 DEF Turn, ClaimsMet
<1> QED
  BY <1>2, <1>3, <1>4, <1>5

-----------------------------------------------------------------------------
(* How many causes of a kind a list has *)

hits(s, family) == {k \in DOMAIN s : s[k].title \in family}

number(s, family) == Cardinality(hits(s, family))

\* The positions of a list are finitely many.
LEMMA HitsFinite ==
  ASSUME NEW s, IsSequence(s), NEW family
  PROVE  IsFiniteSet(hits(s, family)) /\ number(s, family) \in Nat
<1>1. Len(s) \in Nat /\ DOMAIN s = 1..Len(s)
  BY DEF IsSequence
<1>2. IsFiniteSet(1..Len(s)) /\ hits(s, family) \subseteq 1..Len(s)
  BY <1>1, FS_Interval DEF hits
<1>3. IsFiniteSet(hits(s, family))
  BY <1>2, FS_Subset
<1> QED
  BY <1>3, FS_CardinalityType DEF number

\* A list without a cause of the kind adds none, and a single cause of the kind adds one.
LEMMA NumberConcat ==
  ASSUME NEW s, IsSequence(s), NEW t, IsSequence(t), NEW family
  PROVE  /\ (\A c \in Range(t) : c.title \notin family) => number(s \o t, family) = number(s, family)
         /\ \A c : t = <<c>> /\ c.title \in family => number(s \o t, family) = number(s, family) + 1
<1>1. /\ Len(s) \in Nat /\ Len(t) \in Nat /\ DOMAIN s = 1..Len(s) /\ DOMAIN t = 1..Len(t)
      /\ s \in Seq(Range(s)) /\ t \in Seq(Range(t))
  BY DEF IsSequence
<1>2. DOMAIN (s \o t) = 1..(Len(s) + Len(t))
  BY <1>1, ConcatLists DEF IsSequence
<1>3. /\ \A k \in 1..Len(s) : (s \o t)[k] = s[k]
      /\ \A k \in 1..Len(t) : (s \o t)[Len(s) + k] = t[k]
  BY <1>1
<1>4. ASSUME NEW k \in 1..(Len(s) + Len(t)), k \notin 1..Len(s)
      PROVE  k - Len(s) \in 1..Len(t) /\ (s \o t)[k] = t[k - Len(s)] /\ t[k - Len(s)] \in Range(t)
  <2>1. k - Len(s) \in 1..Len(t) /\ Len(s) + (k - Len(s)) = k
    BY <1>1, <1>4
  <2> QED
    BY <1>1, <1>3, <2>1 DEF Range
<1>5. 1..Len(s) \subseteq 1..(Len(s) + Len(t))
  BY <1>1
<1>6. ASSUME \A c \in Range(t) : c.title \notin family
      PROVE  number(s \o t, family) = number(s, family)
  <2>1. hits(s \o t, family) = hits(s, family)
    BY <1>1, <1>2, <1>3, <1>4, <1>5, <1>6 DEF hits
  <2> QED
    BY <2>1 DEF number
<1>7. ASSUME NEW c, t = <<c>>, c.title \in family
      PROVE  number(s \o t, family) = number(s, family) + 1
  <2>1. Len(t) = 1 /\ t[1] = c
    BY <1>7
  <2>2. hits(s \o t, family) = hits(s, family) \cup {Len(s) + 1}
    <3>1. 1..(Len(s) + Len(t)) = (1..Len(s)) \cup {Len(s) + 1}
      BY <1>1, <2>1
    <3>2. (s \o t)[Len(s) + 1] = c
      BY <1>3, <2>1
    <3> QED
      BY <1>1, <1>2, <1>3, <1>7, <3>1, <3>2 DEF hits
  <2>3. Len(s) + 1 \notin hits(s, family)
    BY <1>1 DEF hits
  <2> QED
    BY <2>2, <2>3, HitsFinite, FS_AddElement DEF number
<1> QED
  BY <1>6, <1>7

\* Sorting changes no number.
LEMMA NumberSorted ==
  ASSUME NEW s, IsSequence(s), NEW sorted \in sortCauses(s), NEW family
  PROVE  number(sorted, family) = number(s, family)
<1>1. PICK p \in Bijection(DOMAIN s, DOMAIN s) : sorted = [k \in DOMAIN s |-> s[p[k]]]
  BY DEF sortCauses
<1>2. /\ p \in [DOMAIN s -> DOMAIN s] /\ \A w \in DOMAIN s : \E v \in DOMAIN s : p[v] = w
      /\ \A a, b \in DOMAIN s : p[a] = p[b] => a = b
  BY <1>1 DEF Bijection, Surjection, Injection, IsInjective
<1> DEFINE q == [k \in hits(sorted, family) |-> p[k]]
<1>3. /\ DOMAIN sorted = DOMAIN s
      /\ \A k \in DOMAIN s : k \in hits(sorted, family) <=> p[k] \in hits(s, family)
      /\ hits(sorted, family) \subseteq DOMAIN s /\ hits(s, family) \subseteq DOMAIN s
  BY <1>1, <1>2 DEF hits
<1>4. q \in [hits(sorted, family) -> hits(s, family)]
  BY <1>3
<1>5. \A a, b \in hits(sorted, family) : q[a] = q[b] => a = b
  BY <1>2, <1>3
<1>6. \A w \in hits(s, family) : \E v \in hits(sorted, family) : q[v] = w
  BY <1>2, <1>3
<1> HIDE DEF q
<1>7. q \in Bijection(hits(sorted, family), hits(s, family))
  BY <1>4, <1>5, <1>6 DEF Bijection, Surjection, Injection, IsInjective
<1>8. IsSequence(sorted)
  BY SortKeepsCauses
<1> QED
  BY <1>7, <1>8, HitsFinite, FS_Bijection DEF ExistsBijection, number

\* One more position has one more member of a set, or none.
LEMMA OneMore ==
  ASSUME NEW T, NEW n \in Nat
  PROVE  /\ Cardinality(T \cap (1..n)) \in Nat
         /\ n + 1 \in T => Cardinality(T \cap (1..(n + 1))) = Cardinality(T \cap (1..n)) + 1
         /\ n + 1 \notin T => Cardinality(T \cap (1..(n + 1))) = Cardinality(T \cap (1..n))
<1>1. IsFiniteSet(T \cap (1..n))
  <2>1. IsFiniteSet(1..n)
    BY FS_Interval
  <2> QED
    BY <2>1, FS_Subset
<1>2. 1..(n + 1) = (1..n) \cup {n + 1} /\ n + 1 \notin 1..n
  OBVIOUS
<1>3. n + 1 \in T => T \cap (1..(n + 1)) = (T \cap (1..n)) \cup {n + 1} /\ n + 1 \notin T \cap (1..n)
  BY <1>2
<1>4. n + 1 \notin T => T \cap (1..(n + 1)) = T \cap (1..n)
  BY <1>2
<1> QED
  BY <1>1, <1>3, <1>4, FS_AddElement, FS_CardinalityType

\* A list for one item counts the item if it obstructs, and touches no other number.
LEMMA ItemCounts ==
  ASSUME NEW s, IsSequence(s), NEW new, IsSequence(new), NEW family, Single(new, family),
         NEW met, NEW n \in Nat, new # <<>> <=> n + 1 \in met,
         number(s, family) = Cardinality(met \cap (1..n))
  PROVE  /\ number(s \o new, family) = Cardinality(met \cap (1..(n + 1)))
         /\ \A other : (\A title \in other : title \notin family)
              => number(s \o new, other) = number(s, other)
<1>1. CASE new = <<>>
  <2>1. \A other : number(s \o new, other) = number(s, other)
    BY <1>1, NumberConcat, ShortLists
  <2>2. Cardinality(met \cap (1..(n + 1))) = Cardinality(met \cap (1..n))
    BY <1>1, OneMore
  <2> QED
    BY <2>1, <2>2
<1>2. CASE new # <<>>
  <2>1. PICK c : new = <<c>> /\ c.title \in family
    BY <1>2 DEF Single
  <2>2. number(s \o new, family) = number(s, family) + 1
    BY <2>1, NumberConcat
  <2>3. Cardinality(met \cap (1..(n + 1))) = Cardinality(met \cap (1..n)) + 1
    BY <1>2, OneMore
  <2>4. ASSUME NEW other, \A title \in other : title \notin family
        PROVE  number(s \o new, other) = number(s, other)
    <3>1. \A d \in Range(new) : d.title \notin other
      BY <2>1, <2>4, ShortLists
    <3> QED
      BY <3>1, NumberConcat
  <2> QED
    BY <2>2, <2>3, <2>4
<1> QED
  BY <1>1, <1>2

-----------------------------------------------------------------------------
(* One cause for one obstacle *)

ExtendedTurned     == turned("extended", ExtNames, AfterExtended)
SpreadTurned       == turned("spread", in.pod.spread, AfterSpread)
AffinityTurned     == turned("affinity", in.pod.affinity, AfterAffinity)
AntiAffinityTurned == turned("antiAffinity", in.pod.antiAffinity, AfterAntiAffinity)
ClaimsTurned       == turned("claims", in.pod.resourceClaims, AfterClaims)

\* Before the causes are sorted, each kind has one cause per obstacle checked so far.
Counted ==
  /\ number(causes, ExtendedTitles) = Cardinality(ExtendedMet \cap (1..ExtendedTurned))
  /\ number(causes, SpreadTitles) = Cardinality(SpreadMet \cap (1..SpreadTurned))
  /\ number(causes, AffinityTitles) = Cardinality(AffinityMet \cap (1..AffinityTurned))
  /\ number(causes, AntiAffinityTitles) = Cardinality(AntiAffinityMet \cap (1..AntiAffinityTurned))
  /\ number(causes, ClaimTitles) = Cardinality(ClaimsMet \cap (1..ClaimsTurned))

CountInv == (pc # "done" => Counted) /\ CausesMatchObstacles

\* No title belongs to two kinds.
LEMMA KindsDisjoint ==
  /\ \A t \in ExtendedTitles : t \notin SpreadTitles /\ t \notin AffinityTitles
       /\ t \notin AntiAffinityTitles /\ t \notin ClaimTitles
  /\ \A t \in SpreadTitles : t \notin ExtendedTitles /\ t \notin AffinityTitles
       /\ t \notin AntiAffinityTitles /\ t \notin ClaimTitles
  /\ \A t \in AffinityTitles : t \notin ExtendedTitles /\ t \notin SpreadTitles
       /\ t \notin AntiAffinityTitles /\ t \notin ClaimTitles
  /\ \A t \in AntiAffinityTitles : t \notin ExtendedTitles /\ t \notin SpreadTitles
       /\ t \notin AffinityTitles /\ t \notin ClaimTitles
  /\ \A t \in ClaimTitles : t \notin ExtendedTitles /\ t \notin SpreadTitles
       /\ t \notin AffinityTitles /\ t \notin AntiAffinityTitles
BY DEF ExtendedTitles, SpreadTitles, AffinityTitles, AntiAffinityTitles, ClaimTitles

\* What obstructs the pod is a matter of the Input.
LEMMA MetFrame ==
  ASSUME in' = in
  PROVE  /\ ExtendedMet' = ExtendedMet /\ SpreadMet' = SpreadMet /\ AffinityMet' = AffinityMet
         /\ AntiAffinityMet' = AntiAffinityMet /\ ClaimsMet' = ClaimsMet
BY DEF ExtendedMet, SpreadMet, AffinityMet, AntiAffinityMet, ClaimsMet

\* Nothing has been counted before the first of the later stages.
LEMMA CountEarly ==
  ASSUME Counted, IsSequence(causes), in' = in, Adds(causes, causes'),
         pc \in {"pvcs", "nodes", "filters", "capacity"},
         \/ pc' \in {"pvcs", "nodes", "filters", "capacity"}
         \/ (pc' = "extended" /\ i' = 1)
  PROVE  Counted'
<1>1. /\ ExtendedTurned = 0 /\ SpreadTurned = 0 /\ AffinityTurned = 0
      /\ AntiAffinityTurned = 0 /\ ClaimsTurned = 0
      /\ ExtendedTurned' = 0 /\ SpreadTurned' = 0 /\ AffinityTurned' = 0
      /\ AntiAffinityTurned' = 0 /\ ClaimsTurned' = 0
  BY DEF ExtendedTurned, SpreadTurned, AffinityTurned, AntiAffinityTurned, ClaimsTurned, turned,
     AfterExtended, AfterSpread, AfterAffinity, AfterAntiAffinity, AfterClaims
<1>2. PICK new : Plain(new) /\ causes' = causes \o new
  BY DEF Adds
<1>3. ASSUME NEW family \in SUBSET StageTitles
      PROVE  number(causes', family) = number(causes, family)
  <2>1. IsSequence(new) /\ \A c \in Range(new) : c.title \notin family
    BY <1>2 DEF Plain, Told
  <2> QED
    BY <1>2, <2>1, NumberConcat
<1>4. /\ ExtendedTitles \subseteq StageTitles /\ SpreadTitles \subseteq StageTitles
      /\ AffinityTitles \subseteq StageTitles /\ AntiAffinityTitles \subseteq StageTitles
      /\ ClaimTitles \subseteq StageTitles
  BY DEF StageTitles
<1> QED
  BY <1>1, <1>3, <1>4, MetFrame DEF Counted

\* analyze.go:328, extended.go:46-62.
LEMMA CountExtended ==
  ASSUME IInv, Counted, CheckExtended
  PROVE  Counted'
<1> DEFINE new == AnalyzeExtendedResources(ExtNames[i], in.pod, eligible, in.chain)
<1>1. Turn("extended", ExtNames, "spread", ExtendedTitles, ExtendedMet, new)
  BY ExtendedTurn
<1> HIDE DEF new
<1>2. /\ IsSequence(causes) /\ pc = "extended" /\ in' = in /\ i - 1 \in Nat /\ (i - 1) + 1 = i
      /\ Len(ExtNames) \in Nat
  BY <1>1 DEF Turn, IInv, TypeOK
<1> USE DEF AfterExtended, AfterSpread, AfterAffinity, AfterAntiAffinity, AfterClaims
<1>3. ExtendedTurned = i - 1
  BY <1>2 DEF ExtendedTurned, turned
<1>4. pc' = "extended" \/ (pc' = "spread" /\ i' = 1)
  BY <1>1 DEF Turn
<1>5. /\ SpreadTurned = 0 /\ SpreadTurned' = 0
      /\ AffinityTurned = 0 /\ AffinityTurned' = 0
      /\ AntiAffinityTurned = 0 /\ AntiAffinityTurned' = 0
      /\ ClaimsTurned = 0 /\ ClaimsTurned' = 0
  BY <1>2, <1>4 DEF SpreadTurned, AffinityTurned, AntiAffinityTurned, ClaimsTurned, turned
<1>6. CASE i = Len(ExtNames) + 1 /\ i' = 1 /\ pc' = "spread" /\ UNCHANGED causes
  <2>1. ExtendedTurned' = ExtendedTurned
    BY <1>2, <1>3, <1>6 DEF ExtendedTurned, turned
  <2> QED
    BY <1>2, <1>5, <1>6, <2>1, MetFrame DEF Counted
<1>7. CASE /\ i' = i + 1 /\ pc' = "extended" /\ causes' = causes \o new
           /\ Reports(new, ExtendedTitles) /\ (new # <<>> <=> i \in ExtendedMet)
  <2>1. ExtendedTurned' = i
    BY <1>2, <1>7 DEF ExtendedTurned, turned
  <2>2. IsSequence(new) /\ Single(new, ExtendedTitles)
    BY <1>7 DEF Reports, Told
  <2>3. number(causes, ExtendedTitles) = Cardinality(ExtendedMet \cap (1..(i - 1)))
    BY <1>3 DEF Counted
  <2>4. /\ number(causes \o new, ExtendedTitles) = Cardinality(ExtendedMet \cap (1..((i - 1) + 1)))
        /\ \A other : (\A title \in other : title \notin ExtendedTitles)
             => number(causes \o new, other) = number(causes, other)
    <3> DEFINE n == i - 1
    <3>1. /\ IsSequence(causes) /\ n \in Nat /\ (new # <<>> <=> n + 1 \in ExtendedMet)
          /\ number(causes, ExtendedTitles) = Cardinality(ExtendedMet \cap (1..n))
      BY <1>2, <1>7, <2>3
    <3> HIDE DEF n
    <3>2. /\ number(causes \o new, ExtendedTitles) = Cardinality(ExtendedMet \cap (1..(n + 1)))
          /\ \A other : (\A title \in other : title \notin ExtendedTitles)
               => number(causes \o new, other) = number(causes, other)
      BY <2>2, <3>1, ItemCounts
    <3> QED
      BY <3>2 DEF n
  <2>5. /\ number(causes', SpreadTitles) = number(causes, SpreadTitles)
        /\ number(causes', AffinityTitles) = number(causes, AffinityTitles)
        /\ number(causes', AntiAffinityTitles) = number(causes, AntiAffinityTitles)
        /\ number(causes', ClaimTitles) = number(causes, ClaimTitles)
    BY <1>7, <2>4, KindsDisjoint
  <2>6. number(causes', ExtendedTitles) = Cardinality(ExtendedMet \cap (1..ExtendedTurned'))
    BY <1>2, <1>7, <2>1, <2>4
  <2> QED
    BY <1>2, <1>5, <2>5, <2>6, MetFrame DEF Counted
<1> QED
  BY <1>1, <1>6, <1>7 DEF Turn

\* analyze.go:339, topology.go:99-141.
LEMMA CountSpread ==
  ASSUME IInv, Counted, CheckSpread
  PROVE  Counted'
<1> DEFINE new == AnalyzeTopologySpread(in.pod.spread[i], in.pod, in.nodes, eligible, in.placed)
<1>1. Turn("spread", in.pod.spread, "affinity", SpreadTitles, SpreadMet, new)
  BY SpreadTurn
<1> HIDE DEF new
<1>2. /\ IsSequence(causes) /\ pc = "spread" /\ in' = in /\ i - 1 \in Nat /\ (i - 1) + 1 = i
      /\ Len(in.pod.spread) \in Nat
  BY <1>1 DEF Turn, IInv, TypeOK
<1> USE DEF AfterExtended, AfterSpread, AfterAffinity, AfterAntiAffinity, AfterClaims
<1>3. SpreadTurned = i - 1
  BY <1>2 DEF SpreadTurned, turned
<1>4. pc' = "spread" \/ (pc' = "affinity" /\ i' = 1)
  BY <1>1 DEF Turn
<1>5. /\ ExtendedTurned' = ExtendedTurned
      /\ AffinityTurned = 0 /\ AffinityTurned' = 0
      /\ AntiAffinityTurned = 0 /\ AntiAffinityTurned' = 0
      /\ ClaimsTurned = 0 /\ ClaimsTurned' = 0
  BY <1>2, <1>4 DEF ExtendedTurned, AffinityTurned, AntiAffinityTurned, ClaimsTurned, turned
<1>6. CASE i = Len(in.pod.spread) + 1 /\ i' = 1 /\ pc' = "affinity" /\ UNCHANGED causes
  <2>1. SpreadTurned' = SpreadTurned
    BY <1>2, <1>3, <1>6 DEF SpreadTurned, turned
  <2> QED
    BY <1>2, <1>5, <1>6, <2>1, MetFrame DEF Counted
<1>7. CASE /\ i' = i + 1 /\ pc' = "spread" /\ causes' = causes \o new
           /\ Reports(new, SpreadTitles) /\ (new # <<>> <=> i \in SpreadMet)
  <2>1. SpreadTurned' = i
    BY <1>2, <1>7 DEF SpreadTurned, turned
  <2>2. IsSequence(new) /\ Single(new, SpreadTitles)
    BY <1>7 DEF Reports, Told
  <2>3. number(causes, SpreadTitles) = Cardinality(SpreadMet \cap (1..(i - 1)))
    BY <1>3 DEF Counted
  <2>4. /\ number(causes \o new, SpreadTitles) = Cardinality(SpreadMet \cap (1..((i - 1) + 1)))
        /\ \A other : (\A title \in other : title \notin SpreadTitles)
             => number(causes \o new, other) = number(causes, other)
    <3> DEFINE n == i - 1
    <3>1. /\ IsSequence(causes) /\ n \in Nat /\ (new # <<>> <=> n + 1 \in SpreadMet)
          /\ number(causes, SpreadTitles) = Cardinality(SpreadMet \cap (1..n))
      BY <1>2, <1>7, <2>3
    <3> HIDE DEF n
    <3>2. /\ number(causes \o new, SpreadTitles) = Cardinality(SpreadMet \cap (1..(n + 1)))
          /\ \A other : (\A title \in other : title \notin SpreadTitles)
               => number(causes \o new, other) = number(causes, other)
      BY <2>2, <3>1, ItemCounts
    <3> QED
      BY <3>2 DEF n
  <2>5. /\ number(causes', ExtendedTitles) = number(causes, ExtendedTitles)
        /\ number(causes', AffinityTitles) = number(causes, AffinityTitles)
        /\ number(causes', AntiAffinityTitles) = number(causes, AntiAffinityTitles)
        /\ number(causes', ClaimTitles) = number(causes, ClaimTitles)
    BY <1>7, <2>4, KindsDisjoint
  <2>6. number(causes', SpreadTitles) = Cardinality(SpreadMet \cap (1..SpreadTurned'))
    BY <1>2, <1>7, <2>1, <2>4
  <2> QED
    BY <1>2, <1>5, <2>5, <2>6, MetFrame DEF Counted
<1> QED
  BY <1>1, <1>6, <1>7 DEF Turn

\* analyze.go:340, topology.go:186-197.
LEMMA CountAffinity ==
  ASSUME IInv, Counted, CheckAffinity
  PROVE  Counted'
<1> DEFINE new == affinityCauses(in.pod.affinity[i], in.pod, eligible, in.placed)
<1>1. Turn("affinity", in.pod.affinity, "antiAffinity", AffinityTitles, AffinityMet, new)
  BY AffinityTurn
<1> HIDE DEF new
<1>2. /\ IsSequence(causes) /\ pc = "affinity" /\ in' = in /\ i - 1 \in Nat /\ (i - 1) + 1 = i
      /\ Len(in.pod.affinity) \in Nat
  BY <1>1 DEF Turn, IInv, TypeOK
<1> USE DEF AfterExtended, AfterSpread, AfterAffinity, AfterAntiAffinity, AfterClaims
<1>3. AffinityTurned = i - 1
  BY <1>2 DEF AffinityTurned, turned
<1>4. pc' = "affinity" \/ (pc' = "antiAffinity" /\ i' = 1)
  BY <1>1 DEF Turn
<1>5. /\ ExtendedTurned' = ExtendedTurned
      /\ SpreadTurned' = SpreadTurned
      /\ AntiAffinityTurned = 0 /\ AntiAffinityTurned' = 0
      /\ ClaimsTurned = 0 /\ ClaimsTurned' = 0
  BY <1>2, <1>4 DEF ExtendedTurned, SpreadTurned, AntiAffinityTurned, ClaimsTurned, turned
<1>6. CASE i = Len(in.pod.affinity) + 1 /\ i' = 1 /\ pc' = "antiAffinity" /\ UNCHANGED causes
  <2>1. AffinityTurned' = AffinityTurned
    BY <1>2, <1>3, <1>6 DEF AffinityTurned, turned
  <2> QED
    BY <1>2, <1>5, <1>6, <2>1, MetFrame DEF Counted
<1>7. CASE /\ i' = i + 1 /\ pc' = "affinity" /\ causes' = causes \o new
           /\ Reports(new, AffinityTitles) /\ (new # <<>> <=> i \in AffinityMet)
  <2>1. AffinityTurned' = i
    BY <1>2, <1>7 DEF AffinityTurned, turned
  <2>2. IsSequence(new) /\ Single(new, AffinityTitles)
    BY <1>7 DEF Reports, Told
  <2>3. number(causes, AffinityTitles) = Cardinality(AffinityMet \cap (1..(i - 1)))
    BY <1>3 DEF Counted
  <2>4. /\ number(causes \o new, AffinityTitles) = Cardinality(AffinityMet \cap (1..((i - 1) + 1)))
        /\ \A other : (\A title \in other : title \notin AffinityTitles)
             => number(causes \o new, other) = number(causes, other)
    <3> DEFINE n == i - 1
    <3>1. /\ IsSequence(causes) /\ n \in Nat /\ (new # <<>> <=> n + 1 \in AffinityMet)
          /\ number(causes, AffinityTitles) = Cardinality(AffinityMet \cap (1..n))
      BY <1>2, <1>7, <2>3
    <3> HIDE DEF n
    <3>2. /\ number(causes \o new, AffinityTitles) = Cardinality(AffinityMet \cap (1..(n + 1)))
          /\ \A other : (\A title \in other : title \notin AffinityTitles)
               => number(causes \o new, other) = number(causes, other)
      BY <2>2, <3>1, ItemCounts
    <3> QED
      BY <3>2 DEF n
  <2>5. /\ number(causes', ExtendedTitles) = number(causes, ExtendedTitles)
        /\ number(causes', SpreadTitles) = number(causes, SpreadTitles)
        /\ number(causes', AntiAffinityTitles) = number(causes, AntiAffinityTitles)
        /\ number(causes', ClaimTitles) = number(causes, ClaimTitles)
    BY <1>7, <2>4, KindsDisjoint
  <2>6. number(causes', AffinityTitles) = Cardinality(AffinityMet \cap (1..AffinityTurned'))
    BY <1>2, <1>7, <2>1, <2>4
  <2> QED
    BY <1>2, <1>5, <2>5, <2>6, MetFrame DEF Counted
<1> QED
  BY <1>1, <1>6, <1>7 DEF Turn

\* analyze.go:340, topology.go:199-212.
LEMMA CountAntiAffinity ==
  ASSUME IInv, Counted, CheckAntiAffinity
  PROVE  Counted'
<1> DEFINE new == antiAffinityCauses(in.pod.antiAffinity[i], in.pod, eligible, in.placed)
<1>1. Turn("antiAffinity", in.pod.antiAffinity, "claims", AntiAffinityTitles, AntiAffinityMet, new)
  BY AntiAffinityTurn
<1> HIDE DEF new
<1>2. /\ IsSequence(causes) /\ pc = "antiAffinity" /\ in' = in /\ i - 1 \in Nat /\ (i - 1) + 1 = i
      /\ Len(in.pod.antiAffinity) \in Nat
  BY <1>1 DEF Turn, IInv, TypeOK
<1> USE DEF AfterExtended, AfterSpread, AfterAffinity, AfterAntiAffinity, AfterClaims
<1>3. AntiAffinityTurned = i - 1
  BY <1>2 DEF AntiAffinityTurned, turned
<1>4. pc' = "antiAffinity" \/ (pc' = "claims" /\ i' = 1)
  BY <1>1 DEF Turn
<1>5. /\ ExtendedTurned' = ExtendedTurned
      /\ SpreadTurned' = SpreadTurned
      /\ AffinityTurned' = AffinityTurned
      /\ ClaimsTurned = 0 /\ ClaimsTurned' = 0
  BY <1>2, <1>4 DEF ExtendedTurned, SpreadTurned, AffinityTurned, ClaimsTurned, turned
<1>6. CASE i = Len(in.pod.antiAffinity) + 1 /\ i' = 1 /\ pc' = "claims" /\ UNCHANGED causes
  <2>1. AntiAffinityTurned' = AntiAffinityTurned
    BY <1>2, <1>3, <1>6 DEF AntiAffinityTurned, turned
  <2> QED
    BY <1>2, <1>5, <1>6, <2>1, MetFrame DEF Counted
<1>7. CASE /\ i' = i + 1 /\ pc' = "antiAffinity" /\ causes' = causes \o new
           /\ Reports(new, AntiAffinityTitles) /\ (new # <<>> <=> i \in AntiAffinityMet)
  <2>1. AntiAffinityTurned' = i
    BY <1>2, <1>7 DEF AntiAffinityTurned, turned
  <2>2. IsSequence(new) /\ Single(new, AntiAffinityTitles)
    BY <1>7 DEF Reports, Told
  <2>3. number(causes, AntiAffinityTitles) = Cardinality(AntiAffinityMet \cap (1..(i - 1)))
    BY <1>3 DEF Counted
  <2>4. /\ number(causes \o new, AntiAffinityTitles) = Cardinality(AntiAffinityMet \cap (1..((i - 1) + 1)))
        /\ \A other : (\A title \in other : title \notin AntiAffinityTitles)
             => number(causes \o new, other) = number(causes, other)
    <3> DEFINE n == i - 1
    <3>1. /\ IsSequence(causes) /\ n \in Nat /\ (new # <<>> <=> n + 1 \in AntiAffinityMet)
          /\ number(causes, AntiAffinityTitles) = Cardinality(AntiAffinityMet \cap (1..n))
      BY <1>2, <1>7, <2>3
    <3> HIDE DEF n
    <3>2. /\ number(causes \o new, AntiAffinityTitles) = Cardinality(AntiAffinityMet \cap (1..(n + 1)))
          /\ \A other : (\A title \in other : title \notin AntiAffinityTitles)
               => number(causes \o new, other) = number(causes, other)
      BY <2>2, <3>1, ItemCounts
    <3> QED
      BY <3>2 DEF n
  <2>5. /\ number(causes', ExtendedTitles) = number(causes, ExtendedTitles)
        /\ number(causes', SpreadTitles) = number(causes, SpreadTitles)
        /\ number(causes', AffinityTitles) = number(causes, AffinityTitles)
        /\ number(causes', ClaimTitles) = number(causes, ClaimTitles)
    BY <1>7, <2>4, KindsDisjoint
  <2>6. number(causes', AntiAffinityTitles) = Cardinality(AntiAffinityMet \cap (1..AntiAffinityTurned'))
    BY <1>2, <1>7, <2>1, <2>4
  <2> QED
    BY <1>2, <1>5, <2>5, <2>6, MetFrame DEF Counted
<1> QED
  BY <1>1, <1>6, <1>7 DEF Turn

\* analyze.go:345, dra.go:64-86.
LEMMA CountClaims ==
  ASSUME IInv, Counted, CheckClaims
  PROVE  Counted'
<1> DEFINE new == AnalyzeDRA(in.pod.resourceClaims[i], in.pod, in.dra)
<1>1. Turn("claims", in.pod.resourceClaims, "conclude", ClaimTitles, ClaimsMet, new)
  BY ClaimsTurn
<1> HIDE DEF new
<1>2. /\ IsSequence(causes) /\ pc = "claims" /\ in' = in /\ i - 1 \in Nat /\ (i - 1) + 1 = i
      /\ Len(in.pod.resourceClaims) \in Nat
  BY <1>1 DEF Turn, IInv, TypeOK
<1> USE DEF AfterExtended, AfterSpread, AfterAffinity, AfterAntiAffinity, AfterClaims
<1>3. ClaimsTurned = i - 1
  BY <1>2 DEF ClaimsTurned, turned
<1>4. pc' = "claims" \/ (pc' = "conclude" /\ i' = 1)
  BY <1>1 DEF Turn
<1>5. /\ ExtendedTurned' = ExtendedTurned
      /\ SpreadTurned' = SpreadTurned
      /\ AffinityTurned' = AffinityTurned
      /\ AntiAffinityTurned' = AntiAffinityTurned
  BY <1>2, <1>4 DEF ExtendedTurned, SpreadTurned, AffinityTurned, AntiAffinityTurned, turned
<1>6. CASE i = Len(in.pod.resourceClaims) + 1 /\ i' = 1 /\ pc' = "conclude" /\ UNCHANGED causes
  <2>1. ClaimsTurned' = ClaimsTurned
    BY <1>2, <1>3, <1>6 DEF ClaimsTurned, turned
  <2> QED
    BY <1>2, <1>5, <1>6, <2>1, MetFrame DEF Counted
<1>7. CASE /\ i' = i + 1 /\ pc' = "claims" /\ causes' = causes \o new
           /\ Reports(new, ClaimTitles) /\ (new # <<>> <=> i \in ClaimsMet)
  <2>1. ClaimsTurned' = i
    BY <1>2, <1>7 DEF ClaimsTurned, turned
  <2>2. IsSequence(new) /\ Single(new, ClaimTitles)
    BY <1>7 DEF Reports, Told
  <2>3. number(causes, ClaimTitles) = Cardinality(ClaimsMet \cap (1..(i - 1)))
    BY <1>3 DEF Counted
  <2>4. /\ number(causes \o new, ClaimTitles) = Cardinality(ClaimsMet \cap (1..((i - 1) + 1)))
        /\ \A other : (\A title \in other : title \notin ClaimTitles)
             => number(causes \o new, other) = number(causes, other)
    <3> DEFINE n == i - 1
    <3>1. /\ IsSequence(causes) /\ n \in Nat /\ (new # <<>> <=> n + 1 \in ClaimsMet)
          /\ number(causes, ClaimTitles) = Cardinality(ClaimsMet \cap (1..n))
      BY <1>2, <1>7, <2>3
    <3> HIDE DEF n
    <3>2. /\ number(causes \o new, ClaimTitles) = Cardinality(ClaimsMet \cap (1..(n + 1)))
          /\ \A other : (\A title \in other : title \notin ClaimTitles)
               => number(causes \o new, other) = number(causes, other)
      BY <2>2, <3>1, ItemCounts
    <3> QED
      BY <3>2 DEF n
  <2>5. /\ number(causes', ExtendedTitles) = number(causes, ExtendedTitles)
        /\ number(causes', SpreadTitles) = number(causes, SpreadTitles)
        /\ number(causes', AffinityTitles) = number(causes, AffinityTitles)
        /\ number(causes', AntiAffinityTitles) = number(causes, AntiAffinityTitles)
    BY <1>7, <2>4, KindsDisjoint
  <2>6. number(causes', ClaimTitles) = Cardinality(ClaimsMet \cap (1..ClaimsTurned'))
    BY <1>2, <1>7, <2>1, <2>4
  <2> QED
    BY <1>2, <1>5, <2>5, <2>6, MetFrame DEF Counted
<1> QED
  BY <1>1, <1>6, <1>7 DEF Turn

\* The conclusion is in no kind, and the sort changes no number.
LEMMA CountConclude ==
  ASSUME IInv, Counted, Conclude
  PROVE  CausesMatchObstacles'
<1> USE DEF AfterCapacity, AfterExtended, AfterSpread, AfterAffinity, AfterAntiAffinity, AfterClaims
<1>1. pc = "conclude" /\ in' = in /\ causes' \in sortCauses(conclusion)
  BY DEF Conclude
<1>2. in \in Inputs /\ IsSequence(causes)
  BY DEF IInv, TypeOK
<1>3. IsSequence(conclusion) /\ \A family \in SUBSET StageTitles :
        number(conclusion, family) = number(causes, family)
  <2>1. CASE causes # <<>>
    BY <1>2, <2>1 DEF conclusion
  <2>2. CASE causes = <<>>
    <3>1. PICK c : conclusion = <<c>> /\ c.title \notin StageTitles
      <4>1. /\ Cause(Info, "LooksLikeItFits", "", fit).title \notin StageTitles
            /\ Cause(Info, "Undetermined", "", 0).title \notin StageTitles
        BY DEF Cause, StageTitles, ExtendedTitles, SpreadTitles, AffinityTitles, AntiAffinityTitles,
           ClaimTitles
      <4>2. \/ conclusion = <<Cause(Info, "LooksLikeItFits", "", fit)>>
            \/ conclusion = <<Cause(Info, "Undetermined", "", 0)>>
        BY <2>2, Zenon DEF conclusion
      <4> QED
        BY <4>1, <4>2
    <3>2. IsSequence(<<c>>) /\ \A d \in Range(<<c>>) : d.title \notin StageTitles
      BY <3>1, ShortLists
    <3>3. \A family \in SUBSET StageTitles : number(causes \o <<c>>, family) = number(causes, family)
      BY <1>2, <3>2, NumberConcat
    <3>4. causes \o <<c>> = <<c>>
      BY <2>2, <3>2, ConcatEmptySeq DEF IsSequence
    <3> QED
      BY <3>1, <3>2, <3>3, <3>4
  <2> QED
    BY <2>1, <2>2
<1>4. \A family \in SUBSET StageTitles : number(causes', family) = number(causes, family)
  BY <1>1, <1>3, NumberSorted
<1>5. /\ ExtendedTitles \in SUBSET StageTitles /\ SpreadTitles \in SUBSET StageTitles
      /\ AffinityTitles \in SUBSET StageTitles /\ AntiAffinityTitles \in SUBSET StageTitles
      /\ ClaimTitles \in SUBSET StageTitles
  BY DEF StageTitles
<1>6. /\ DOMAIN ExtNames = 1..Len(ExtNames)
      /\ DOMAIN in.pod.spread = 1..Len(in.pod.spread)
      /\ DOMAIN in.pod.affinity = 1..Len(in.pod.affinity)
      /\ DOMAIN in.pod.antiAffinity = 1..Len(in.pod.antiAffinity)
      /\ DOMAIN in.pod.resourceClaims = 1..Len(in.pod.resourceClaims)
  BY <1>2, ExtNamesAssumption, InputsAssumption DEF IsSequence, WellFormed, WellFormedPod
<1>7. /\ ExtendedMet \cap (1..ExtendedTurned) = ExtendedMet
      /\ SpreadMet \cap (1..SpreadTurned) = SpreadMet
      /\ AffinityMet \cap (1..AffinityTurned) = AffinityMet
      /\ AntiAffinityMet \cap (1..AntiAffinityTurned) = AntiAffinityMet
      /\ ClaimsMet \cap (1..ClaimsTurned) = ClaimsMet
  <2>1. /\ ExtendedTurned = Len(ExtNames) /\ SpreadTurned = Len(in.pod.spread)
        /\ AffinityTurned = Len(in.pod.affinity) /\ AntiAffinityTurned = Len(in.pod.antiAffinity)
        /\ ClaimsTurned = Len(in.pod.resourceClaims)
    BY <1>1 DEF ExtendedTurned, SpreadTurned, AffinityTurned, AntiAffinityTurned, ClaimsTurned, turned
  <2> QED
    BY <1>6, <2>1 DEF ExtendedMet, SpreadMet, AffinityMet, AntiAffinityMet, ClaimsMet
<1>8. /\ number(causes', ExtendedTitles) = Cardinality(ExtendedMet')
      /\ number(causes', SpreadTitles) = Cardinality(SpreadMet')
      /\ number(causes', AffinityTitles) = Cardinality(AffinityMet')
      /\ number(causes', AntiAffinityTitles) = Cardinality(AntiAffinityMet')
      /\ number(causes', ClaimTitles) = Cardinality(ClaimsMet')
  BY <1>1, <1>4, <1>5, <1>7, MetFrame DEF Counted
<1> QED
  BY <1>8 DEF CausesMatchObstacles, reported, countOf, number, hits, ExtendedMet, SpreadMet, AffinityMet,
     AntiAffinityMet, ClaimsMet, ExtendedTitles, SpreadTitles, AffinityTitles, AntiAffinityTitles, ClaimTitles

-----------------------------------------------------------------------------
(* The invariant is inductive *)

\* All that is needed of a state to say that its causes are true.
Inv == IInv /\ TallyInv /\ TruthInv /\ CountInv

\* What a cause says is said of the Input.
LEMMA SoundFrame ==
  ASSUME in' = in, NEW cause
  PROVE  Sound(cause)' <=> Sound(cause)
<1>1. /\ Request' = Request /\ \A kind : freeInTotal(kind)' = freeInTotal(kind)
  BY DEF Request, freeInTotal, freeUpTo
<1>2. \A c, nv : breaksSkew(c, nv)' <=> breaksSkew(c, nv)
  BY DEF breaksSkew, placedOn, weightIn
<1>3. \A c : (noPlacementLeft(c)' <=> noPlacementLeft(c)) /\ (blames(cause, c)' <=> blames(cause, c))
  BY <1>2 DEF noPlacementLeft, blames
<1> QED
  BY <1>1, <1>3 DEF Sound

\* True causes that are added before the end keep the causes true.
LEMMA TruthGrows ==
  ASSUME TypeOK, TruthInv, in' = in, pc # "done", pc' # "done",
         NEW new, Told(new), causes' = causes \o new
  PROVE  TruthInv'
<1>1. Range(causes') = Range(causes) \cup Range(new)
  BY ConcatLists DEF TypeOK, Told
<1>2. \A cause \in Range(causes') : Sound(cause) /\ cause.title # "LooksLikeItFits"
  BY <1>1 DEF TruthInv, Told
<1>3. \A cause \in Range(causes') : Sound(cause)'
  BY <1>2, SoundFrame
<1> QED
  BY <1>2, <1>3 DEF TruthInv, NeverEmptyNorContradictory

\* A turn of a later loop adds true causes.
LEMMA TurnTold ==
  ASSUME IsSequence(causes), NEW stage, NEW next, NEW items, NEW family, NEW met, NEW new,
         stage # "done", next # "done", Turn(stage, items, next, family, met, new)
  PROVE  /\ pc # "done" /\ pc' # "done" /\ in' = in
         /\ \E added : Told(added) /\ causes' = causes \o added
<1>1. pc = stage /\ in' = in /\ (pc' = stage \/ pc' = next)
  BY DEF Turn
<1>2. \/ causes' = causes \o new /\ Told(new)
      \/ causes' = causes
  BY DEF Turn, Reports
<1>3. causes = causes \o <<>> /\ Told(<<>>)
  BY ToldLists, ConcatEmptySeq DEF IsSequence, Plain
<1> QED
  BY <1>1, <1>2, <1>3

\* Before its end the analysis only adds causes, all of them true.
LEMMA StepsAdd ==
  ASSUME Inv, Next, pc' # "done"
  PROVE  /\ pc # "done" /\ in' = in
         /\ \E added : Told(added) /\ causes' = causes \o added
<1>1. IInv /\ TypeOK /\ LoopInv /\ TallyInv /\ IsSequence(causes)
  BY DEF Inv, IInv, TypeOK
<1>2. causes = causes \o <<>> /\ Told(<<>>)
  BY <1>1, ToldLists, ConcatEmptySeq DEF IsSequence, Plain
<1>3. ASSUME Adds(causes, causes')
      PROVE  \E added : Told(added) /\ causes' = causes \o added
  BY <1>3 DEF Adds, Plain
<1>4. CASE ReportPVCs
  <2>1. pc # "done" /\ in' = in
    BY <1>4 DEF ReportPVCs
  <2> QED
    BY <1>1, <1>3, <1>4, <2>1, AddsPVCs
<1>5. CASE RejectNode \/ AdmitNode
  <2>1. pc # "done" /\ in' = in /\ causes' = causes
    BY <1>5 DEF RejectNode, AdmitNode
  <2> QED
    BY <1>2, <2>1
<1>6. CASE FinishNodes
  <2>1. pc # "done" /\ in' = in /\ causes' = causes
    BY <1>6 DEF FinishNodes
  <2> QED
    BY <1>2, <2>1
<1>7. CASE ReportFilters
  <2>1. pc # "done" /\ in' = in
    BY <1>7 DEF ReportFilters
  <2> QED
    BY <1>1, <1>3, <1>7, <2>1, AddsFilters
<1>8. CASE AnalyzeCapacity
  <2>1. pc # "done" /\ in' = in
    BY <1>8 DEF AnalyzeCapacity
  <2> QED
    BY <1>1, <1>3, <1>8, <2>1, AddsCapacity
<1>9. CASE CheckExtended
  BY <1>1, <1>9, ExtendedTurn, TurnTold
<1>10. CASE CheckSpread
  BY <1>1, <1>10, SpreadTurn, TurnTold
<1>11. CASE CheckAffinity
  BY <1>1, <1>11, AffinityTurn, TurnTold
<1>12. CASE CheckAntiAffinity
  BY <1>1, <1>12, AntiAffinityTurn, TurnTold
<1>13. CASE CheckClaims
  BY <1>1, <1>13, ClaimsTurn, TurnTold
<1>14. ~Conclude /\ ~Done
  BY DEF Conclude, Done, vars
<1> QED
  BY <1>4, <1>5, <1>6, <1>7, <1>8, <1>9, <1>10, <1>11, <1>12, <1>13, <1>14 DEF Next

\* analyze.go:228-237: that there are no nodes is true, and the last thing said.
LEMMA TruthFinish ==
  ASSUME TypeOK, TruthInv, FinishNodes, pc' = "done"
  PROVE  TruthInv'
<1> DEFINE none == Cause(Blocker, "NoNodes", "", 0)
<1>1. in' = in /\ pc # "done" /\ causes' \in sortCauses(Append(causes, none))
  BY DEF FinishNodes
<1>2. none.title = "NoNodes"
  BY DEF Cause
<1>3. Sound(none)
  BY SoundCause DEF NotAdvertised
<1> HIDE DEF none
<1>4. IsSequence(Append(causes, none)) /\ Range(Append(causes, none)) = Range(causes) \cup {none}
  BY AppendToList DEF TypeOK
<1>5. IsSequence(causes') /\ Range(causes') = Range(causes) \cup {none}
  BY <1>1, <1>4, SortKeepsCauses
<1>6. \A cause \in Range(causes') : Sound(cause)' /\ cause.title # "LooksLikeItFits"
  BY <1>1, <1>2, <1>3, <1>5, SoundFrame DEF TruthInv
<1>7. causes' # <<>>
  BY <1>5, ShortLists
<1> QED
  BY <1>6, <1>7 DEF TruthInv, NeverEmptyNorContradictory, titles, Range

\* analyze.go:347-378: sorting keeps the causes, and only where there is none the pod is said to fit.
LEMMA TruthConclude ==
  ASSUME IInv, TruthInv, Conclude
  PROVE  TruthInv'
<1>1. pc = "conclude" /\ pc' = "done" /\ UNCHANGED <<in, fit>> /\ causes' \in sortCauses(conclusion)
  BY DEF Conclude, tally
<1>2. CASE causes # <<>>
  <2>1. conclusion = causes /\ IsSequence(causes)
    BY <1>2 DEF conclusion, IInv, TypeOK
  <2>2. IsSequence(causes') /\ Range(causes') = Range(causes)
    BY <1>1, <2>1, SortKeepsCauses
  <2>3. \A cause \in Range(causes') : Sound(cause)' /\ cause.title # "LooksLikeItFits"
    BY <1>1, <2>2, SoundFrame DEF TruthInv
  <2>4. causes' # <<>>
    <3>1. Range(causes) # {}
      BY <1>2, <2>1, OwnRange DEF IsSequence
    <3> QED
      BY <2>2, <3>1, ShortLists
  <2> QED
    BY <2>3, <2>4 DEF TruthInv, NeverEmptyNorContradictory, titles, Range
<1>3. CASE causes = <<>>
  <2> DEFINE fits == Cause(Info, "LooksLikeItFits", "", fit)
  <2>1. fit > 0
    <3>1. ~HasBlocker(causes)
      BY <1>3, BlockersOf
    <3>2. pc \in AfterCapacity
      BY <1>1 DEF AfterCapacity, AfterExtended, AfterSpread, AfterAffinity, AfterAntiAffinity, AfterClaims
    <3>3. ~ObstaclesSeen
      BY <3>1, <3>2, StageFacts DEF IInv
    <3> QED
      BY <1>1, <3>3, AfterLoop DEF IInv, ObstaclesSeen
  <2>2. conclusion = <<fits>>
    BY <1>3, <2>1, Zenon DEF conclusion
  <2>3. Sound(fits)
    BY SoundCause DEF NotAdvertised
  <2> HIDE DEF fits
  <2>4. IsSequence(<<fits>>) /\ Range(<<fits>>) = {fits} /\ Len(<<fits>>) = 1
    BY ShortLists
  <2>5. IsSequence(causes') /\ Range(causes') = {fits} /\ Len(causes') = 1
    BY <1>1, <2>2, <2>4, SortKeepsCauses
  <2>6. \A cause \in Range(causes') : Sound(cause)'
    BY <1>1, <2>3, <2>5, SoundFrame
  <2>7. causes' # <<>>
    BY <2>5, ShortLists
  <2> QED
    BY <1>1, <2>1, <2>5, <2>6, <2>7 DEF TruthInv, NeverEmptyNorContradictory
<1> QED
  BY <1>2, <1>3

\* Every step keeps the tallies those of the nodes seen.
LEMMA TallyNext == IInv /\ TallyInv /\ Next => TallyInv'
<1> SUFFICES ASSUME IInv, TallyInv, Next PROVE TallyInv'
  OBVIOUS
<1>1. TypeOK /\ LoopInv /\ IndexInv
  BY DEF IInv
<1>2. CASE RejectNode
  BY <1>1, <1>2, TallyReject
<1>3. CASE AdmitNode
  BY <1>1, <1>3, TallyAdmit
<1>4. CASE ~RejectNode /\ ~AdmitNode
  BY <1>1, <1>4, LoopOver, TallyFrame
<1> QED
  BY <1>2, <1>3, <1>4

\* Every step but the last keeps the causes true, and so does the last.
LEMMA TruthNext == Inv /\ Next => TruthInv'
<1> SUFFICES ASSUME Inv, Next PROVE TruthInv'
  OBVIOUS
<1>1. IInv /\ TypeOK /\ TruthInv
  BY DEF Inv, IInv
<1>2. CASE pc' # "done"
  <2>1. PICK added : Told(added) /\ causes' = causes \o added
    BY <1>2, StepsAdd
  <2> QED
    BY <1>1, <1>2, <2>1, StepsAdd, TruthGrows
<1>3. CASE pc' = "done"
  <2>1. FinishNodes \/ Conclude \/ Done
    BY <1>3 DEF Next, ReportPVCs, RejectNode, AdmitNode, ReportFilters, AnalyzeCapacity,
       CheckExtended, CheckSpread, CheckAffinity, CheckAntiAffinity, CheckClaims, CheckItems
  <2>2. CASE Done
    <3>1. in' = in /\ causes' = causes /\ pc' = pc /\ fit' = fit
      BY <2>2 DEF Done, vars, tally
    <3>2. \A cause : Sound(cause)' <=> Sound(cause)
      BY <3>1, SoundFrame
    <3> QED
      BY <1>1, <3>1, <3>2 DEF TruthInv, NeverEmptyNorContradictory, titles
  <2> QED
    BY <1>1, <1>3, <2>1, <2>2, TruthFinish, TruthConclude
<1> QED
  BY <1>2, <1>3

\* Every step keeps the count.
LEMMA CountNext == Inv /\ Next => CountInv'
<1> SUFFICES ASSUME Inv, Next PROVE CountInv'
  OBVIOUS
<1>1. IInv /\ TypeOK /\ LoopInv /\ IndexInv /\ TallyInv /\ CountInv /\ IsSequence(causes)
  BY DEF Inv, IInv, TypeOK
<1>2. CASE pc' # "done"
  <2>1. pc # "done" /\ in' = in
    BY <1>2, StepsAdd
  <2>2. Counted
    BY <1>1, <2>1 DEF CountInv
  <2>3. ASSUME ReportPVCs PROVE Counted'
    <3>1. pc = "pvcs" /\ pc' = "nodes"
      BY <2>3 DEF ReportPVCs
    <3> QED
      BY <1>1, <2>1, <2>2, <2>3, <3>1, AddsPVCs, CountEarly
  <2>4. ASSUME RejectNode \/ AdmitNode \/ FinishNodes PROVE Counted'
    <3>1. pc = "nodes" /\ pc' \in {"nodes", "filters"} /\ causes' = causes
      BY <1>2, <2>4 DEF RejectNode, AdmitNode, FinishNodes
    <3>2. Adds(causes, causes')
      BY <1>1, <3>1, AddsNothing
    <3> QED
      BY <1>1, <2>1, <2>2, <3>1, <3>2, CountEarly
  <2>5. ASSUME ReportFilters PROVE Counted'
    <3>1. pc = "filters" /\ pc' = "capacity"
      BY <2>5 DEF ReportFilters
    <3> QED
      BY <1>1, <2>1, <2>2, <2>5, <3>1, AddsFilters, CountEarly
  <2>6. ASSUME AnalyzeCapacity PROVE Counted'
    <3>1. pc = "capacity" /\ pc' = "extended" /\ i' = 1
      BY <1>1, <2>6 DEF AnalyzeCapacity, IndexInv
    <3> QED
      BY <1>1, <2>1, <2>2, <2>6, <3>1, AddsCapacity, CountEarly
  <2>7. Counted'
    <3>1. ~Conclude /\ ~Done
      BY <1>2, <2>1 DEF Conclude, Done, vars
    <3> QED
      BY <1>1, <2>2, <2>3, <2>4, <2>5, <2>6, <3>1, CountExtended, CountSpread, CountAffinity,
         CountAntiAffinity, CountClaims DEF Next
  <2> QED
    BY <1>2, <2>7 DEF CountInv, CausesMatchObstacles
<1>3. CASE pc' = "done"
  <2>1. CASE FinishNodes
    <3>1. in'.nodes = <<>>
      BY <1>3, <2>1 DEF FinishNodes
    <3> QED
      BY <1>3, <3>1 DEF CountInv, CausesMatchObstacles
  <2>2. CASE Conclude
    <3>1. Counted
      BY <1>1, <2>2 DEF CountInv, Conclude
    <3> QED
      BY <1>1, <1>3, <2>2, <3>1, CountConclude DEF CountInv
  <2>3. CASE Done
    <3>1. in' = in /\ causes' = causes /\ pc' = pc
      BY <2>3 DEF Done, vars
    <3>2. CausesMatchObstacles' <=> CausesMatchObstacles
      BY <3>1 DEF CausesMatchObstacles, reported, countOf
    <3> QED
      BY <1>1, <1>3, <3>2 DEF CountInv
  <2>4. FinishNodes \/ Conclude \/ Done
    BY <1>3 DEF Next, ReportPVCs, RejectNode, AdmitNode, ReportFilters, AnalyzeCapacity,
       CheckExtended, CheckSpread, CheckAffinity, CheckAntiAffinity, CheckClaims, CheckItems
  <2> QED
    BY <2>1, <2>2, <2>3, <2>4
<1> QED
  BY <1>2, <1>3

\* When Analyze is called there is nothing to tell and nothing to count.
LEMMA TruthInit == Init => Inv
<1> SUFFICES ASSUME Init PROVE Inv
  OBVIOUS
<1>1. IInv
  BY InvInit
<1>2. /\ in \in Inputs /\ pc = "pvcs" /\ i = 1 /\ causes = <<>> /\ eligible = <<>>
      /\ sumFree = [kind \in Basic |-> 0]
  BY DEF Init
<1>3. TallyInv
  <2>1. seen = 0 /\ Range(eligible) = {}
    BY <1>2, ShortLists DEF seen
  <2>2. \A kind \in Basic : freeUpTo(kind)[0] = 0
    BY <1>2, FreeRecursion
  <2> QED
    BY <1>2, <2>1, <2>2 DEF TallyInv
<1>4. TruthInv
  BY <1>2, ShortLists DEF TruthInv, NeverEmptyNorContradictory
<1>5. CountInv
  <2>1. \A family : number(causes, family) = 0
    <3>1. \A family : hits(causes, family) = {}
      BY <1>2 DEF hits
    <3> QED
      BY <3>1, FS_EmptySet DEF number
  <2>2. /\ ExtendedTurned = 0 /\ SpreadTurned = 0 /\ AffinityTurned = 0
        /\ AntiAffinityTurned = 0 /\ ClaimsTurned = 0
    BY <1>2 DEF ExtendedTurned, SpreadTurned, AffinityTurned, AntiAffinityTurned, ClaimsTurned, turned,
       AfterExtended, AfterSpread, AfterAffinity, AfterAntiAffinity, AfterClaims
  <2>3. 1..0 = {} /\ \A T : Cardinality(T \cap {}) = 0
    BY FS_EmptySet
  <2> QED
    BY <1>2, <2>1, <2>2, <2>3 DEF CountInv, Counted, CausesMatchObstacles
<1> QED
  BY <1>1, <1>3, <1>4, <1>5 DEF Inv

\* Every step keeps all of it.
LEMMA TruthStep == Inv /\ [Next]_vars => Inv'
<1> SUFFICES ASSUME Inv, [Next]_vars PROVE Inv'
  OBVIOUS
<1>1. IInv'
  BY InvNext DEF Inv
<1>2. CASE Next
  BY <1>1, <1>2, TallyNext, TruthNext, CountNext DEF Inv
<1>3. CASE UNCHANGED vars
  <2>1. UNCHANGED <<in, tally>> /\ UNCHANGED <<pc, i, causes, fit>>
    BY <1>3 DEF vars, tally
  <2>2. TallyInv'
    BY <2>1, TallyFrame DEF Inv, seen
  <2>3. TruthInv'
    <3>1. \A cause : Sound(cause)' <=> Sound(cause)
      BY <2>1, SoundFrame
    <3> QED
      BY <2>1, <3>1 DEF Inv, TruthInv, NeverEmptyNorContradictory, titles
  <2>4. CountInv'
    <3>1. CausesMatchObstacles' <=> CausesMatchObstacles
      BY <2>1 DEF CausesMatchObstacles, reported, countOf
    <3>2. Counted' <=> Counted
      BY <2>1, MetFrame DEF Counted, ExtendedTurned, SpreadTurned, AffinityTurned, AntiAffinityTurned,
         ClaimsTurned, turned
    <3> QED
      BY <2>1, <3>1, <3>2 DEF Inv, CountInv
  <2> QED
    BY <1>1, <2>2, <2>3, <2>4 DEF Inv
<1> QED
  BY <1>2, <1>3

\* Whatever the Input, the causes are true of it and match its obstacles one to one.
LEMMA Truthful == Spec => []Inv
BY TruthInit, TruthStep, PTL DEF Spec

-----------------------------------------------------------------------------
(* What follows *)

\* No diagnosis is empty, and one that finds that the pod should fit says nothing else.
THEOREM NeverContradicts == Spec => []NeverEmptyNorContradictory
<1>1. Inv => NeverEmptyNorContradictory
  BY DEF Inv, TruthInv
<1> QED
  BY <1>1, Truthful, PTL

\* analyze.go:285-325: whatever the tallies went through, a pod called larger than any node
\* fits no candidate even when empty, and fragmentation is reported only where there is room in total.
THEOREM CapacityTrue == Spec => []CapacityTruthful
<1>1. TruthInv => CapacityTruthful
  BY DEF TruthInv, CapacityTruthful, Sound, titles, Range
<1> QED
  BY <1>1, Truthful, PTL DEF Inv

\* extended.go:46-62: a component is blamed only if it is broken, and a resource is
\* called not advertised only if no candidate advertises it.
THEOREM ExtendedTrue == Spec => []ExtendedTruthful
<1>1. TruthInv => ExtendedTruthful
  BY DEF TruthInv, ExtendedTruthful, Sound, NotAdvertised, Range
<1> QED
  BY <1>1, Truthful, PTL DEF Inv

\* topology.go:99-141: after placing the pod on any candidate, a constraint that the cause
\* names, if it selects the pod, is above its maxSkew.
THEOREM SpreadTrue == Spec => []SpreadBlockerReal
<1>1. TruthInv => SpreadBlockerReal
  BY DEF TruthInv, SpreadBlockerReal, Sound
<1> QED
  BY <1>1, Truthful, PTL DEF Inv

\* Every obstacle of a later stage has one cause of its kind, and every such cause an obstacle.
THEOREM OneCausePerObstacle == Spec => []CausesMatchObstacles
<1>1. Inv => CausesMatchObstacles
  BY DEF Inv, CountInv
<1> QED
  BY <1>1, Truthful, PTL

\* A list that starts with another has it as a prefix.
LEMMA StartsWith ==
  ASSUME NEW s, NEW t, IsSequence(s), IsSequence(t), Len(s) <= Len(t),
         \A k \in 1..Len(s) : t[k] = s[k]
  PROVE  IsPrefix(s, t)
<1> DEFINE S == Range(s) \cup Range(t)
           a == SubSeq(s, 1, Len(s))
           b == SubSeq(t, 1, Len(s))
<1>1. /\ Len(s) \in Nat /\ Len(t) \in Nat
      /\ \A k \in 1..Len(s) : s[k] \in S /\ t[k] \in S
  BY DEF IsSequence, Range
<1>2. /\ a \in Seq(S) /\ Len(a) = IF 1 <= Len(s) THEN Len(s) - 1 + 1 ELSE 0
      /\ \A k \in 1..(Len(s) - 1 + 1) : a[k] = s[1 + k - 1]
  BY <1>1, SubSeqProperties
<1>3. /\ b \in Seq(S) /\ Len(b) = IF 1 <= Len(s) THEN Len(s) - 1 + 1 ELSE 0
      /\ \A k \in 1..(Len(s) - 1 + 1) : b[k] = t[1 + k - 1]
  BY <1>1, SubSeqProperties
<1> HIDE DEF a, b, S
<1>4. Len(a) = Len(s) /\ Len(b) = Len(s) /\ \A k \in 1..Len(a) : a[k] = b[k]
  BY <1>1, <1>2, <1>3
<1>5. a = b
  BY <1>2, <1>3, <1>4, SeqEqual
<1> QED
  BY <1>5 DEF IsPrefix, a, b

\* Lists only get longer.
LEMMA Longer ==
  ASSUME NEW s, IsSequence(s)
  PROVE  /\ IsPrefix(s, s)
         /\ \A e : IsPrefix(s, Append(s, e))
         /\ \A t : IsSequence(t) => IsPrefix(s, s \o t)
<1>1. Len(s) \in Nat /\ s \in Seq(Range(s))
  BY DEF IsSequence
<1>2. IsPrefix(s, s)
  BY <1>1, StartsWith
<1>3. ASSUME NEW e
      PROVE  IsPrefix(s, Append(s, e))
  <2> DEFINE longer == Append(s, e)
  <2>1. IsSequence(longer) /\ Len(s) <= Len(longer) /\ \A k \in 1..Len(s) : longer[k] = s[k]
    BY <1>1, AppendToList
  <2> HIDE DEF longer
  <2>2. IsPrefix(s, longer)
    BY <2>1, StartsWith
  <2> QED
    BY <2>2 DEF longer
<1>4. ASSUME NEW t, IsSequence(t)
      PROVE  IsPrefix(s, s \o t)
  <2>1. /\ IsSequence(s \o t) /\ Len(s \o t) = Len(s) + Len(t) /\ Len(t) \in Nat
        /\ t \in Seq(Range(t))
    BY <1>4, ConcatLists DEF IsSequence
  <2>2. \A k \in 1..Len(s) : (s \o t)[k] = s[k]
    BY <1>1, <2>1
  <2> DEFINE longer == s \o t
  <2>3. IsSequence(longer) /\ Len(s) <= Len(longer) /\ \A k \in 1..Len(s) : longer[k] = s[k]
    BY <1>1, <2>1, <2>2
  <2> HIDE DEF longer
  <2>4. IsPrefix(s, longer)
    BY <2>3, StartsWith
  <2> QED
    BY <2>4 DEF longer
<1> QED
  BY <1>2, <1>3, <1>4

\* What a step may do to the findings.
Keeps ==
  /\ IsPrefix(verdicts, verdicts')
  /\ pc' # "done" => IsPrefix(causes, causes')
  /\ \A k \in DOMAIN causes : causes[k] \in Range(causes')

\* Every step does that.
LEMMA StepsKeep == Inv /\ [Next]_vars => [Keeps]_vars
<1> SUFFICES ASSUME Inv, Next PROVE Keeps
  OBVIOUS
<1>1. IInv /\ TypeOK /\ IsSequence(causes) /\ IsSequence(verdicts)
  BY DEF Inv, IInv, TypeOK
<1>2. IsPrefix(verdicts, verdicts')
  <2>1. CASE RejectNode \/ AdmitNode
    <3>1. \E v : verdicts' = Append(verdicts, v)
      BY <2>1 DEF RejectNode, AdmitNode
    <3> QED
      BY <1>1, <3>1, Longer
  <2>2. CASE ~RejectNode /\ ~AdmitNode
    <3>1. verdicts' = verdicts
      BY <1>1, <2>2, LoopOver DEF IInv, tally
    <3> QED
      BY <1>1, <3>1, Longer
  <2> QED
    BY <2>1, <2>2
<1>3. CASE pc' # "done"
  <2>1. PICK added : Told(added) /\ causes' = causes \o added
    BY <1>3, StepsAdd
  <2>2. IsPrefix(causes, causes') /\ Range(causes) \subseteq Range(causes')
    BY <1>1, <2>1, Longer, ConcatLists DEF Told
  <2> QED
    BY <1>2, <2>2 DEF Keeps, Range
<1>4. CASE pc' = "done"
  <2>1. FinishNodes \/ Conclude \/ Done
    BY <1>4 DEF Next, ReportPVCs, RejectNode, AdmitNode, ReportFilters, AnalyzeCapacity,
       CheckExtended, CheckSpread, CheckAffinity, CheckAntiAffinity, CheckClaims, CheckItems
  <2>2. Range(causes) \subseteq Range(causes')
    <3>1. CASE FinishNodes
      <4> DEFINE none == Cause(Blocker, "NoNodes", "", 0)
      <4>1. causes' \in sortCauses(Append(causes, none))
        BY <1>4, <3>1 DEF FinishNodes
      <4> HIDE DEF none
      <4> QED
        BY <1>1, <4>1, AppendToList, SortKeepsCauses
    <3>2. CASE Conclude
      <4>1. causes' \in sortCauses(conclusion)
        BY <3>2 DEF Conclude
      <4>2. CASE causes = <<>>
        BY <4>2, ShortLists
      <4>3. CASE causes # <<>>
        BY <1>1, <4>1, <4>3, SortKeepsCauses DEF conclusion
      <4> QED
        BY <4>2, <4>3
    <3>3. CASE Done
      BY <3>3 DEF Done, vars
    <3> QED
      BY <2>1, <3>1, <3>2, <3>3
  <2> QED
    BY <1>2, <1>4, <2>2 DEF Keeps, Range
<1> QED
  BY <1>3, <1>4

\* analyze.go:97-378: no step revises a verdict, takes a cause back or, before the sort, moves one.
THEOREM KeepsFindings == Spec => FindingsKept
<1>1. Inv /\ [Next]_vars => [Keeps]_vars
  BY StepsKeep
<1> QED
  BY <1>1, Truthful, PTL DEF Spec, FindingsKept, Keeps

=============================================================================
