--------------------------- MODULE Analyze_proofs ---------------------------
(***************************************************************************)
(* Proofs about Analyze, for every value of the constants: any Inputs, any *)
(* number of nodes, constraints, terms, claims and extended resources.     *)
(* First its types, then that the diagnosis is faithful to the Input: what *)
(* Analyze computes step by step over sequences and tallies is what        *)
(* Obstacles says on sets.                                                 *)
(***************************************************************************)
EXTENDS Analyze, SequenceTheorems, TLAPS

-----------------------------------------------------------------------------
(* Lists of causes, seen as sets *)

\* A list put together from two lists has the elements of both.
LEMMA ConcatLists ==
  ASSUME NEW s, NEW t, IsSequence(s), IsSequence(t)
  PROVE  /\ IsSequence(s \o t)
         /\ Range(s \o t) = Range(s) \cup Range(t)
         /\ Len(s \o t) = Len(s) + Len(t)
<1>1. /\ s \in Seq(Range(s)) /\ t \in Seq(Range(t))
      /\ DOMAIN s = 1..Len(s) /\ DOMAIN t = 1..Len(t)
      /\ Len(s) \in Nat /\ Len(t) \in Nat
  BY DEF IsSequence
<1>2. s \o t \in Seq(Range(s) \cup Range(t))
  BY <1>1
<1>3. Len(s \o t) = Len(s) + Len(t) /\ DOMAIN (s \o t) = 1..(Len(s) + Len(t))
  BY <1>1, <1>2
<1>4. Range(s \o t) = Range(s) \cup Range(t)
  <2>1. ASSUME NEW k \in 1..(Len(s) + Len(t))
        PROVE  (s \o t)[k] \in Range(s) \cup Range(t)
    BY <1>2, <1>3, <2>1
  <2>2. ASSUME NEW k \in 1..Len(s)
        PROVE  k \in 1..(Len(s) + Len(t)) /\ (s \o t)[k] = s[k]
    BY <1>1
  <2>3. ASSUME NEW k \in 1..Len(t)
        PROVE  Len(s) + k \in 1..(Len(s) + Len(t)) /\ (s \o t)[Len(s) + k] = t[k]
    BY <1>1
  <2>4. Range(s) \subseteq Range(s \o t)
    BY <1>1, <1>3, <2>2 DEF Range
  <2>5. Range(t) \subseteq Range(s \o t)
    BY <1>1, <1>3, <2>3 DEF Range
  <2>6. Range(s \o t) \subseteq Range(s) \cup Range(t)
    BY <1>3, <2>1 DEF Range
  <2> QED
    BY <2>4, <2>5, <2>6
<1> QED
  BY <1>2, <1>3, <1>4 DEF IsSequence

\* The lists that the checks are made of.
LEMMA ShortLists ==
  ASSUME NEW c
  PROVE  /\ IsSequence(<<>>) /\ Range(<<>>) = {}
         /\ IsSequence(<<c>>) /\ Range(<<c>>) = {c}
<1>1. Range(<<>>) = {} /\ Range(<<c>>) = {c}
  BY DEF Range
<1> QED
  BY <1>1 DEF IsSequence

\* A check reports its cause, or nothing.
LEMMA CauseIfList ==
  ASSUME NEW cond, NEW c
  PROVE  /\ IsSequence(CauseIf(cond, c))
         /\ Range(CauseIf(cond, c)) = IF cond THEN {c} ELSE {}
<1>1. CASE cond
  BY <1>1, ShortLists DEF CauseIf
<1>2. CASE ~cond
  BY <1>2, ShortLists DEF CauseIf
<1> QED
  BY <1>1, <1>2

\* A list has a Blocker when one of its elements is one.
LEMMA HasBlockerRange ==
  ASSUME NEW s
  PROVE  HasBlocker(s) <=> \E c \in Range(s) : c.severity = Blocker
  BY DEF HasBlocker, Range

\* Sorting loses no cause and adds none.
LEMMA SortKeepsCauses ==
  ASSUME NEW s, IsSequence(s), NEW sorted \in sortCauses(s)
  PROVE  IsSequence(sorted) /\ Range(sorted) = Range(s) /\ Len(sorted) = Len(s)
<1>1. PICK p \in Bijection(DOMAIN s, DOMAIN s) : sorted = [k \in DOMAIN s |-> s[p[k]]]
  BY DEF sortCauses
<1>2. p \in [DOMAIN s -> DOMAIN s] /\ \A w \in DOMAIN s : \E v \in DOMAIN s : p[v] = w
  BY <1>1 DEF Bijection, Surjection, Injection
<1>3. s \in Seq(Range(s)) /\ Len(s) \in Nat /\ DOMAIN s = 1..Len(s)
  BY DEF IsSequence
<1>4. Range(sorted) = Range(s)
  BY <1>1, <1>2 DEF Range
<1>5. sorted \in [1..Len(s) -> Range(s)]
  BY <1>1, <1>2, <1>3
<1>6. sorted \in Seq(Range(s)) /\ Len(sorted) = Len(s)
  BY <1>3, <1>5
<1> QED
  BY <1>4, <1>6 DEF IsSequence

-----------------------------------------------------------------------------
(* What the checks of the later stages add *)

\* A list of Blockers that are not the fallback.
Blocking(s) ==
  IsSequence(s) /\ \A c \in Range(s) : c.severity = Blocker /\ c.title # "Undetermined"

\* The lists that the later stages are made of hold Blockers only.
LEMMA BlockingLists ==
  ASSUME NEW cond, NEW title, title # "Undetermined", NEW subject, NEW n
  PROVE  /\ Blocking(<<>>)
         /\ Blocking(<<Cause(Blocker, title, subject, n)>>)
         /\ Blocking(CauseIf(cond, Cause(Blocker, title, subject, n)))
  BY ShortLists, CauseIfList DEF Blocking, Cause

\* AnalyzeExtendedResources reports Blockers only (extended.go:46-62).
LEMMA ExtendedBlocking ==
  ASSUME NEW name, NEW pod, NEW views, NEW chain
  PROVE  Blocking(AnalyzeExtendedResources(name, pod, views, chain))
<1> DEFINE need == PodRequests(pod)[name]
<1>1. PICK title, n : /\ title # "Undetermined"
                      /\ extendedNotAdvertised(name, need, chain) = Cause(Blocker, title, name, n)
  BY DEF extendedNotAdvertised
<1>2. Blocking(<<extendedNotAdvertised(name, need, chain)>>)
  BY <1>1, BlockingLists
<1>3. Blocking(CauseIf(~ \E k \in advertisers(name, views) : serves(views[k], name, need),
                       Cause(Blocker, "InsufficientExtended", name, need)))
  BY BlockingLists
<1>4. CASE need <= 0
  BY <1>4, ShortLists DEF AnalyzeExtendedResources, Blocking
<1>5. CASE ~(need <= 0) /\ advertisers(name, views) = {}
  BY <1>2, <1>5, Zenon DEF AnalyzeExtendedResources
<1>6. CASE ~(need <= 0) /\ advertisers(name, views) # {}
  BY <1>3, <1>6, Zenon DEF AnalyzeExtendedResources
<1> QED
  BY <1>4, <1>5, <1>6

\* AnalyzeTopologySpread reports Blockers only (topology.go:99-141).
LEMMA SpreadBlocking ==
  ASSUME NEW c, NEW pod, NEW nodes, NEW views, NEW placed
  PROVE  Blocking(AnalyzeTopologySpread(c, pod, nodes, views, placed))
<1>1. Blocking(<<Cause(Blocker, "NoTopologyKey", c.key, 0)>>)
  BY BlockingLists
<1>2. Blocking(CauseIf(~feasible(c, pod, nodes, views, placed),
                       Cause(Blocker, "SpreadUnsatisfied", c.key, c.maxSkew)))
  BY BlockingLists DEF feasible
<1> QED
  BY <1>1, <1>2, BlockingLists DEF AnalyzeTopologySpread

\* AnalyzePodAffinity reports Blockers only (topology.go:186-212).
LEMMA AffinityBlocking ==
  ASSUME NEW t, NEW pod, NEW views, NEW placed
  PROVE  /\ Blocking(affinityCauses(t, pod, views, placed))
         /\ Blocking(antiAffinityCauses(t, pod, views, placed))
  BY BlockingLists DEF affinityCauses, antiAffinityCauses

\* AnalyzeDRA reports Blockers only (dra.go:64-86).
LEMMA ClaimsBlocking ==
  ASSUME NEW prc, NEW pod, NEW dra
  PROVE  Blocking(AnalyzeDRA(prc, pod, dra))
<1>1. ASSUME NEW name, NEW claim
      PROVE  Blocking(claimCauses(name, claim, dra))
  <2>1. PICK title : /\ title # "Undetermined"
                     /\ unallocatedClaimCause(name, claim, dra) = Cause(Blocker, title, name, 0)
    BY DEF unallocatedClaimCause
  <2> QED
    BY <2>1, BlockingLists DEF claimCauses
<1> DEFINE name == claimRef(pod, prc)
           found == claimsNamed(name, pod, dra)
<1>2. Blocking(<<Cause(Blocker, "ClaimNotCreated", prc.name, 0)>>)
  BY BlockingLists
<1>3. Blocking(<<Cause(Blocker, "ClaimNotFound", name, 0)>>)
  BY BlockingLists
<1>4. Blocking(claimCauses(name, CHOOSE claim \in found : TRUE, dra))
  BY <1>1
<1>5. CASE name = ""
  BY <1>2, <1>5, Zenon DEF AnalyzeDRA
<1>6. CASE name # "" /\ found = {}
  BY <1>3, <1>6, Zenon DEF AnalyzeDRA
<1>7. CASE name # "" /\ found # {}
  BY <1>4, <1>7, Zenon DEF AnalyzeDRA
<1> QED
  BY <1>5, <1>6, <1>7

\* What a step of a later stage does to the findings: it adds Blockers, or nothing.
Extends(stage, next) ==
  /\ pc = stage /\ pc' \in {stage, next} /\ i' \in {1, i + 1}
  /\ UNCHANGED <<in, tally>>
  /\ \E new : Blocking(new) /\ causes' = causes \o new

\* The stages after the capacity analysis only add Blockers, and touch no tally.
LEMMA LaterStages ==
  ASSUME TypeOK
  PROVE  /\ CheckExtended => Extends("extended", "spread")
         /\ CheckSpread => Extends("spread", "affinity")
         /\ CheckAffinity => Extends("affinity", "antiAffinity")
         /\ CheckAntiAffinity => Extends("antiAffinity", "claims")
         /\ CheckClaims => Extends("claims", "conclude")
<1>1. Blocking(<<>>) /\ causes = causes \o <<>>
  <2>1. causes \in Seq(Range(causes))
    BY DEF TypeOK, IsSequence
  <2> QED
    BY <2>1, ShortLists, ConcatEmptySeq DEF Blocking
<1>2. CheckExtended => Extends("extended", "spread")
  BY <1>1, ExtendedBlocking DEF CheckExtended, CheckItems, Extends
<1>3. CheckSpread => Extends("spread", "affinity")
  BY <1>1, SpreadBlocking DEF CheckSpread, CheckItems, Extends
<1>4. CheckAffinity => Extends("affinity", "antiAffinity")
  BY <1>1, AffinityBlocking DEF CheckAffinity, CheckItems, Extends
<1>5. CheckAntiAffinity => Extends("antiAffinity", "claims")
  BY <1>1, AffinityBlocking DEF CheckAntiAffinity, CheckItems, Extends
<1>6. CheckClaims => Extends("claims", "conclude")
  BY <1>1, ClaimsBlocking DEF CheckClaims, CheckItems, Extends
<1> QED
  BY <1>2, <1>3, <1>4, <1>5, <1>6

-----------------------------------------------------------------------------
(* Type correctness *)

\* Appending to a list adds one element and leaves the others where they are.
LEMMA AppendToList ==
  ASSUME NEW s, IsSequence(s), NEW e
  PROVE  /\ IsSequence(Append(s, e))
         /\ Range(Append(s, e)) = Range(s) \cup {e}
         /\ Len(Append(s, e)) = Len(s) + 1
         /\ \A k \in 1..Len(s) : Append(s, e)[k] = s[k]
         /\ Append(s, e)[Len(s) + 1] = e
<1>1. s \in Seq(Range(s) \cup {e}) /\ Len(s) \in Nat /\ DOMAIN s = 1..Len(s)
  BY DEF IsSequence
<1>2. /\ Append(s, e) \in Seq(Range(s) \cup {e})
      /\ Len(Append(s, e)) = Len(s) + 1
      /\ DOMAIN Append(s, e) = 1..(Len(s) + 1)
      /\ \A k \in 1..Len(s) : Append(s, e)[k] = s[k]
      /\ Append(s, e)[Len(s) + 1] = e
  BY <1>1
<1>3. Range(s) \cup {e} \subseteq Range(Append(s, e))
  BY <1>1, <1>2 DEF Range
<1>4. Range(Append(s, e)) \subseteq Range(s) \cup {e}
  BY <1>1, <1>2 DEF Range
<1> QED
  BY <1>2, <1>3, <1>4 DEF IsSequence

\* The filters, and the kinds that every node has.
LEMMA FilterNames ==
  /\ DOMAIN Filters = 1..5
  /\ Range(Filters) = {"cordoned", "notready", "taint", "selector", "affinity"}
  /\ Basic = {"cpu", "mem"}
<1>1. DOMAIN Filters = 1..5
  BY DEF Filters
<1> QED
  BY <1>1 DEF Filters, Range, Basic

\* What the assumption on Inputs says of the Input under analysis.
LEMMA InputFacts ==
  ASSUME in \in Inputs
  PROVE  /\ in.nodes \in Seq(Range(in.nodes))
         /\ Len(in.nodes) \in Nat /\ DOMAIN in.nodes = 1..Len(in.nodes)
         /\ \A k \in 1..Len(in.nodes) : in.nodes[k] \in Range(in.nodes)
         /\ \A kind \in Kinds : Request[kind] \in Nat
         /\ \A nv \in Range(in.nodes), kind \in Kinds :
              /\ Allocatable(nv)[kind] \in Nat /\ nv.used[kind] \in Nat
              /\ Free(nv, kind) \in Int
         /\ Basic \subseteq Kinds
<1>1. in.nodes \in Seq(Range(in.nodes))
  BY InputsAssumption DEF IsSequence, WellFormed, WellFormedPod, NamesUnique
<1>2. DOMAIN in.nodes = 1..Len(in.nodes) /\ Len(in.nodes) \in Nat
  BY <1>1
<1>3. \A k \in 1..Len(in.nodes) : in.nodes[k] \in Range(in.nodes)
  BY <1>2 DEF Range
<1>4. \A kind \in Kinds : Request[kind] \in Nat
  BY InputsAssumption DEF Request, WellFormed, WellFormedPod, NamesUnique
<1>5. \A nv \in Range(in.nodes), kind \in Kinds :
        Allocatable(nv)[kind] \in Nat /\ nv.used[kind] \in Nat
  BY InputsAssumption DEF WellFormed, WellFormedPod, NamesUnique
<1>6. \A nv \in Range(in.nodes), kind \in Kinds : Free(nv, kind) \in Int
  BY <1>5 DEF Free
<1> QED
  BY <1>1, <1>2, <1>3, <1>4, <1>5, <1>6 DEF Kinds

\* Analyze starts with every variable in its type.
LEMMA TypeInit == Init => TypeOK
<1> SUFFICES ASSUME Init PROVE TypeOK
  OBVIOUS
<1>1. IsSequence(verdicts) /\ IsSequence(causes)
      /\ Range(verdicts) = {} /\ Range(causes) = {}
  BY ShortLists DEF Init
<1>2. eligible \in Seq(Range(in.nodes))
  BY DEF Init
<1>3. /\ counts \in [Range(Filters) \cup Basic -> Nat]
      /\ maxAlloc \in [Basic -> Nat] /\ maxFree \in [Basic -> Nat] /\ sumFree \in [Basic -> Nat]
  BY DEF Init
<1> QED
  BY <1>1, <1>2, <1>3 DEF Init, TypeOK, Stages

\* Lists of causes that TypeOK admits, put together.
Findings(s) ==
  IsSequence(s) /\ \A c \in Range(s) : c.severity \in {Blocker, Warning, Info}

\* Findings put together are findings.
LEMMA FindingsLists ==
  ASSUME NEW s, NEW t
  PROVE  /\ Blocking(s) => Findings(s)
         /\ Findings(s) /\ Findings(t) => Findings(s \o t)
  BY ConcatLists DEF Blocking, Findings

\* A single cause of a known severity, alone or added, is a finding.
LEMMA FindingsOfOne ==
  ASSUME NEW severity \in {Blocker, Warning, Info}, NEW title, NEW subject, NEW n,
         NEW s, Findings(s), NEW cond
  PROVE  /\ Findings(<<Cause(severity, title, subject, n)>>)
         /\ Findings(Append(s, Cause(severity, title, subject, n)))
         /\ Findings(CauseIf(cond, Cause(severity, title, subject, n)))
<1> DEFINE c == Cause(severity, title, subject, n)
<1>1. c.severity \in {Blocker, Warning, Info}
  BY DEF Cause
<1> HIDE DEF c
<1>2. Findings(<<c>>)
  BY <1>1, ShortLists DEF Findings
<1>3. Findings(Append(s, c))
  BY <1>1, AppendToList DEF Findings
<1>4. Findings(CauseIf(cond, c))
  BY <1>1, CauseIfList DEF Findings
<1> QED
  BY <1>2, <1>3, <1>4 DEF c

\* Every step of Analyze keeps every variable in its type.
LEMMA TypeNext == TypeOK /\ [Next]_vars => TypeOK'
<1> SUFFICES ASSUME TypeOK, [Next]_vars PROVE TypeOK'
  OBVIOUS
<1> USE DEF Stages
<1>1. Findings(causes)
  BY DEF TypeOK, Findings
<1>2. ASSUME UNCHANGED <<in, tally>>, Findings(causes'), pc' \in Stages, i' \in Nat \ {0}
      PROVE  TypeOK'
  BY <1>2 DEF TypeOK, Findings, tally
<1>3. CASE ReportPVCs
  <2>1. /\ Findings(CauseIf(in.missingPVCs # {}, Cause(Blocker, "PVCNotFound", "", 0)))
        /\ Findings(CauseIf(in.unboundPVCs # {}, Cause(Blocker, "PVCUnbound", "", 0)))
    BY <1>1, FindingsOfOne
  <2>2. Findings(causes')
    BY <1>1, <1>3, <2>1, FindingsLists, Zenon DEF ReportPVCs
  <2> QED
    BY <1>2, <1>3, <2>2 DEF ReportPVCs, TypeOK
<1>4. CASE RejectNode
  <2>0. PICK f \in DOMAIN Filters :
          /\ counts' = [counts EXCEPT ![Filters[f]] = @ + 1]
          /\ \E node, bad : verdicts' = Append(verdicts, NodeVerdict(node, FALSE, Filters[f], bad))
    BY <1>4 DEF RejectNode
  <2>1. PICK node, bad :
          /\ counts' = [counts EXCEPT ![Filters[f]] = @ + 1]
          /\ verdicts' = Append(verdicts, NodeVerdict(node, FALSE, Filters[f], bad))
    BY <2>0
  <2>2. Filters[f] \in Range(Filters)
    BY DEF Range
  <2>3. counts' \in [Range(Filters) \cup Basic -> Nat]
    BY <2>1, <2>2 DEF TypeOK
  <2>4. /\ IsSequence(verdicts')
        /\ \A v \in Range(verdicts') : v.schedulable \in BOOLEAN /\ v.reason \in Reasons
    <3> DEFINE v == NodeVerdict(node, FALSE, Filters[f], bad)
    <3>1. v.schedulable \in BOOLEAN /\ v.reason \in Reasons
      BY <2>2 DEF NodeVerdict, Reasons
    <3> HIDE DEF v
    <3>2. verdicts' = Append(verdicts, v)
      BY <2>1 DEF v
    <3> QED
      BY <3>1, <3>2, AppendToList DEF TypeOK
  <2>5. i' = i + 1 /\ UNCHANGED <<in, pc, eligible, fit, maxAlloc, maxFree, sumFree, causes>>
    BY <1>4 DEF RejectNode
  <2> QED
    BY <2>3, <2>4, <2>5 DEF TypeOK
<1>5. CASE AdmitNode
  <2> DEFINE nv == in.nodes[i]
             lack == lacks(nv)
  <2>1. nv \in Range(in.nodes)
    BY <1>5, InputFacts DEF AdmitNode, TypeOK
  <2>2. ASSUME NEW kind \in Basic
        PROVE  Allocatable(nv)[kind] \in Nat /\ Free(nv, kind) \in Int
    BY <2>1, InputFacts DEF TypeOK
  <2>3. /\ maxAlloc' \in [Basic -> Nat]
        /\ maxFree' \in [Basic -> Nat]
        /\ sumFree' \in [Basic -> Nat]
    BY <1>5, <2>2 DEF AdmitNode, TypeOK, Larger, freeForTotal
  <2>4. counts' \in [Range(Filters) \cup Basic -> Nat]
    BY <1>5 DEF AdmitNode, TypeOK
  <2>5. fit' \in Nat
    BY <1>5 DEF AdmitNode, TypeOK
  <2>6. eligible' \in Seq(Range(in.nodes))
    BY <1>5, <2>1 DEF AdmitNode, TypeOK
  <2>7. PICK fits \in BOOLEAN, reason \in {"fits", "insufficient"} :
          verdicts' = Append(verdicts, NodeVerdict(nv, fits, reason, lack))
    <3>1. CASE lack = {}
      BY <1>5, <3>1, Zenon DEF AdmitNode
    <3>2. CASE lack # {}
      BY <1>5, <3>2, Zenon DEF AdmitNode
    <3> QED
      BY <3>1, <3>2
  <2>8. /\ IsSequence(verdicts')
        /\ \A v \in Range(verdicts') : v.schedulable \in BOOLEAN /\ v.reason \in Reasons
    BY <2>7, AppendToList DEF TypeOK, NodeVerdict, Reasons
  <2> QED
    BY <1>5, <2>3, <2>4, <2>5, <2>6, <2>8 DEF AdmitNode, TypeOK
<1>6. CASE FinishNodes
  <2>1. CASE in.nodes = <<>>
    <3>1. Findings(Append(causes, Cause(Blocker, "NoNodes", "", 0)))
      BY <1>1, FindingsOfOne
    <3>2. Findings(causes')
      BY <1>6, <2>1, <3>1, SortKeepsCauses DEF FinishNodes, Findings
    <3> QED
      <4>1. UNCHANGED <<in, tally>> /\ pc' = "done" /\ i' = 1
        BY <1>6, <2>1, Zenon DEF FinishNodes
      <4> QED
        BY <1>2, <3>2, <4>1
  <2>2. CASE in.nodes # <<>>
    BY <1>1, <1>2, <1>6, <2>2 DEF FinishNodes
  <2> QED
    BY <2>1, <2>2
<1>7. CASE ReportFilters
  <2>1. hardSeverity \in {Blocker, Warning, Info} /\ cordonSeverity \in {Blocker, Warning, Info}
    BY DEF hardSeverity, cordonSeverity, severityIf
  <2>2. /\ Findings(filterCause("notready", counts["notready"] > 0, hardSeverity))
        /\ Findings(filterCause("taint", taintSet # {}, hardSeverity))
        /\ Findings(filterCause("selector", counts["selector"] > 0, hardSeverity))
        /\ Findings(filterCause("affinity", counts["affinity"] > 0, hardSeverity))
        /\ Findings(filterCause("cordoned", counts["cordoned"] > 0, cordonSeverity))
    BY <1>1, <2>1, FindingsOfOne DEF filterCause
  <2>3. Findings(causes')
    BY <1>1, <1>7, <2>2, FindingsLists, Zenon DEF ReportFilters
  <2> QED
    BY <1>2, <1>7, <2>3 DEF ReportFilters, TypeOK
<1>8. CASE AnalyzeCapacity
  <2>1. Findings(CauseIf(eligible # <<>> /\ fit = 0,
                         Cause(Blocker, capacityTitle, "", Len(eligible))))
    BY <1>1, FindingsOfOne
  <2>2. Findings(causes')
    BY <1>1, <1>8, <2>1, FindingsLists, Zenon DEF AnalyzeCapacity
  <2> QED
    BY <1>2, <1>8, <2>2 DEF AnalyzeCapacity, TypeOK
<1>9. ASSUME NEW stage \in Stages, NEW next \in Stages, Extends(stage, next)
      PROVE  TypeOK'
  <2>1. Findings(causes')
    BY <1>1, <1>9, FindingsLists DEF Extends
  <2> QED
    BY <1>2, <1>9, <2>1 DEF Extends, TypeOK
<1>10. CASE CheckExtended \/ CheckSpread \/ CheckAffinity \/ CheckAntiAffinity \/ CheckClaims
  BY <1>9, <1>10, LaterStages
<1>11. CASE Conclude
  <2>1. Findings(conclusion)
    BY <1>1, FindingsOfOne DEF conclusion
  <2>2. Findings(causes')
    BY <1>11, <2>1, SortKeepsCauses DEF Conclude, Findings
  <2> QED
    BY <1>2, <1>11, <2>2 DEF Conclude, TypeOK
<1>12. CASE UNCHANGED vars
  BY <1>1, <1>2, <1>12 DEF vars, TypeOK
<1> QED
  BY <1>3, <1>4, <1>5, <1>6, <1>7, <1>8, <1>10, <1>11, <1>12 DEF Next, Done

\* Type correctness: whatever the Input, no step of Analyze leaves a tally below
\* zero, a node without a known reason or a cause without a severity.
THEOREM TypeCorrect == Spec => []TypeOK
<1> QED
  BY TypeInit, TypeNext, PTL DEF Spec

-----------------------------------------------------------------------------
(* The inductive invariant *)

\* How many nodes have been classified.
seen ==
  CASE pc = "pvcs" -> 0
    [] pc = "nodes" -> i - 1
    [] OTHER -> Len(in.nodes)

seenNodes == {in.nodes[k] : k \in 1..seen}

\* Some filter has a count that is reported as a Blocker when no node is eligible.
Explained ==
  \/ taintSet # {}
  \/ \E filter \in {"cordoned", "notready", "selector", "affinity"} : counts[filter] > 0

\* The tallies are those of the nodes classified so far.
LoopInv ==
  /\ seen \in 0..Len(in.nodes)
  /\ Len(verdicts) = seen
  /\ \A k \in 1..seen : verdicts[k].reason = ReasonFor(in.pod, in.nodes[k])
  /\ Range(eligible) = {nv \in seenNodes : Passes(in.pod, nv)}
  /\ fit > 0 <=> \E nv \in Range(eligible) : HasRoom(in.pod, nv)
  /\ (\E nv \in seenNodes : ~Passes(in.pod, nv)) => Explained

\* How many items of a later stage have been checked.
turned(stage, items, after) ==
  CASE pc = stage -> i - 1
    [] pc \in after -> Len(items)
    [] OTHER -> 0

AfterClaims       == {"conclude"}
AfterAntiAffinity == AfterClaims \cup {"claims"}
AfterAffinity     == AfterAntiAffinity \cup {"antiAffinity"}
AfterSpread       == AfterAffinity \cup {"affinity"}
AfterExtended     == AfterSpread \cup {"spread"}
AfterCapacity     == AfterExtended \cup {"extended"}

\* The obstacles among the items of each later stage that have been checked.
ExtendedSeen ==
  \E k \in 1..turned("extended", ExtNames, AfterExtended) : ExtendedObstructs(in, ExtNames[k])
SpreadSeen ==
  \E k \in 1..turned("spread", in.pod.spread, AfterSpread) : SpreadObstructs(in, in.pod.spread[k])
AffinitySeen ==
  \E k \in 1..turned("affinity", in.pod.affinity, AfterAffinity) :
    AffinityObstructs(in, in.pod.affinity[k])
AntiAffinitySeen ==
  \E k \in 1..turned("antiAffinity", in.pod.antiAffinity, AfterAntiAffinity) :
    AntiAffinityObstructs(in, in.pod.antiAffinity[k])
ClaimsSeen ==
  \E k \in 1..turned("claims", in.pod.resourceClaims, AfterClaims) :
    ClaimObstructs(in, in.pod.resourceClaims[k])

ObstaclesSeen ==
  \/ StorageObstructs(in) \/ NodesObstruct(in)
  \/ ExtendedSeen \/ SpreadSeen \/ AffinitySeen \/ AntiAffinitySeen \/ ClaimsSeen

\* The loop index stays within the loop of its stage.
IndexInv ==
  /\ pc \in {"pvcs", "filters", "capacity"} => i = 1
  /\ pc = "extended" => i <= Len(ExtNames) + 1
  /\ pc = "spread" => i <= Len(in.pod.spread) + 1
  /\ pc = "affinity" => i <= Len(in.pod.affinity) + 1
  /\ pc = "antiAffinity" => i <= Len(in.pod.antiAffinity) + 1
  /\ pc = "claims" => i <= Len(in.pod.resourceClaims) + 1

\* A Blocker is among the causes exactly when an obstacle has been met.
StageInv ==
  /\ in.nodes = <<>> => pc \in {"pvcs", "nodes", "done"}
  /\ pc = "pvcs" => ~HasBlocker(causes)
  /\ pc \in {"nodes", "filters"} => (HasBlocker(causes) <=> StorageObstructs(in))
  /\ pc = "capacity" =>
       (HasBlocker(causes) <=> StorageObstructs(in) \/ Candidates(in) = {})
  /\ pc \in AfterCapacity => (HasBlocker(causes) <=> ObstaclesSeen)
  /\ pc = "done" => (HasBlocker(causes) <=> Obstructed(in))
  /\ \A c \in Range(causes) : c.title # "Undetermined"

IInv == TypeOK /\ LoopInv /\ IndexInv /\ StageInv

-----------------------------------------------------------------------------
(* The checks of the later stages find the obstacles *)

\* The lists that a check is made of have a Blocker exactly when it fails.
LEMMA BlockersOf ==
  ASSUME NEW cond, NEW title, NEW subject, NEW n
  PROVE  /\ ~HasBlocker(<<>>)
         /\ HasBlocker(<<Cause(Blocker, title, subject, n)>>)
         /\ HasBlocker(CauseIf(cond, Cause(Blocker, title, subject, n))) <=> cond
<1> DEFINE c == Cause(Blocker, title, subject, n)
<1>1. c.severity = Blocker
  BY DEF Cause
<1> HIDE DEF c
<1>2. ~HasBlocker(<<>>) /\ HasBlocker(<<c>>)
  BY <1>1, ShortLists, HasBlockerRange
<1>3. HasBlocker(CauseIf(cond, c)) <=> cond
  BY <1>1, CauseIfList, HasBlockerRange
<1> QED
  BY <1>2, <1>3 DEF c

\* Two lists put together have a Blocker when one of them has.
LEMMA BlockersConcat ==
  ASSUME NEW s, NEW t, IsSequence(s), IsSequence(t)
  PROVE  HasBlocker(s \o t) <=> HasBlocker(s) \/ HasBlocker(t)
BY ConcatLists, HasBlockerRange

\* extended.go:46-62: a cause for the name exactly when no candidate can spare it.
LEMMA ExtendedFaithful ==
  ASSUME in \in Inputs, eligible \in Seq(Range(in.nodes)), Range(eligible) = Candidates(in),
         NEW name \in Range(ExtNames)
  PROVE  HasBlocker(AnalyzeExtendedResources(name, in.pod, eligible, in.chain))
           <=> ExtendedObstructs(in, name)
<1> DEFINE need == PodRequests(in.pod)[name]
           offers == advertisers(name, eligible)
           served == \E k \in offers : serves(eligible[k], name, need)
<1>1. need \in Nat /\ name \in Kinds
  BY InputFacts DEF Request, Kinds
<1>2. \A nv \in Candidates(in) : Allocatable(nv)[name] \in Nat /\ nv.used[name] \in Nat
  BY <1>1, InputFacts DEF Candidates
<1>3. \A nv : nv \in Candidates(in) <=> \E k \in DOMAIN eligible : nv = eligible[k]
  BY DEF Range
<1>4. \A nv \in Candidates(in) : serves(nv, name, need) <=> Spares(nv, name, need)
  BY <1>1, <1>2 DEF serves, Spares, Free
<1>5. CASE need <= 0
  <2>1. ~HasBlocker(AnalyzeExtendedResources(name, in.pod, eligible, in.chain))
    BY <1>5, ShortLists, HasBlockerRange DEF AnalyzeExtendedResources
  <2> QED
    BY <1>1, <1>5, <2>1 DEF ExtendedObstructs
<1>6. CASE need > 0 /\ offers = {}
  <2>1. PICK title, n : extendedNotAdvertised(name, need, in.chain) = Cause(Blocker, title, name, n)
    BY DEF extendedNotAdvertised
  <2>2. HasBlocker(<<extendedNotAdvertised(name, need, in.chain)>>)
    BY <2>1, BlockersOf
  <2>3. ~(need <= 0)
    BY <1>1, <1>6
  <2>4. HasBlocker(AnalyzeExtendedResources(name, in.pod, eligible, in.chain))
    BY <1>6, <2>2, <2>3, Zenon DEF AnalyzeExtendedResources
  <2>5. \A nv \in Candidates(in) : ~(Allocatable(nv)[name] > 0)
    BY <1>3, <1>6 DEF advertisers
  <2>6. \A nv \in Candidates(in) : ~Spares(nv, name, need)
    BY <1>1, <1>2, <1>6, <2>5 DEF Spares
  <2> QED
    BY <1>6, <2>4, <2>6 DEF ExtendedObstructs
<1>7. CASE need > 0 /\ offers # {}
  <2>1. ~(need <= 0)
    BY <1>1, <1>7
  <2>2. AnalyzeExtendedResources(name, in.pod, eligible, in.chain)
          = CauseIf(~served, Cause(Blocker, "InsufficientExtended", name, need))
    BY <1>7, <2>1, Zenon DEF AnalyzeExtendedResources
  <2>3. HasBlocker(CauseIf(~served, Cause(Blocker, "InsufficientExtended", name, need))) <=> ~served
    BY BlockersOf, Zenon
  <2>4. ASSUME NEW nv \in Candidates(in), Spares(nv, name, need)
        PROVE  served
    <3>1. PICK k \in DOMAIN eligible : nv = eligible[k]
      BY <1>3
    <3>2. Allocatable(nv)[name] > 0
      BY <1>1, <1>2, <1>7, <2>4 DEF Spares
    <3>3. k \in offers
      BY <3>1, <3>2 DEF advertisers
    <3> QED
      BY <1>4, <2>4, <3>1, <3>3
  <2>5. served => \E nv \in Candidates(in) : Spares(nv, name, need)
    BY <1>3, <1>4 DEF advertisers
  <2> QED
    BY <1>7, <2>2, <2>3, <2>4, <2>5 DEF ExtendedObstructs
<1> QED
  BY <1>1, <1>5, <1>6, <1>7

\* A map from names to nodes and a set of nodes select the same placed pods.
LEMMA SelectedFaithful ==
  ASSUME NEW list, NEW key, NEW d, NEW namespaces, NEW sel
  PROVE  matchingIn(d, list, key, in.placed, namespaces, sel)
           = selectedIn(in, Range(list), key, d, namespaces, sel)
<1>1. \A p \in DOMAIN in.placed :
        (\E k \in carriers(list, key) : list[k].name = in.placed[p].node /\ list[k].labels[key] = d)
          <=> \E nv \in Range(list) : /\ nv.name = in.placed[p].node
                                      /\ key \in DOMAIN nv.labels /\ nv.labels[key] = d
  BY DEF carriers, Range
<1> QED
  BY <1>1 DEF matchingIn, selectedIn

\* The domains are the labels of the nodes that carry the key.
LEMMA DomainsFaithful ==
  ASSUME NEW list, NEW key
  PROVE  domainsOf(list, key) = {nv.labels[key] : nv \in {nv \in Range(list) : key \in DOMAIN nv.labels}}
BY DEF domainsOf, carriers, Range

\* topology.go:76-143: a cause for the constraint exactly when no candidate keeps it.
LEMMA SpreadFaithful ==
  ASSUME Range(eligible) = Candidates(in), NEW c
  PROVE  HasBlocker(AnalyzeTopologySpread(c, in.pod, in.nodes, eligible, in.placed))
           <=> SpreadObstructs(in, c)
<1> DEFINE weight(d) == Cardinality(selectedIn(in, Range(in.nodes), c.key, d, {in.pod.ns}, c.selector))
           possible == feasible(c, in.pod, in.nodes, eligible, in.placed)
           causesOf == AnalyzeTopologySpread(c, in.pod, in.nodes, eligible, in.placed)
<1>1. \A d : spreadCount(c, d, in.pod, in.nodes, in.placed) = weight(d)
  BY SelectedFaithful DEF spreadCount
<1>2. possible <=> \E nv \in Candidates(in) : c.key \in DOMAIN nv.labels /\ keepsSkew(in, c, nv)
  <2>1. \A d, least : skewWith(c, d, least, in.pod, in.nodes, in.placed) = weight(d) + 1 - weight(least)
    BY <1>1 DEF skewWith
  <2> HIDE DEF weight
  <2>2. possible <=> \E d \in domainsOf(eligible, c.key) : \A least \in domainsOf(in.nodes, c.key) :
                       weight(d) + 1 - weight(least) <= c.maxSkew
    BY <2>1 DEF feasible
  <2>3. \A nv : keepsSkew(in, c, nv) <=>
          \A other \in Range(in.nodes) : c.key \in DOMAIN other.labels =>
            weight(nv.labels[c.key]) + 1 - weight(other.labels[c.key]) <= c.maxSkew
    BY DEF keepsSkew, weight
  <2> QED
    BY <2>2, <2>3, DomainsFaithful
<1>3. CASE c.whenUnsatisfiable # "DoNotSchedule"
  <2>1. causesOf = <<>>
    BY <1>3 DEF AnalyzeTopologySpread
  <2> QED
    BY <1>3, <2>1, BlockersOf DEF SpreadObstructs
<1>4. CASE c.whenUnsatisfiable = "DoNotSchedule" /\ domainsOf(in.nodes, c.key) = {}
  <2>1. causesOf = <<Cause(Blocker, "NoTopologyKey", c.key, 0)>>
    BY <1>4 DEF AnalyzeTopologySpread
  <2>2. \A nv \in Candidates(in) : c.key \notin DOMAIN nv.labels
    BY <1>4, DomainsFaithful DEF Candidates
  <2> QED
    BY <1>4, <2>1, <2>2, BlockersOf DEF SpreadObstructs
<1>5. CASE c.whenUnsatisfiable = "DoNotSchedule" /\ domainsOf(in.nodes, c.key) # {}
  <2>1. causesOf = CauseIf(~possible, Cause(Blocker, "SpreadUnsatisfied", c.key, c.maxSkew))
    BY <1>5, Zenon DEF AnalyzeTopologySpread
  <2>2. HasBlocker(CauseIf(~possible, Cause(Blocker, "SpreadUnsatisfied", c.key, c.maxSkew))) <=> ~possible
    BY BlockersOf, Zenon
  <2> QED
    BY <1>2, <1>5, <2>1, <2>2 DEF SpreadObstructs
<1> QED
  BY <1>3, <1>4, <1>5

\* topology.go:155-184: the matched domains are those of a candidate where the term is met.
LEMMA MatchFaithful ==
  ASSUME Range(eligible) = Candidates(in), NEW t
  PROVE  domainsWithMatch(t, in.pod, eligible, in.placed)
           = {nv.labels[t.key] : nv \in {nv \in carrying(in, t) : metBy(in, t, nv, Candidates(in))}}
<1> DEFINE spaces == IF t.namespaces = {} THEN {in.pod.ns} ELSE t.namespaces
           met(d) == selectedIn(in, Range(eligible), t.key, d, spaces, t.selector) # {}
<1>1. domainsWithMatch(t, in.pod, eligible, in.placed) = {d \in domainsOf(eligible, t.key) : met(d)}
  BY SelectedFaithful DEF domainsWithMatch
<1>2. \A nv : metBy(in, t, nv, Candidates(in)) <=> met(nv.labels[t.key])
  BY DEF metBy
<1>3. domainsOf(eligible, t.key) = {nv.labels[t.key] : nv \in carrying(in, t)}
  BY DomainsFaithful DEF carrying
<1> HIDE DEF met
<1> QED
  BY <1>1, <1>2, <1>3

\* topology.go:186-212: a cause for the term exactly when no candidate is in such a
\* domain, or, for anti-affinity, when every candidate is.
LEMMA AffinityFaithful ==
  ASSUME Range(eligible) = Candidates(in), NEW t
  PROVE  /\ HasBlocker(affinityCauses(t, in.pod, eligible, in.placed)) <=> AffinityObstructs(in, t)
         /\ HasBlocker(antiAffinityCauses(t, in.pod, eligible, in.placed))
              <=> AntiAffinityObstructs(in, t)
<1> DEFINE with == domainsWithMatch(t, in.pod, eligible, in.placed)
           domains == domainsOf(eligible, t.key)
<1>1. domains = {nv.labels[t.key] : nv \in carrying(in, t)}
  BY DomainsFaithful DEF carrying
<1>2. with = {nv.labels[t.key] : nv \in {nv \in carrying(in, t) : metBy(in, t, nv, Candidates(in))}}
  BY MatchFaithful
<1>3. HasBlocker(affinityCauses(t, in.pod, eligible, in.placed)) <=> with = {}
  BY BlockersOf, Zenon DEF affinityCauses
<1>4. HasBlocker(antiAffinityCauses(t, in.pod, eligible, in.placed)) <=> domains # {} /\ with = domains
  BY BlockersOf, Zenon DEF antiAffinityCauses
<1>5. with = {} <=> AffinityObstructs(in, t)
  BY <1>2 DEF AffinityObstructs
<1>6. (domains # {} /\ with = domains) <=> AntiAffinityObstructs(in, t)
  <2>1. domains # {} <=> carrying(in, t) # {}
    BY <1>1
  <2>2. ASSUME with = domains, NEW nv \in carrying(in, t)
        PROVE  metBy(in, t, nv, Candidates(in))
    <3>1. nv.labels[t.key] \in with
      BY <1>1, <2>2
    <3>2. PICK other \in carrying(in, t) :
            metBy(in, t, other, Candidates(in)) /\ other.labels[t.key] = nv.labels[t.key]
      BY <1>2, <3>1
    <3> QED
      BY <3>2 DEF metBy
  <2>3. (\A nv \in carrying(in, t) : metBy(in, t, nv, Candidates(in))) => with = domains
    BY <1>1, <1>2
  <2> QED
    BY <2>1, <2>2, <2>3 DEF AntiAffinityObstructs
<1> QED
  BY <1>3, <1>4, <1>5, <1>6

\* dra.go:62-87: a cause for the entry exactly when no allocated claim is behind it.
LEMMA ClaimsFaithful ==
  ASSUME in \in Inputs, NEW prc
  PROVE  HasBlocker(AnalyzeDRA(prc, in.pod, in.dra)) <=> ClaimObstructs(in, prc)
<1> DEFINE name == claimRef(in.pod, prc)
           found == claimsNamed(name, in.pod, in.dra)
           chosen == CHOOSE claim \in found : TRUE
<1>1. CASE name = ""
  <2>1. HasBlocker(<<Cause(Blocker, "ClaimNotCreated", prc.name, 0)>>)
    BY BlockersOf
  <2>2. HasBlocker(AnalyzeDRA(prc, in.pod, in.dra))
    BY <1>1, <2>1, Zenon DEF AnalyzeDRA
  <2> QED
    BY <1>1, <2>2 DEF ClaimObstructs
<1>2. CASE name # "" /\ found = {}
  <2>1. HasBlocker(<<Cause(Blocker, "ClaimNotFound", name, 0)>>)
    BY BlockersOf
  <2>2. HasBlocker(AnalyzeDRA(prc, in.pod, in.dra))
    BY <1>2, <2>1, Zenon DEF AnalyzeDRA
  <2> QED
    BY <1>2, <2>2 DEF ClaimObstructs, claimsNamed
<1>3. CASE name # "" /\ found # {}
  <2>1. chosen \in found
    BY <1>3
  <2>2. \A claim \in found : claim = chosen
    BY <2>1, InputsAssumption DEF claimsNamed, WellFormed, WellFormedPod, NamesUnique
  <2>3. AnalyzeDRA(prc, in.pod, in.dra) = claimCauses(name, chosen, in.dra)
    BY <1>3, Zenon DEF AnalyzeDRA
  <2>4. PICK title : unallocatedClaimCause(name, chosen, in.dra) = Cause(Blocker, title, name, 0)
    BY DEF unallocatedClaimCause
  <2>5. HasBlocker(CauseIf(~chosen.allocated, Cause(Blocker, title, name, 0))) <=> ~chosen.allocated
    BY BlockersOf, Zenon
  <2>6. HasBlocker(claimCauses(name, chosen, in.dra)) <=> ~chosen.allocated
    BY <2>4, <2>5 DEF claimCauses
  <2>7. ClaimObstructs(in, prc) <=> ~chosen.allocated
    BY <1>3, <2>1, <2>2 DEF ClaimObstructs, claimsNamed
  <2> QED
    BY <2>3, <2>6, <2>7
<1> QED
  BY <1>1, <1>2, <1>3

-----------------------------------------------------------------------------
(* The node loop *)

\* A sequence over a set is a sequence over its own range.
LEMMA OwnRange ==
  ASSUME NEW S, NEW s \in Seq(S)
  PROVE  IsSequence(s) /\ Range(s) \subseteq S /\ (s = <<>> <=> Range(s) = {})
<1>1. Len(s) \in Nat /\ DOMAIN s = 1..Len(s) /\ s \in [1..Len(s) -> S]
  OBVIOUS
<1>2. Range(s) \subseteq S /\ s \in [1..Len(s) -> Range(s)]
  BY <1>1 DEF Range
<1>3. s = <<>> <=> Range(s) = {}
  <2>1. Len(s) # 0 => s[1] \in Range(s)
    BY <1>1 DEF Range
  <2>2. Len(s) = 0 => s = <<>>
    BY EmptySeq
  <2> QED
    BY <2>1, <2>2, ShortLists
<1> QED
  BY <1>1, <1>2, <1>3 DEF IsSequence

\* The reason for a node that fails a filter is the first filter it fails.
LEMMA ReasonRejected ==
  ASSUME NEW pod, NEW node, NEW f \in DOMAIN Filters, Fails(Filters[f], pod, node),
         \A g \in 1..(f - 1) : ~Fails(Filters[g], pod, node)
  PROVE  ~Passes(pod, node) /\ ReasonFor(pod, node) = Filters[f]
<1> DEFINE first(g) == /\ Fails(Filters[g], pod, node)
                       /\ \A h \in 1..(g - 1) : ~Fails(Filters[h], pod, node)
           chosen == CHOOSE g \in DOMAIN Filters : first(g)
<1>1. ~Passes(pod, node)
  BY DEF Passes
<1>2. chosen \in DOMAIN Filters /\ first(chosen)
  BY Zenon
<1>3. chosen = f
  BY <1>2, FilterNames
<1> QED
  BY <1>1, <1>3 DEF ReasonFor

\* analyze.go:207-209: the node lacks nothing exactly when it has room.
LEMMA RoomFaithful ==
  ASSUME in \in Inputs, NEW nv \in Range(in.nodes)
  PROVE  lacks(nv) = {} <=> HasRoom(in.pod, nv)
<1>1. \A kind \in Basic : /\ Request[kind] \in Nat
                          /\ Allocatable(nv)[kind] \in Nat /\ nv.used[kind] \in Nat
  BY InputFacts
<1>2. \A kind \in Basic : Free(nv, kind) < Request[kind] <=> ~Spares(nv, kind, Request[kind])
  BY <1>1 DEF Free, Spares
<1> QED
  BY <1>2 DEF lacks, HasRoom, Request

\* One more node has been classified.
LEMMA SeenNext ==
  ASSUME TypeOK, LoopInv, pc = "nodes", i <= Len(in.nodes), i' = i + 1, UNCHANGED <<in, pc>>
  PROVE  /\ seen = i - 1 /\ seen' = i /\ i \in 1..Len(in.nodes)
         /\ seenNodes' = seenNodes \cup {in.nodes[i]}
         /\ in.nodes[i] \in Range(in.nodes)
<1>1. i \in 1..Len(in.nodes) /\ seen = i - 1 /\ seen' = i
  <2>1. i \in 1..Len(in.nodes)
    BY InputFacts DEF TypeOK
  <2>2. seen = i - 1
    BY DEF seen
  <2>3. seen' = i' - 1
    BY DEF seen
  <2> QED
    BY <2>1, <2>2, <2>3
<1>2. seenNodes' = seenNodes \cup {in.nodes[i]}
  BY <1>1 DEF seenNodes
<1> QED
  BY <1>1, <1>2, InputFacts DEF TypeOK

\* The reasons stay right when the verdict on the next node is appended.
LEMMA VerdictNext ==
  ASSUME TypeOK, LoopInv, NEW v, verdicts' = Append(verdicts, v),
         seen' = seen + 1, v.reason = ReasonFor(in.pod, in.nodes[seen + 1]), in' = in
  PROVE  /\ Len(verdicts') = seen'
         /\ \A k \in 1..seen' : verdicts'[k].reason = ReasonFor(in'.pod, in'.nodes[k])
<1>1. IsSequence(verdicts) /\ Len(verdicts) = seen /\ seen \in Nat
  BY InputFacts DEF TypeOK, LoopInv
<1>2. /\ Len(verdicts') = seen + 1
      /\ \A k \in 1..seen : verdicts'[k] = verdicts[k]
      /\ verdicts'[seen + 1] = v
  BY <1>1, AppendToList
<1>3. \A k \in 1..seen : verdicts[k].reason = ReasonFor(in.pod, in.nodes[k])
  BY DEF LoopInv
<1>4. \A k \in 1..(seen + 1) : k \in 1..seen \/ k = seen + 1
  BY <1>1
<1> QED
  BY <1>2, <1>3, <1>4

\* analyze.go:153-182: a rejected node gets the filter it fails, and explains itself.
LEMMA LoopReject == TypeOK /\ LoopInv /\ RejectNode => LoopInv'
<1> SUFFICES ASSUME TypeOK, LoopInv, RejectNode PROVE LoopInv'
  OBVIOUS
<1> DEFINE node == in.nodes[i]
<1>1. /\ pc = "nodes" /\ i <= Len(in.nodes) /\ i' = i + 1
      /\ UNCHANGED <<in, pc, eligible, fit>>
  BY DEF RejectNode
<1>2. /\ seen = i - 1 /\ seen' = i /\ i \in 1..Len(in.nodes)
      /\ seenNodes' = seenNodes \cup {node}
  BY <1>1, SeenNext
<1>3. PICK f \in DOMAIN Filters :
        /\ Fails(Filters[f], in.pod, node)
        /\ \A g \in 1..(f - 1) : ~Fails(Filters[g], in.pod, node)
        /\ counts' = [counts EXCEPT ![Filters[f]] = @ + 1]
        /\ taintSet' = taintSet \cup (IF Filters[f] = "taint" THEN UntoleratedTaints(in.pod, node) ELSE {})
        /\ \E about : verdicts' = Append(verdicts, NodeVerdict(node, FALSE, Filters[f], about))
  BY DEF RejectNode
<1>4. ~Passes(in.pod, node) /\ ReasonFor(in.pod, node) = Filters[f]
  BY <1>3, ReasonRejected
<1>5. /\ Len(verdicts') = seen'
      /\ \A k \in 1..seen' : verdicts'[k].reason = ReasonFor(in'.pod, in'.nodes[k])
  <2>1. PICK v : verdicts' = Append(verdicts, v) /\ v.reason = Filters[f]
    BY <1>3 DEF NodeVerdict
  <2>2. seen' = seen + 1 /\ in.nodes[seen + 1] = node
    BY <1>2
  <2> QED
    BY <1>1, <1>4, <2>1, <2>2, VerdictNext
<1>6. Range(eligible') = {nv \in seenNodes' : Passes(in'.pod, nv)}
  BY <1>1, <1>2, <1>4 DEF LoopInv
<1>7. Explained'
  <2>1. CASE Filters[f] = "taint"
    BY <1>3, <2>1 DEF Explained, Fails
  <2>2. CASE Filters[f] # "taint"
    <3>1. Filters[f] \in {"cordoned", "notready", "selector", "affinity"}
      BY <2>2, FilterNames DEF Range
    <3>2. counts'[Filters[f]] > 0
      BY <1>3, <3>1, FilterNames DEF TypeOK
    <3> QED
      BY <3>1, <3>2 DEF Explained
  <2> QED
    BY <2>1, <2>2
<1>8. seen' \in 0..Len(in'.nodes)
  BY <1>1, <1>2
<1> QED
  BY <1>1, <1>5, <1>6, <1>7, <1>8 DEF LoopInv

\* analyze.go:184-224: an admitted node is a candidate, and fits when it has room.
LEMMA LoopAdmit == TypeOK /\ LoopInv /\ AdmitNode => LoopInv'
<1> SUFFICES ASSUME TypeOK, LoopInv, AdmitNode PROVE LoopInv'
  OBVIOUS
<1> DEFINE node == in.nodes[i]
           lack == lacks(node)
<1>1. /\ pc = "nodes" /\ i <= Len(in.nodes) /\ i' = i + 1
      /\ UNCHANGED <<in, pc, taintSet>> /\ Passes(in.pod, node)
      /\ eligible' = Append(eligible, node)
      /\ fit' = IF lack = {} THEN fit + 1 ELSE fit
      /\ counts' = [r \in DOMAIN counts |-> IF r \in lack THEN counts[r] + 1 ELSE counts[r]]
  BY DEF AdmitNode
<1>2. /\ seen = i - 1 /\ seen' = i /\ i \in 1..Len(in.nodes)
      /\ seenNodes' = seenNodes \cup {node} /\ node \in Range(in.nodes)
  BY <1>1, SeenNext
<1>3. lack = {} <=> HasRoom(in.pod, node)
  BY <1>2, RoomFaithful DEF TypeOK
<1>4. /\ Len(verdicts') = seen'
      /\ \A k \in 1..seen' : verdicts'[k].reason = ReasonFor(in'.pod, in'.nodes[k])
  <2>1. seen' = seen + 1 /\ in.nodes[seen + 1] = node
    BY <1>2
  <2>2. CASE lack = {}
    <3>1. verdicts' = Append(verdicts, NodeVerdict(node, TRUE, "fits", lack))
      BY <2>2, Zenon DEF AdmitNode
    <3>2. ReasonFor(in.pod, node) = "fits"
      BY <1>1, <1>3, <2>2 DEF ReasonFor
    <3>3. NodeVerdict(node, TRUE, "fits", lack).reason = ReasonFor(in.pod, node)
      BY <3>2 DEF NodeVerdict
    <3> QED
      BY <1>1, <3>1, <3>3, <2>1, VerdictNext
  <2>3. CASE lack # {}
    <3>1. verdicts' = Append(verdicts, NodeVerdict(node, FALSE, "insufficient", lack))
      BY <2>3, Zenon DEF AdmitNode
    <3>2. ReasonFor(in.pod, node) = "insufficient"
      BY <1>1, <1>3, <2>3 DEF ReasonFor
    <3>3. NodeVerdict(node, FALSE, "insufficient", lack).reason = ReasonFor(in.pod, node)
      BY <3>2 DEF NodeVerdict
    <3> QED
      BY <1>1, <3>1, <3>3, <2>1, VerdictNext
  <2> QED
    BY <2>2, <2>3
<1>5. Range(eligible') = Range(eligible) \cup {node}
  BY <1>1, OwnRange, AppendToList DEF TypeOK
<1>6. Range(eligible') = {nv \in seenNodes' : Passes(in'.pod, nv)}
  BY <1>1, <1>2, <1>5 DEF LoopInv
<1>7. fit' > 0 <=> \E nv \in Range(eligible') : HasRoom(in'.pod, nv)
  BY <1>1, <1>3, <1>5 DEF LoopInv, TypeOK
<1>8. Explained => Explained'
  <2>1. ASSUME NEW filter \in {"cordoned", "notready", "selector", "affinity"}, counts[filter] > 0
        PROVE  counts'[filter] > 0
    <3>1. filter \in DOMAIN counts /\ counts[filter] \in Nat
      BY FilterNames DEF TypeOK
    <3>2. counts'[filter] = IF filter \in lack THEN counts[filter] + 1 ELSE counts[filter]
      BY <1>1, <3>1
    <3> QED
      BY <2>1, <3>1, <3>2
  <2> QED
    BY <1>1, <2>1 DEF Explained
<1>9. (\E nv \in seenNodes' : ~Passes(in'.pod, nv)) => Explained'
  BY <1>1, <1>2, <1>8 DEF LoopInv
<1>10. seen' \in 0..Len(in'.nodes)
  BY <1>1, <1>2
<1> QED
  BY <1>4, <1>6, <1>7, <1>9, <1>10 DEF LoopInv

\* The steps outside the loop leave the tallies as they are.
LEMMA LoopFrame ==
  ASSUME LoopInv, UNCHANGED <<in, tally>>, seen' = seen
  PROVE  LoopInv'
<1>1. seenNodes' = seenNodes /\ (Explained' <=> Explained)
  BY DEF seenNodes, Explained, tally
<1> QED
  BY <1>1 DEF LoopInv, tally

-----------------------------------------------------------------------------
(* The stages *)

\* Once the loop is over, its tallies are those of the whole Input.
LEMMA AfterLoop ==
  ASSUME TypeOK, LoopInv, pc \notin {"pvcs", "nodes"}
  PROVE  /\ Range(eligible) = Candidates(in)
         /\ eligible = <<>> <=> Candidates(in) = {}
         /\ fit > 0 <=> ~NodesObstruct(in)
         /\ in.nodes # <<>> /\ eligible = <<>> => Explained
<1>1. seenNodes = Range(in.nodes)
  BY InputFacts DEF TypeOK, seen, seenNodes, Range
<1>2. Range(eligible) = Candidates(in)
  BY <1>1 DEF LoopInv, Candidates
<1>3. eligible = <<>> <=> Candidates(in) = {}
  BY <1>2, OwnRange DEF TypeOK
<1>4. fit > 0 <=> ~NodesObstruct(in)
  BY <1>2 DEF LoopInv, NodesObstruct
<1>5. ASSUME in.nodes # <<>>, eligible = <<>>
      PROVE  Explained
  <2>1. PICK nv : nv \in Range(in.nodes)
    BY <1>5, InputFacts, OwnRange DEF TypeOK
  <2>2. ~Passes(in.pod, nv)
    BY <1>3, <1>5, <2>1 DEF Candidates
  <2> QED
    BY <1>1, <2>1, <2>2 DEF LoopInv
<1> QED
  BY <1>2, <1>3, <1>4, <1>5

\* No cause of a list is the fallback.
Determined(s) == IsSequence(s) /\ \A c \in Range(s) : c.title # "Undetermined"

\* Lists put together have no fallback when neither has one.
LEMMA DeterminedLists ==
  ASSUME NEW s, NEW t
  PROVE  /\ Blocking(s) => Determined(s)
         /\ Determined(s) /\ Determined(t) => Determined(s \o t)
BY ConcatLists DEF Blocking, Determined

\* A single cause that is not the fallback, alone or added.
LEMMA DeterminedOfOne ==
  ASSUME NEW severity, NEW title, title # "Undetermined", NEW subject, NEW n,
         NEW s, Determined(s), NEW cond
  PROVE  /\ Determined(<<Cause(severity, title, subject, n)>>)
         /\ Determined(Append(s, Cause(severity, title, subject, n)))
         /\ Determined(CauseIf(cond, Cause(severity, title, subject, n)))
<1> DEFINE c == Cause(severity, title, subject, n)
<1>1. c.title # "Undetermined"
  BY DEF Cause
<1> HIDE DEF c
<1>2. Determined(<<c>>)
  BY <1>1, ShortLists DEF Determined
<1>3. Determined(Append(s, c))
  BY <1>1, AppendToList DEF Determined
<1>4. Determined(CauseIf(cond, c))
  BY <1>1, CauseIfList DEF Determined
<1> QED
  BY <1>2, <1>3, <1>4 DEF c

\* analyze.go:123-139: claims that are missing or unbound are Blockers.
LEMMA StagePVCs == TypeOK /\ StageInv /\ ReportPVCs => StageInv'
<1> SUFFICES ASSUME TypeOK, StageInv, ReportPVCs PROVE StageInv'
  OBVIOUS
<1> DEFINE missing == CauseIf(in.missingPVCs # {}, Cause(Blocker, "PVCNotFound", "", 0))
           unbound == CauseIf(in.unboundPVCs # {}, Cause(Blocker, "PVCUnbound", "", 0))
<1>1. causes' = causes \o missing \o unbound /\ pc = "pvcs" /\ pc' = "nodes" /\ in' = in
  BY Zenon DEF ReportPVCs
<1>2. Determined(causes)
  BY DEF TypeOK, StageInv, Determined
<1>3. Blocking(missing) /\ Blocking(unbound)
  BY BlockingLists
<1>4. /\ HasBlocker(missing) <=> in.missingPVCs # {}
      /\ HasBlocker(unbound) <=> in.unboundPVCs # {}
  BY BlockersOf, Zenon
<1> HIDE DEF missing, unbound
<1>5. IsSequence(causes) /\ IsSequence(missing) /\ IsSequence(unbound) /\ IsSequence(causes \o missing)
  BY <1>2, <1>3, ConcatLists DEF Blocking, Determined
<1>6. HasBlocker(causes') <=> StorageObstructs(in)
  BY <1>1, <1>4, <1>5, BlockersConcat DEF StageInv, StorageObstructs
<1>7. Determined(causes')
  BY <1>1, <1>2, <1>3, DeterminedLists
<1> QED
  BY <1>1, <1>6, <1>7 DEF StageInv, Determined, AfterCapacity, AfterExtended, AfterSpread,
     AfterAffinity, AfterAntiAffinity, AfterClaims

\* analyze.go:228-237: an empty cluster is an obstacle.
LEMMA StageFinish == TypeOK /\ StageInv /\ FinishNodes => StageInv'
<1> SUFFICES ASSUME TypeOK, StageInv, FinishNodes PROVE StageInv'
  OBVIOUS
<1> USE DEF AfterCapacity, AfterExtended, AfterSpread, AfterAffinity, AfterAntiAffinity, AfterClaims
<1>1. Determined(causes)
  BY DEF TypeOK, StageInv, Determined
<1>2. CASE in.nodes = <<>>
  <2> DEFINE none == Cause(Blocker, "NoNodes", "", 0)
  <2>1. causes' \in sortCauses(Append(causes, none)) /\ pc' = "done" /\ in' = in
    BY <1>2, Zenon DEF FinishNodes
  <2>2. none.severity = Blocker
    BY DEF Cause
  <2>3. Determined(Append(causes, none))
    BY <1>1, DeterminedOfOne
  <2> HIDE DEF none
  <2>4. IsSequence(causes') /\ Range(causes') = Range(causes) \cup {none}
    BY <1>1, <2>1, <2>3, AppendToList, SortKeepsCauses DEF Determined
  <2>5. HasBlocker(causes')
    BY <2>2, <2>4, HasBlockerRange
  <2>6. Determined(causes')
    BY <2>1, <2>3, SortKeepsCauses DEF Determined
  <2>7. Obstructed(in)
    BY <1>2, ShortLists DEF Obstructed, NodesObstruct, Candidates
  <2> QED
    BY <1>2, <2>1, <2>5, <2>6, <2>7 DEF StageInv, Determined
<1>3. CASE in.nodes # <<>>
  BY <1>3 DEF FinishNodes, StageInv
<1> QED
  BY <1>2, <1>3

\* A cause that is given on a condition is a Blocker when its severity is.
LEMMA CauseIfBlocks ==
  ASSUME NEW cond, NEW severity, NEW title, NEW subject, NEW n
  PROVE  /\ severity = Blocker => (HasBlocker(CauseIf(cond, Cause(severity, title, subject, n))) <=> cond)
         /\ severity # Blocker => ~HasBlocker(CauseIf(cond, Cause(severity, title, subject, n)))
<1> DEFINE c == Cause(severity, title, subject, n)
<1>1. c.severity = severity
  BY DEF Cause
<1> HIDE DEF c
<1>2. /\ severity = Blocker => (HasBlocker(CauseIf(cond, c)) <=> cond)
      /\ severity # Blocker => ~HasBlocker(CauseIf(cond, c))
  BY <1>1, CauseIfList, HasBlockerRange
<1> QED
  BY <1>2 DEF c

\* No filter's cause is the fallback.
LEMMA FilterDetermined ==
  ASSUME NEW filter, filter # "Undetermined", NEW cond, NEW severity
  PROVE  Determined(filterCause(filter, cond, severity))
<1>1. Determined(<<>>)
  BY ShortLists DEF Determined
<1> QED
  BY <1>1, DeterminedOfOne DEF filterCause

\* analyze.go:239-283: when no node is eligible, some filter is reported as a Blocker,
\* whichever filters they failed; when one is, none is.
LEMMA StageFilters == TypeOK /\ LoopInv /\ StageInv /\ ReportFilters => StageInv'
<1> SUFFICES ASSUME TypeOK, LoopInv, StageInv, ReportFilters PROVE StageInv'
  OBVIOUS
<1> DEFINE notready == filterCause("notready", counts["notready"] > 0, hardSeverity)
           taint == filterCause("taint", taintSet # {}, hardSeverity)
           selector == filterCause("selector", counts["selector"] > 0, hardSeverity)
           affinity == filterCause("affinity", counts["affinity"] > 0, hardSeverity)
           cordoned == filterCause("cordoned", counts["cordoned"] > 0, cordonSeverity)
<1>1. /\ causes' = causes \o notready \o taint \o selector \o affinity \o cordoned
      /\ pc = "filters" /\ pc' = "capacity" /\ in' = in
  BY Zenon DEF ReportFilters
<1>2. Determined(causes)
  BY DEF TypeOK, StageInv, Determined
<1>3. /\ hardSeverity = Blocker <=> eligible = <<>>
      /\ cordonSeverity = Blocker <=> eligible = <<>> /\ taintSet = {}
  BY DEF hardSeverity, cordonSeverity, severityIf, Blocker, Warning, Info
<1>4. /\ HasBlocker(notready) <=> counts["notready"] > 0 /\ eligible = <<>>
      /\ HasBlocker(taint) <=> taintSet # {} /\ eligible = <<>>
      /\ HasBlocker(selector) <=> counts["selector"] > 0 /\ eligible = <<>>
      /\ HasBlocker(affinity) <=> counts["affinity"] > 0 /\ eligible = <<>>
      /\ HasBlocker(cordoned) <=> counts["cordoned"] > 0 /\ eligible = <<>> /\ taintSet = {}
  <2>1. /\ hardSeverity = Blocker => (HasBlocker(notready) <=> counts["notready"] > 0)
        /\ hardSeverity # Blocker => ~HasBlocker(notready)
    BY CauseIfBlocks, Zenon DEF filterCause
  <2>2. /\ hardSeverity = Blocker => (HasBlocker(taint) <=> taintSet # {})
        /\ hardSeverity # Blocker => ~HasBlocker(taint)
    BY CauseIfBlocks, Zenon DEF filterCause
  <2>3. /\ hardSeverity = Blocker => (HasBlocker(selector) <=> counts["selector"] > 0)
        /\ hardSeverity # Blocker => ~HasBlocker(selector)
    BY CauseIfBlocks, Zenon DEF filterCause
  <2>4. /\ hardSeverity = Blocker => (HasBlocker(affinity) <=> counts["affinity"] > 0)
        /\ hardSeverity # Blocker => ~HasBlocker(affinity)
    BY CauseIfBlocks, Zenon DEF filterCause
  <2>5. /\ cordonSeverity = Blocker => (HasBlocker(cordoned) <=> counts["cordoned"] > 0)
        /\ cordonSeverity # Blocker => ~HasBlocker(cordoned)
    BY CauseIfBlocks, Zenon DEF filterCause
  <2> HIDE DEF notready, taint, selector, affinity, cordoned
  <2> QED
    BY <1>3, <2>1, <2>2, <2>3, <2>4, <2>5
<1>6. /\ Determined(notready) /\ Determined(taint) /\ Determined(selector)
      /\ Determined(affinity) /\ Determined(cordoned)
  BY FilterDetermined
<1> HIDE DEF notready, taint, selector, affinity, cordoned
<1>7. ASSUME NEW s, NEW t, Determined(s), Determined(t)
      PROVE  Determined(s \o t) /\ (HasBlocker(s \o t) <=> HasBlocker(s) \/ HasBlocker(t))
  BY <1>7, DeterminedLists, BlockersConcat DEF Determined
<1>8. /\ Determined(causes')
      /\ HasBlocker(causes') <=> \/ HasBlocker(causes) \/ HasBlocker(notready) \/ HasBlocker(taint)
                                 \/ HasBlocker(selector) \/ HasBlocker(affinity) \/ HasBlocker(cordoned)
  <2>1. /\ Determined(causes \o notready)
        /\ HasBlocker(causes \o notready) <=> HasBlocker(causes) \/ HasBlocker(notready)
    BY <1>2, <1>6, <1>7
  <2>2. /\ Determined(causes \o notready \o taint)
        /\ HasBlocker(causes \o notready \o taint) <=> HasBlocker(causes \o notready) \/ HasBlocker(taint)
    BY <1>6, <1>7, <2>1
  <2>3. /\ Determined(causes \o notready \o taint \o selector)
        /\ HasBlocker(causes \o notready \o taint \o selector)
             <=> HasBlocker(causes \o notready \o taint) \/ HasBlocker(selector)
    BY <1>6, <1>7, <2>2
  <2>4. /\ Determined(causes \o notready \o taint \o selector \o affinity)
        /\ HasBlocker(causes \o notready \o taint \o selector \o affinity)
             <=> HasBlocker(causes \o notready \o taint \o selector) \/ HasBlocker(affinity)
    BY <1>6, <1>7, <2>3
  <2>5. /\ Determined(causes')
        /\ HasBlocker(causes') <=> HasBlocker(causes \o notready \o taint \o selector \o affinity)
                                     \/ HasBlocker(cordoned)
    BY <1>1, <1>6, <1>7, <2>4
  <2> QED
    BY <2>1, <2>2, <2>3, <2>4, <2>5
<1>9. HasBlocker(causes) <=> StorageObstructs(in)
  BY <1>1 DEF StageInv
<1>10. in.nodes # <<>>
  BY <1>1 DEF StageInv
<1>11. /\ eligible = <<>> => Explained
       /\ eligible = <<>> <=> Candidates(in) = {}
  BY <1>1, <1>10, AfterLoop
<1>12. HasBlocker(causes') <=> StorageObstructs(in) \/ Candidates(in) = {}
  BY <1>4, <1>8, <1>9, <1>11 DEF Explained
<1> QED
  BY <1>1, <1>8, <1>10, <1>12 DEF StageInv, Determined, AfterCapacity, AfterExtended, AfterSpread,
     AfterAffinity, AfterAntiAffinity, AfterClaims

-----------------------------------------------------------------------------
(* The later stages *)

\* What the lemmas on the later stages rest on.
LEMMA StageFacts ==
  ASSUME TypeOK, LoopInv, StageInv, pc \in AfterCapacity
  PROVE  /\ in \in Inputs /\ eligible \in Seq(Range(in.nodes)) /\ Range(eligible) = Candidates(in)
         /\ i \in Nat \ {0} /\ in.nodes # <<>>
         /\ Determined(causes) /\ (HasBlocker(causes) <=> ObstaclesSeen)
<1> USE DEF AfterCapacity, AfterExtended, AfterSpread, AfterAffinity, AfterAntiAffinity, AfterClaims
<1>1. Range(eligible) = Candidates(in)
  BY AfterLoop
<1>2. Determined(causes)
  BY DEF TypeOK, StageInv, Determined
<1>3. pc \notin {"pvcs", "nodes", "done"}
  OBVIOUS
<1>4. in.nodes # <<>>
  BY <1>3 DEF StageInv
<1>5. HasBlocker(causes) <=> ObstaclesSeen
  BY DEF StageInv
<1> QED
  BY <1>1, <1>2, <1>4, <1>5 DEF TypeOK

\* A step to a later stage keeps the invariant if the causes are right.
LEMMA StageKept ==
  ASSUME pc' \in AfterCapacity, in' = in, in.nodes # <<>>,
         Determined(causes'), (HasBlocker(causes') <=> ObstaclesSeen')
  PROVE  StageInv'
<1>1. pc' \notin {"pvcs", "nodes", "filters", "capacity", "done"}
  BY DEF AfterCapacity, AfterExtended, AfterSpread, AfterAffinity, AfterAntiAffinity, AfterClaims
<1> QED
  BY <1>1 DEF StageInv, Determined

\* A turn of a later loop adds what its check returns.
LEMMA TurnAdds ==
  ASSUME NEW new, Blocking(new), Determined(causes), causes' = causes \o new
  PROVE  Determined(causes') /\ (HasBlocker(causes') <=> HasBlocker(causes) \/ HasBlocker(new))
BY DeterminedLists, BlockersConcat DEF Determined

\* analyze.go:285-325: no room on any candidate is a Blocker, and the loops have not begun.
LEMMA StageCapacity == TypeOK /\ LoopInv /\ IndexInv /\ StageInv /\ AnalyzeCapacity => StageInv'
<1> SUFFICES ASSUME TypeOK, LoopInv, IndexInv, StageInv, AnalyzeCapacity PROVE StageInv'
  OBVIOUS
<1> DEFINE full == CauseIf(eligible # <<>> /\ fit = 0, Cause(Blocker, capacityTitle, "", Len(eligible)))
<1>1. /\ pc = "capacity" /\ pc' = "extended" /\ UNCHANGED <<in, i, tally>>
      /\ causes' = causes \o full
  BY Zenon DEF AnalyzeCapacity
<1>2. i = 1 /\ in.nodes # <<>>
  BY <1>1 DEF IndexInv, StageInv
<1>3. Blocking(full)
  BY BlockingLists DEF capacityTitle
<1>4. HasBlocker(full) <=> eligible # <<>> /\ fit = 0
  <2>1. Blocker = Blocker => (HasBlocker(full) <=> (eligible # <<>> /\ fit = 0))
    BY CauseIfBlocks, Zenon
  <2> QED
    BY <2>1
<1> HIDE DEF full
<1>5. Determined(causes)
  BY DEF TypeOK, StageInv, Determined
<1>6. Determined(causes') /\ (HasBlocker(causes') <=> HasBlocker(causes) \/ HasBlocker(full))
  BY <1>1, <1>3, <1>5, TurnAdds
<1>7. HasBlocker(causes) <=> StorageObstructs(in) \/ Candidates(in) = {}
  BY <1>1 DEF StageInv
<1>8. /\ eligible = <<>> <=> Candidates(in) = {}
      /\ fit > 0 <=> ~NodesObstruct(in)
  BY <1>1, AfterLoop
<1>9. fit \in Nat /\ (Candidates(in) = {} => NodesObstruct(in))
  BY DEF TypeOK, NodesObstruct
<1>10. HasBlocker(causes') <=> StorageObstructs(in) \/ NodesObstruct(in)
  BY <1>4, <1>6, <1>7, <1>8, <1>9
<1>11. ~ExtendedSeen' /\ ~SpreadSeen' /\ ~AffinitySeen' /\ ~AntiAffinitySeen' /\ ~ClaimsSeen'
  BY <1>1, <1>2 DEF ExtendedSeen, SpreadSeen, AffinitySeen, AntiAffinitySeen, ClaimsSeen, turned,
     AfterExtended, AfterSpread, AfterAffinity, AfterAntiAffinity, AfterClaims
<1>12. pc' \in AfterCapacity
  BY <1>1 DEF AfterCapacity
<1> QED
  BY <1>1, <1>2, <1>6, <1>10, <1>11, <1>12, StageKept DEF ObstaclesSeen

\* analyze.go:328: one extended resource is checked, or the next stage begins.
LEMMA StageExtended == TypeOK /\ LoopInv /\ IndexInv /\ StageInv /\ CheckExtended => StageInv'
<1> SUFFICES ASSUME TypeOK, LoopInv, IndexInv, StageInv, CheckExtended PROVE StageInv'
  OBVIOUS
<1> DEFINE items == ExtNames
           new == AnalyzeExtendedResources(ExtNames[i], in.pod, eligible, in.chain)
<1>1. pc = "extended" /\ UNCHANGED <<in, tally>>
  BY DEF CheckExtended, CheckItems
<1>2. pc \in AfterCapacity
  BY <1>1 DEF AfterCapacity, AfterExtended, AfterSpread, AfterAffinity, AfterAntiAffinity, AfterClaims
<1>3. /\ in \in Inputs /\ eligible \in Seq(Range(in.nodes)) /\ Range(eligible) = Candidates(in)
      /\ i \in Nat \ {0} /\ in.nodes # <<>>
      /\ Determined(causes) /\ (HasBlocker(causes) <=> ObstaclesSeen)
  BY <1>2, StageFacts
<1>4. Len(items) \in Nat /\ DOMAIN items = 1..Len(items) /\ i <= Len(items) + 1
  BY <1>1, <1>3, ExtNamesAssumption DEF IndexInv
<1>5. /\ SpreadSeen' <=> SpreadSeen
      /\ AffinitySeen' <=> AffinitySeen
      /\ AntiAffinitySeen' <=> AntiAffinitySeen
      /\ ClaimsSeen' <=> ClaimsSeen
  BY <1>1, <1>3 DEF CheckItems, CheckExtended, SpreadSeen, AffinitySeen, AntiAffinitySeen, ClaimsSeen,
     turned, AfterExtended, AfterSpread, AfterAffinity, AfterAntiAffinity, AfterClaims
<1>6. CASE i <= Len(items)
  <2>1. causes' = causes \o new /\ i' = i + 1 /\ pc' = pc
    <3>1. ~(i > Len(items))
      BY <1>3, <1>4, <1>6
    <3> QED
      BY <3>1, Zenon DEF CheckExtended, CheckItems
  <2>2. Blocking(new) /\ (HasBlocker(new) <=> ExtendedObstructs(in, items[i]))
    BY <1>3, <1>4, <1>6, ExtendedBlocking, ExtendedFaithful DEF Range
  <2> HIDE DEF new
  <2>3. Determined(causes') /\ (HasBlocker(causes') <=> HasBlocker(causes) \/ HasBlocker(new))
    BY <1>3, <2>1, <2>2, TurnAdds
  <2>4. ExtendedSeen' <=> ExtendedSeen \/ ExtendedObstructs(in, items[i])
    <3>1. /\ turned("extended", items, AfterExtended) = i - 1
          /\ turned("extended", items, AfterExtended)' = i' - 1
      BY <1>1, <2>1 DEF turned, AfterExtended, AfterSpread, AfterAffinity, AfterAntiAffinity,
         AfterClaims
    <3>2. i' - 1 = i /\ 1..i = (1..(i - 1)) \cup {i}
      BY <1>3, <2>1
    <3> QED
      BY <1>1, <3>1, <3>2 DEF ExtendedSeen
  <2> QED
    BY <1>1, <1>2, <1>3, <1>5, <2>1, <2>2, <2>3, <2>4, StageKept DEF ObstaclesSeen
<1>7. CASE i > Len(items)
  <2>1. causes' = causes /\ i' = 1 /\ pc' = "spread"
    BY <1>3, <1>4, <1>7 DEF CheckExtended, CheckItems
  <2>2. ExtendedSeen' <=> ExtendedSeen
    <3>1. i - 1 = Len(items)
      BY <1>3, <1>4, <1>7
    <3>2. /\ turned("extended", items, AfterExtended) = Len(items)
          /\ turned("extended", items, AfterExtended)' = Len(items)
      BY <1>1, <2>1, <3>1 DEF turned, AfterExtended, AfterSpread, AfterAffinity, AfterAntiAffinity,
         AfterClaims
    <3> QED
      BY <1>1, <3>2 DEF ExtendedSeen
  <2>3. pc' \in AfterCapacity
    BY <2>1 DEF AfterCapacity, AfterExtended, AfterSpread, AfterAffinity, AfterAntiAffinity, AfterClaims
  <2> QED
    BY <1>1, <1>3, <1>5, <2>1, <2>2, <2>3, StageKept DEF ObstaclesSeen
<1> QED
  BY <1>3, <1>4, <1>6, <1>7

\* analyze.go:339: one spread constraint is checked, or the next stage begins.
LEMMA StageSpread == TypeOK /\ LoopInv /\ IndexInv /\ StageInv /\ CheckSpread => StageInv'
<1> SUFFICES ASSUME TypeOK, LoopInv, IndexInv, StageInv, CheckSpread PROVE StageInv'
  OBVIOUS
<1> DEFINE items == in.pod.spread
           new == AnalyzeTopologySpread(in.pod.spread[i], in.pod, in.nodes, eligible, in.placed)
<1>1. pc = "spread" /\ UNCHANGED <<in, tally>>
  BY DEF CheckSpread, CheckItems
<1>2. pc \in AfterCapacity
  BY <1>1 DEF AfterCapacity, AfterExtended, AfterSpread, AfterAffinity, AfterAntiAffinity, AfterClaims
<1>3. /\ in \in Inputs /\ eligible \in Seq(Range(in.nodes)) /\ Range(eligible) = Candidates(in)
      /\ i \in Nat \ {0} /\ in.nodes # <<>>
      /\ Determined(causes) /\ (HasBlocker(causes) <=> ObstaclesSeen)
  BY <1>2, StageFacts
<1>4. Len(items) \in Nat /\ DOMAIN items = 1..Len(items) /\ i <= Len(items) + 1
  BY <1>1, <1>3, InputsAssumption DEF IndexInv, IsSequence, WellFormed, WellFormedPod, NamesUnique
<1>5. /\ ExtendedSeen' <=> ExtendedSeen
      /\ AffinitySeen' <=> AffinitySeen
      /\ AntiAffinitySeen' <=> AntiAffinitySeen
      /\ ClaimsSeen' <=> ClaimsSeen
  BY <1>1, <1>3 DEF CheckItems, CheckSpread, ExtendedSeen, AffinitySeen, AntiAffinitySeen, ClaimsSeen,
     turned, AfterExtended, AfterSpread, AfterAffinity, AfterAntiAffinity, AfterClaims
<1>6. CASE i <= Len(items)
  <2>1. causes' = causes \o new /\ i' = i + 1 /\ pc' = pc
    <3>1. ~(i > Len(items))
      BY <1>3, <1>4, <1>6
    <3> QED
      BY <3>1, Zenon DEF CheckSpread, CheckItems
  <2>2. Blocking(new) /\ (HasBlocker(new) <=> SpreadObstructs(in, items[i]))
    BY <1>3, <1>4, <1>6, SpreadBlocking, SpreadFaithful
  <2> HIDE DEF new
  <2>3. Determined(causes') /\ (HasBlocker(causes') <=> HasBlocker(causes) \/ HasBlocker(new))
    BY <1>3, <2>1, <2>2, TurnAdds
  <2>4. SpreadSeen' <=> SpreadSeen \/ SpreadObstructs(in, items[i])
    <3>1. /\ turned("spread", items, AfterSpread) = i - 1
          /\ turned("spread", items, AfterSpread)' = i' - 1
      BY <1>1, <2>1 DEF turned, AfterExtended, AfterSpread, AfterAffinity, AfterAntiAffinity,
         AfterClaims
    <3>2. i' - 1 = i /\ 1..i = (1..(i - 1)) \cup {i}
      BY <1>3, <2>1
    <3> QED
      BY <1>1, <3>1, <3>2 DEF SpreadSeen
  <2> QED
    BY <1>1, <1>2, <1>3, <1>5, <2>1, <2>2, <2>3, <2>4, StageKept DEF ObstaclesSeen
<1>7. CASE i > Len(items)
  <2>1. causes' = causes /\ i' = 1 /\ pc' = "affinity"
    BY <1>3, <1>4, <1>7 DEF CheckSpread, CheckItems
  <2>2. SpreadSeen' <=> SpreadSeen
    <3>1. i - 1 = Len(items)
      BY <1>3, <1>4, <1>7
    <3>2. /\ turned("spread", items, AfterSpread) = Len(items)
          /\ turned("spread", items, AfterSpread)' = Len(items)
      BY <1>1, <2>1, <3>1 DEF turned, AfterExtended, AfterSpread, AfterAffinity, AfterAntiAffinity,
         AfterClaims
    <3> QED
      BY <1>1, <3>2 DEF SpreadSeen
  <2>3. pc' \in AfterCapacity
    BY <2>1 DEF AfterCapacity, AfterExtended, AfterSpread, AfterAffinity, AfterAntiAffinity, AfterClaims
  <2> QED
    BY <1>1, <1>3, <1>5, <2>1, <2>2, <2>3, StageKept DEF ObstaclesSeen
<1> QED
  BY <1>3, <1>4, <1>6, <1>7

\* analyze.go:340: one affinity term is checked, or the next stage begins.
LEMMA StageAffinity == TypeOK /\ LoopInv /\ IndexInv /\ StageInv /\ CheckAffinity => StageInv'
<1> SUFFICES ASSUME TypeOK, LoopInv, IndexInv, StageInv, CheckAffinity PROVE StageInv'
  OBVIOUS
<1> DEFINE items == in.pod.affinity
           new == affinityCauses(in.pod.affinity[i], in.pod, eligible, in.placed)
<1>1. pc = "affinity" /\ UNCHANGED <<in, tally>>
  BY DEF CheckAffinity, CheckItems
<1>2. pc \in AfterCapacity
  BY <1>1 DEF AfterCapacity, AfterExtended, AfterSpread, AfterAffinity, AfterAntiAffinity, AfterClaims
<1>3. /\ in \in Inputs /\ eligible \in Seq(Range(in.nodes)) /\ Range(eligible) = Candidates(in)
      /\ i \in Nat \ {0} /\ in.nodes # <<>>
      /\ Determined(causes) /\ (HasBlocker(causes) <=> ObstaclesSeen)
  BY <1>2, StageFacts
<1>4. Len(items) \in Nat /\ DOMAIN items = 1..Len(items) /\ i <= Len(items) + 1
  BY <1>1, <1>3, InputsAssumption DEF IndexInv, IsSequence, WellFormed, WellFormedPod, NamesUnique
<1>5. /\ ExtendedSeen' <=> ExtendedSeen
      /\ SpreadSeen' <=> SpreadSeen
      /\ AntiAffinitySeen' <=> AntiAffinitySeen
      /\ ClaimsSeen' <=> ClaimsSeen
  BY <1>1, <1>3 DEF CheckItems, CheckAffinity, ExtendedSeen, SpreadSeen, AntiAffinitySeen, ClaimsSeen,
     turned, AfterExtended, AfterSpread, AfterAffinity, AfterAntiAffinity, AfterClaims
<1>6. CASE i <= Len(items)
  <2>1. causes' = causes \o new /\ i' = i + 1 /\ pc' = pc
    <3>1. ~(i > Len(items))
      BY <1>3, <1>4, <1>6
    <3> QED
      BY <3>1, Zenon DEF CheckAffinity, CheckItems
  <2>2. Blocking(new) /\ (HasBlocker(new) <=> AffinityObstructs(in, items[i]))
    BY <1>3, <1>4, <1>6, AffinityBlocking, AffinityFaithful
  <2> HIDE DEF new
  <2>3. Determined(causes') /\ (HasBlocker(causes') <=> HasBlocker(causes) \/ HasBlocker(new))
    BY <1>3, <2>1, <2>2, TurnAdds
  <2>4. AffinitySeen' <=> AffinitySeen \/ AffinityObstructs(in, items[i])
    <3>1. /\ turned("affinity", items, AfterAffinity) = i - 1
          /\ turned("affinity", items, AfterAffinity)' = i' - 1
      BY <1>1, <2>1 DEF turned, AfterExtended, AfterSpread, AfterAffinity, AfterAntiAffinity,
         AfterClaims
    <3>2. i' - 1 = i /\ 1..i = (1..(i - 1)) \cup {i}
      BY <1>3, <2>1
    <3> QED
      BY <1>1, <3>1, <3>2 DEF AffinitySeen
  <2> QED
    BY <1>1, <1>2, <1>3, <1>5, <2>1, <2>2, <2>3, <2>4, StageKept DEF ObstaclesSeen
<1>7. CASE i > Len(items)
  <2>1. causes' = causes /\ i' = 1 /\ pc' = "antiAffinity"
    BY <1>3, <1>4, <1>7 DEF CheckAffinity, CheckItems
  <2>2. AffinitySeen' <=> AffinitySeen
    <3>1. i - 1 = Len(items)
      BY <1>3, <1>4, <1>7
    <3>2. /\ turned("affinity", items, AfterAffinity) = Len(items)
          /\ turned("affinity", items, AfterAffinity)' = Len(items)
      BY <1>1, <2>1, <3>1 DEF turned, AfterExtended, AfterSpread, AfterAffinity, AfterAntiAffinity,
         AfterClaims
    <3> QED
      BY <1>1, <3>2 DEF AffinitySeen
  <2>3. pc' \in AfterCapacity
    BY <2>1 DEF AfterCapacity, AfterExtended, AfterSpread, AfterAffinity, AfterAntiAffinity, AfterClaims
  <2> QED
    BY <1>1, <1>3, <1>5, <2>1, <2>2, <2>3, StageKept DEF ObstaclesSeen
<1> QED
  BY <1>3, <1>4, <1>6, <1>7

\* analyze.go:340: one anti-affinity term is checked, or the next stage begins.
LEMMA StageAntiAffinity == TypeOK /\ LoopInv /\ IndexInv /\ StageInv /\ CheckAntiAffinity => StageInv'
<1> SUFFICES ASSUME TypeOK, LoopInv, IndexInv, StageInv, CheckAntiAffinity PROVE StageInv'
  OBVIOUS
<1> DEFINE items == in.pod.antiAffinity
           new == antiAffinityCauses(in.pod.antiAffinity[i], in.pod, eligible, in.placed)
<1>1. pc = "antiAffinity" /\ UNCHANGED <<in, tally>>
  BY DEF CheckAntiAffinity, CheckItems
<1>2. pc \in AfterCapacity
  BY <1>1 DEF AfterCapacity, AfterExtended, AfterSpread, AfterAffinity, AfterAntiAffinity, AfterClaims
<1>3. /\ in \in Inputs /\ eligible \in Seq(Range(in.nodes)) /\ Range(eligible) = Candidates(in)
      /\ i \in Nat \ {0} /\ in.nodes # <<>>
      /\ Determined(causes) /\ (HasBlocker(causes) <=> ObstaclesSeen)
  BY <1>2, StageFacts
<1>4. Len(items) \in Nat /\ DOMAIN items = 1..Len(items) /\ i <= Len(items) + 1
  BY <1>1, <1>3, InputsAssumption DEF IndexInv, IsSequence, WellFormed, WellFormedPod, NamesUnique
<1>5. /\ ExtendedSeen' <=> ExtendedSeen
      /\ SpreadSeen' <=> SpreadSeen
      /\ AffinitySeen' <=> AffinitySeen
      /\ ClaimsSeen' <=> ClaimsSeen
  BY <1>1, <1>3 DEF CheckItems, CheckAntiAffinity, ExtendedSeen, SpreadSeen, AffinitySeen, ClaimsSeen,
     turned, AfterExtended, AfterSpread, AfterAffinity, AfterAntiAffinity, AfterClaims
<1>6. CASE i <= Len(items)
  <2>1. causes' = causes \o new /\ i' = i + 1 /\ pc' = pc
    <3>1. ~(i > Len(items))
      BY <1>3, <1>4, <1>6
    <3> QED
      BY <3>1, Zenon DEF CheckAntiAffinity, CheckItems
  <2>2. Blocking(new) /\ (HasBlocker(new) <=> AntiAffinityObstructs(in, items[i]))
    BY <1>3, <1>4, <1>6, AffinityBlocking, AffinityFaithful
  <2> HIDE DEF new
  <2>3. Determined(causes') /\ (HasBlocker(causes') <=> HasBlocker(causes) \/ HasBlocker(new))
    BY <1>3, <2>1, <2>2, TurnAdds
  <2>4. AntiAffinitySeen' <=> AntiAffinitySeen \/ AntiAffinityObstructs(in, items[i])
    <3>1. /\ turned("antiAffinity", items, AfterAntiAffinity) = i - 1
          /\ turned("antiAffinity", items, AfterAntiAffinity)' = i' - 1
      BY <1>1, <2>1 DEF turned, AfterExtended, AfterSpread, AfterAffinity, AfterAntiAffinity,
         AfterClaims
    <3>2. i' - 1 = i /\ 1..i = (1..(i - 1)) \cup {i}
      BY <1>3, <2>1
    <3> QED
      BY <1>1, <3>1, <3>2 DEF AntiAffinitySeen
  <2> QED
    BY <1>1, <1>2, <1>3, <1>5, <2>1, <2>2, <2>3, <2>4, StageKept DEF ObstaclesSeen
<1>7. CASE i > Len(items)
  <2>1. causes' = causes /\ i' = 1 /\ pc' = "claims"
    BY <1>3, <1>4, <1>7 DEF CheckAntiAffinity, CheckItems
  <2>2. AntiAffinitySeen' <=> AntiAffinitySeen
    <3>1. i - 1 = Len(items)
      BY <1>3, <1>4, <1>7
    <3>2. /\ turned("antiAffinity", items, AfterAntiAffinity) = Len(items)
          /\ turned("antiAffinity", items, AfterAntiAffinity)' = Len(items)
      BY <1>1, <2>1, <3>1 DEF turned, AfterExtended, AfterSpread, AfterAffinity, AfterAntiAffinity,
         AfterClaims
    <3> QED
      BY <1>1, <3>2 DEF AntiAffinitySeen
  <2>3. pc' \in AfterCapacity
    BY <2>1 DEF AfterCapacity, AfterExtended, AfterSpread, AfterAffinity, AfterAntiAffinity, AfterClaims
  <2> QED
    BY <1>1, <1>3, <1>5, <2>1, <2>2, <2>3, StageKept DEF ObstaclesSeen
<1> QED
  BY <1>3, <1>4, <1>6, <1>7

\* analyze.go:345: one claim of the pod is checked, or the stages are over.
LEMMA StageClaims == TypeOK /\ LoopInv /\ IndexInv /\ StageInv /\ CheckClaims => StageInv'
<1> SUFFICES ASSUME TypeOK, LoopInv, IndexInv, StageInv, CheckClaims PROVE StageInv'
  OBVIOUS
<1> DEFINE items == in.pod.resourceClaims
           new == AnalyzeDRA(in.pod.resourceClaims[i], in.pod, in.dra)
<1>1. pc = "claims" /\ UNCHANGED <<in, tally>>
  BY DEF CheckClaims, CheckItems
<1>2. pc \in AfterCapacity
  BY <1>1 DEF AfterCapacity, AfterExtended, AfterSpread, AfterAffinity, AfterAntiAffinity, AfterClaims
<1>3. /\ in \in Inputs /\ eligible \in Seq(Range(in.nodes)) /\ Range(eligible) = Candidates(in)
      /\ i \in Nat \ {0} /\ in.nodes # <<>>
      /\ Determined(causes) /\ (HasBlocker(causes) <=> ObstaclesSeen)
  BY <1>2, StageFacts
<1>4. Len(items) \in Nat /\ DOMAIN items = 1..Len(items) /\ i <= Len(items) + 1
  BY <1>1, <1>3, InputsAssumption DEF IndexInv, IsSequence, WellFormed, WellFormedPod, NamesUnique
<1>5. /\ ExtendedSeen' <=> ExtendedSeen
      /\ SpreadSeen' <=> SpreadSeen
      /\ AffinitySeen' <=> AffinitySeen
      /\ AntiAffinitySeen' <=> AntiAffinitySeen
  BY <1>1, <1>3 DEF CheckItems, CheckClaims, ExtendedSeen, SpreadSeen, AffinitySeen, AntiAffinitySeen,
     turned, AfterExtended, AfterSpread, AfterAffinity, AfterAntiAffinity, AfterClaims
<1>6. CASE i <= Len(items)
  <2>1. causes' = causes \o new /\ i' = i + 1 /\ pc' = pc
    <3>1. ~(i > Len(items))
      BY <1>3, <1>4, <1>6
    <3> QED
      BY <3>1, Zenon DEF CheckClaims, CheckItems
  <2>2. Blocking(new) /\ (HasBlocker(new) <=> ClaimObstructs(in, items[i]))
    BY <1>3, <1>4, <1>6, ClaimsBlocking, ClaimsFaithful
  <2> HIDE DEF new
  <2>3. Determined(causes') /\ (HasBlocker(causes') <=> HasBlocker(causes) \/ HasBlocker(new))
    BY <1>3, <2>1, <2>2, TurnAdds
  <2>4. ClaimsSeen' <=> ClaimsSeen \/ ClaimObstructs(in, items[i])
    <3>1. /\ turned("claims", items, AfterClaims) = i - 1
          /\ turned("claims", items, AfterClaims)' = i' - 1
      BY <1>1, <2>1 DEF turned, AfterExtended, AfterSpread, AfterAffinity, AfterAntiAffinity,
         AfterClaims
    <3>2. i' - 1 = i /\ 1..i = (1..(i - 1)) \cup {i}
      BY <1>3, <2>1
    <3> QED
      BY <1>1, <3>1, <3>2 DEF ClaimsSeen
  <2> QED
    BY <1>1, <1>2, <1>3, <1>5, <2>1, <2>2, <2>3, <2>4, StageKept DEF ObstaclesSeen
<1>7. CASE i > Len(items)
  <2>1. causes' = causes /\ i' = 1 /\ pc' = "conclude"
    BY <1>3, <1>4, <1>7 DEF CheckClaims, CheckItems
  <2>2. ClaimsSeen' <=> ClaimsSeen
    <3>1. i - 1 = Len(items)
      BY <1>3, <1>4, <1>7
    <3>2. /\ turned("claims", items, AfterClaims) = Len(items)
          /\ turned("claims", items, AfterClaims)' = Len(items)
      BY <1>1, <2>1, <3>1 DEF turned, AfterExtended, AfterSpread, AfterAffinity, AfterAntiAffinity,
         AfterClaims
    <3> QED
      BY <1>1, <3>2 DEF ClaimsSeen
  <2>3. pc' \in AfterCapacity
    BY <2>1 DEF AfterCapacity, AfterExtended, AfterSpread, AfterAffinity, AfterAntiAffinity, AfterClaims
  <2> QED
    BY <1>1, <1>3, <1>5, <2>1, <2>2, <2>3, StageKept DEF ObstaclesSeen
<1> QED
  BY <1>3, <1>4, <1>6, <1>7

\* analyze.go:347-370: the last stage adds no Blocker, and needs no fallback.
LEMMA StageConclude == TypeOK /\ LoopInv /\ IndexInv /\ StageInv /\ Conclude => StageInv'
<1> SUFFICES ASSUME TypeOK, LoopInv, IndexInv, StageInv, Conclude PROVE StageInv'
  OBVIOUS
<1> USE DEF AfterCapacity, AfterExtended, AfterSpread, AfterAffinity, AfterAntiAffinity, AfterClaims
<1>1. pc = "conclude" /\ pc' = "done" /\ in' = in /\ causes' \in sortCauses(conclusion)
  BY DEF Conclude
<1>2. pc \in AfterCapacity
  BY <1>1
<1>3. /\ in \in Inputs /\ in.nodes # <<>>
      /\ Determined(causes) /\ (HasBlocker(causes) <=> ObstaclesSeen)
  BY <1>2, StageFacts
<1>4. fit > 0 <=> ~NodesObstruct(in)
  BY <1>1, AfterLoop
<1>5. ObstaclesSeen <=> Obstructed(in)
  <2>1. /\ DOMAIN ExtNames = 1..Len(ExtNames)
        /\ DOMAIN in.pod.spread = 1..Len(in.pod.spread)
        /\ DOMAIN in.pod.affinity = 1..Len(in.pod.affinity)
        /\ DOMAIN in.pod.antiAffinity = 1..Len(in.pod.antiAffinity)
        /\ DOMAIN in.pod.resourceClaims = 1..Len(in.pod.resourceClaims)
    BY <1>3, ExtNamesAssumption, InputsAssumption DEF IsSequence, WellFormed, WellFormedPod, NamesUnique
  <2>2. ExtendedSeen <=> \E name \in Range(ExtNames) : ExtendedObstructs(in, name)
    BY <1>1, <2>1 DEF ExtendedSeen, turned, Range
  <2>3. SpreadSeen <=> \E c \in Range(in.pod.spread) : SpreadObstructs(in, c)
    BY <1>1, <2>1 DEF SpreadSeen, turned, Range
  <2>4. AffinitySeen <=> \E t \in Range(in.pod.affinity) : AffinityObstructs(in, t)
    BY <1>1, <2>1 DEF AffinitySeen, turned, Range
  <2>5. AntiAffinitySeen <=> \E t \in Range(in.pod.antiAffinity) : AntiAffinityObstructs(in, t)
    BY <1>1, <2>1 DEF AntiAffinitySeen, turned, Range
  <2>6. ClaimsSeen <=> \E prc \in Range(in.pod.resourceClaims) : ClaimObstructs(in, prc)
    BY <1>1, <2>1 DEF ClaimsSeen, turned, Range
  <2> QED
    BY <2>2, <2>3, <2>4, <2>5, <2>6 DEF ObstaclesSeen, Obstructed
<1>6. Determined(conclusion) /\ (HasBlocker(conclusion) <=> HasBlocker(causes))
  <2>1. CASE causes # <<>>
    BY <1>3, <2>1 DEF conclusion
  <2>2. CASE causes = <<>>
    <3>1. ~HasBlocker(causes)
      BY <2>2, BlockersOf
    <3>2. fit > 0
      BY <1>3, <1>4, <3>1 DEF ObstaclesSeen
    <3> DEFINE fits == Cause(Info, "LooksLikeItFits", "", fit)
    <3>3. conclusion = <<fits>>
      BY <2>2, <3>2, Zenon DEF conclusion
    <3>4. Determined(<<fits>>)
      BY <1>3, DeterminedOfOne
    <3>5. fits.severity # Blocker
      BY DEF Cause, Info, Blocker
    <3> HIDE DEF fits
    <3>6. ~HasBlocker(<<fits>>)
      BY <3>5, ShortLists, HasBlockerRange
    <3> QED
      BY <3>1, <3>3, <3>4, <3>6
  <2> QED
    BY <2>1, <2>2
<1>7. Determined(causes') /\ (HasBlocker(causes') <=> HasBlocker(conclusion))
  BY <1>1, <1>6, SortKeepsCauses, HasBlockerRange DEF Determined
<1> QED
  BY <1>1, <1>3, <1>5, <1>6, <1>7 DEF StageInv, Determined

\* Classifying a node changes no cause.
LEMMA StageNodes == StageInv /\ (RejectNode \/ AdmitNode) => StageInv'
<1> SUFFICES ASSUME StageInv, RejectNode \/ AdmitNode PROVE StageInv'
  OBVIOUS
<1>1. pc = "nodes" /\ UNCHANGED <<in, pc, causes>>
  BY DEF RejectNode, AdmitNode
<1> QED
  BY <1>1 DEF StageInv, AfterCapacity, AfterExtended, AfterSpread, AfterAffinity, AfterAntiAffinity,
     AfterClaims

-----------------------------------------------------------------------------
(* The invariant is inductive *)

\* Nothing has been looked at when Analyze is called.
LEMMA InvInit == Init => IInv
<1> SUFFICES ASSUME Init PROVE IInv
  OBVIOUS
<1>1. TypeOK
  BY TypeInit
<1>2. in \in Inputs /\ pc = "pvcs" /\ i = 1 /\ verdicts = <<>> /\ eligible = <<>> /\ causes = <<>> /\ fit = 0
  BY DEF Init
<1>3. seen = 0 /\ seenNodes = {} /\ Len(in.nodes) \in Nat
  BY <1>2, InputFacts DEF seen, seenNodes
<1>4. LoopInv
  <2>1. Range(eligible) = {} /\ Len(verdicts) = 0
    BY <1>2, ShortLists
  <2>2. 1..seen = {}
    BY <1>3
  <2>3. ~(fit > 0)
    BY <1>2
  <2> QED
    BY <1>3, <2>1, <2>2, <2>3 DEF LoopInv
<1>5. IndexInv
  BY <1>2 DEF IndexInv
<1>6. StageInv
  BY <1>2, BlockersOf, ShortLists DEF StageInv, AfterCapacity, AfterExtended, AfterSpread, AfterAffinity,
     AfterAntiAffinity, AfterClaims
<1> QED
  BY <1>1, <1>4, <1>5, <1>6 DEF IInv

\* The steps outside the loop neither add a node to those seen nor change a tally.
LEMMA LoopOver ==
  ASSUME TypeOK, LoopInv, IndexInv, Next, ~RejectNode, ~AdmitNode
  PROVE  UNCHANGED <<in, tally>> /\ seen' = seen
<1>1. UNCHANGED <<in, tally>>
  BY DEF Next, ReportPVCs, FinishNodes, ReportFilters, AnalyzeCapacity, CheckExtended, CheckSpread,
     CheckAffinity, CheckAntiAffinity, CheckClaims, CheckItems, Conclude, Done, vars
<1>2. seen' = seen
  <2>1. CASE ReportPVCs
    <3>1. pc = "pvcs" /\ pc' = "nodes" /\ i = 1 /\ i' = i
      BY <2>1 DEF ReportPVCs, IndexInv
    <3>2. seen = 0 /\ seen' = i' - 1
      BY <3>1 DEF seen
    <3> QED
      BY <3>1, <3>2
  <2>2. CASE FinishNodes
    <3>1. pc = "nodes" /\ i > Len(in.nodes) /\ pc' \in {"filters", "done"} /\ in' = in
      BY <2>2 DEF FinishNodes
    <3>2. seen = i - 1 /\ seen' = Len(in.nodes)
      BY <3>1 DEF seen
    <3> QED
      BY <3>1, <3>2, InputFacts DEF LoopInv, TypeOK
  <2>3. CASE Done
    BY <2>3 DEF Done, vars, seen
  <2>4. CASE \/ ReportFilters \/ AnalyzeCapacity \/ CheckExtended \/ CheckSpread \/ CheckAffinity
             \/ CheckAntiAffinity \/ CheckClaims \/ Conclude
    <3>1. pc \notin {"pvcs", "nodes"} /\ pc' \notin {"pvcs", "nodes"}
      BY <2>4 DEF ReportFilters, AnalyzeCapacity, CheckExtended, CheckSpread,
         CheckAffinity, CheckAntiAffinity, CheckClaims, CheckItems, Conclude
    <3> QED
      BY <1>1, <3>1 DEF seen
  <2> QED
    BY <2>1, <2>2, <2>3, <2>4 DEF Next
<1> QED
  BY <1>1, <1>2

\* So they keep what the tallies say.
LEMMA LoopOther ==
  ASSUME TypeOK, LoopInv, IndexInv, Next, ~RejectNode, ~AdmitNode
  PROVE  LoopInv'
BY LoopOver, LoopFrame

\* A loop is entered at its first item and left after its last.
LEMMA IndexNext ==
  ASSUME TypeOK, IndexInv, Next
  PROVE  IndexInv'
<1>1. /\ Len(ExtNames) \in Nat /\ Len(in.pod.spread) \in Nat /\ Len(in.pod.affinity) \in Nat
      /\ Len(in.pod.antiAffinity) \in Nat /\ Len(in.pod.resourceClaims) \in Nat /\ i \in Nat
      /\ in' = in
  <2>1. in' = in
    BY DEF Next, ReportPVCs, RejectNode, AdmitNode, FinishNodes, ReportFilters, AnalyzeCapacity,
       CheckExtended, CheckSpread, CheckAffinity, CheckAntiAffinity, CheckClaims, CheckItems,
       Conclude, Done, vars
  <2> QED
    BY <2>1, ExtNamesAssumption, InputsAssumption DEF TypeOK, IsSequence, WellFormed, WellFormedPod, NamesUnique
<1>2. CASE ReportPVCs \/ RejectNode \/ AdmitNode \/ Conclude
  <2>1. pc' \in {"nodes", "done"}
    BY <1>2 DEF ReportPVCs, RejectNode, AdmitNode, Conclude
  <2> QED
    BY <2>1 DEF IndexInv
<1>3. CASE FinishNodes \/ ReportFilters \/ AnalyzeCapacity
  <2>1. i' = 1
    BY <1>3 DEF FinishNodes, ReportFilters, AnalyzeCapacity, IndexInv
  <2> QED
    BY <1>1, <2>1 DEF IndexInv
<1>4. CASE CheckExtended
  BY <1>1, <1>4 DEF CheckExtended, CheckItems, IndexInv
<1>5. CASE CheckSpread
  BY <1>1, <1>5 DEF CheckSpread, CheckItems, IndexInv
<1>6. CASE CheckAffinity
  BY <1>1, <1>6 DEF CheckAffinity, CheckItems, IndexInv
<1>7. CASE CheckAntiAffinity
  BY <1>1, <1>7 DEF CheckAntiAffinity, CheckItems, IndexInv
<1>8. CASE CheckClaims
  BY <1>1, <1>8 DEF CheckClaims, CheckItems, IndexInv
<1>9. CASE Done
  BY <1>9 DEF Done, vars, IndexInv
<1> QED
  BY <1>2, <1>3, <1>4, <1>5, <1>6, <1>7, <1>8, <1>9 DEF Next

\* Every step keeps the invariant.
LEMMA InvNext == IInv /\ [Next]_vars => IInv'
<1> SUFFICES ASSUME IInv, [Next]_vars PROVE IInv'
  OBVIOUS
<1>1. TypeOK /\ LoopInv /\ IndexInv /\ StageInv
  BY DEF IInv
<1>2. TypeOK'
  BY <1>1, TypeNext
<1>3. CASE UNCHANGED vars
  <2>1. UNCHANGED <<in, tally>> /\ pc' = pc /\ i' = i /\ causes' = causes
    BY <1>3 DEF vars
  <2>2. LoopInv'
    BY <1>1, <2>1, LoopFrame DEF seen
  <2>3. IndexInv'
    BY <1>1, <2>1 DEF IndexInv
  <2>4. StageInv'
    BY <1>1, <2>1 DEF StageInv, ObstaclesSeen, ExtendedSeen, SpreadSeen, AffinitySeen,
       AntiAffinitySeen, ClaimsSeen, turned
  <2> QED
    BY <1>2, <2>2, <2>3, <2>4 DEF IInv
<1>4. CASE Next
  <2>1. LoopInv'
    BY <1>1, <1>4, LoopReject, LoopAdmit, LoopOther
  <2>2. IndexInv'
    BY <1>1, <1>4, IndexNext
  <2>3. StageInv'
    <3>1. CASE Done
      BY <1>1, <3>1 DEF Done, vars, StageInv, AfterCapacity, AfterExtended, AfterSpread, AfterAffinity,
         AfterAntiAffinity, AfterClaims
    <3> QED
      BY <1>1, <1>4, <3>1, StagePVCs, StageNodes, StageFinish, StageFilters, StageCapacity,
         StageExtended, StageSpread, StageAffinity, StageAntiAffinity, StageClaims, StageConclude
         DEF Next
  <2> QED
    BY <1>2, <2>1, <2>2, <2>3 DEF IInv
<1> QED
  BY <1>3, <1>4

\* Whatever the Input, the tallies, the loop index and the causes stay faithful to it.
THEOREM Faithful == Spec => []IInv
<1> QED
  BY InvInit, InvNext, PTL DEF Spec

-----------------------------------------------------------------------------
(* What follows *)

\* analyze.go:360-362: the defensive fallback is never taken, on no cluster and for no pod.
THEOREM NeverFallsBack == Spec => []NeverUndetermined
<1>1. IInv => NeverUndetermined
  BY DEF IInv, StageInv, NeverUndetermined, titles, Range
<1> QED
  BY <1>1, Faithful, PTL

\* A pod that no node can take is always reported with a Blocker, so exit code 1.
THEOREM NoRoomBlocked == Spec => []NoRoomIsBlocked
<1>1. IInv => NoRoomIsBlocked
  BY DEF IInv, StageInv, NoRoomIsBlocked, Obstructed
<1> QED
  BY <1>1, Faithful, PTL

\* The diagnosis blocks exactly the pods that the Input obstructs.
BlockedExactly == pc = "done" => (HasBlocker(causes) <=> Obstructed(in))

\* A Blocker is reported exactly when something in the Input obstructs the pod.
THEOREM BlocksExactly == Spec => []BlockedExactly
<1>1. IInv => BlockedExactly
  BY DEF IInv, StageInv, BlockedExactly
<1> QED
  BY <1>1, Faithful, PTL

-----------------------------------------------------------------------------
(* The refinement, without its fairness *)

\* The reasons shown when the pass is over are those that Diagnosis asks for.
ReasonsPromised ==
  pc = "done" => [k \in DOMAIN verdicts |-> verdicts[k].reason]
                   = [k \in DOMAIN in.nodes |-> ReasonFor(in.pod, in.nodes[k])]

\* When the pass is over every node has its verdict, and it is the right one.
LEMMA ReasonsRight == IInv => ReasonsPromised
<1> SUFFICES ASSUME IInv, pc = "done"
             PROVE  [k \in DOMAIN verdicts |-> verdicts[k].reason]
                      = [k \in DOMAIN in.nodes |-> ReasonFor(in.pod, in.nodes[k])]
  BY DEF ReasonsPromised
<1>1. seen = Len(in.nodes)
  BY DEF seen
<1>2. DOMAIN verdicts = 1..Len(verdicts) /\ DOMAIN in.nodes = 1..Len(in.nodes)
  BY InputFacts DEF IInv, TypeOK, IsSequence
<1>3. /\ Len(verdicts) = seen
      /\ \A k \in 1..seen : verdicts[k].reason = ReasonFor(in.pod, in.nodes[k])
  BY DEF IInv, LoopInv
<1> QED
  BY <1>1, <1>2, <1>3

\* A pass that has not begun shows no answer.
LEMMA PromiseInit == Init => Promise!Init
BY DEF Init, Promise!Init

\* Every step of the pass shows nothing, or is the one step that gives the promised answer.
LEMMA PromiseNext ==
  StageInv' /\ ReasonsPromised' /\ [Next]_vars => [Promise!Answer]_Promise!vars
<1> SUFFICES ASSUME StageInv', ReasonsPromised', [Next]_vars
             PROVE  [Promise!Answer]_Promise!vars
  OBVIOUS
<1>1. CASE UNCHANGED vars
  BY <1>1 DEF vars, tally, Promise!vars, HasBlocker
<1>2. CASE Next /\ pc' # "done"
  <2>1. in' = in /\ pc # "done"
    BY <1>2 DEF Next, ReportPVCs, RejectNode, AdmitNode, FinishNodes, ReportFilters, AnalyzeCapacity,
       CheckExtended, CheckSpread, CheckAffinity, CheckAntiAffinity, CheckClaims, CheckItems,
       Conclude, Done, vars
  <2> QED
    BY <1>2, <2>1 DEF Promise!vars
<1>3. CASE Next /\ pc # "done" /\ pc' = "done"
  <2>1. in' = in
    BY <1>3 DEF Next, ReportPVCs, RejectNode, AdmitNode, FinishNodes, ReportFilters, AnalyzeCapacity,
       CheckExtended, CheckSpread, CheckAffinity, CheckAntiAffinity, CheckClaims, CheckItems,
       Conclude, Done, vars
  <2>2. [k \in DOMAIN verdicts' |-> verdicts'[k].reason]
          = [k \in DOMAIN in'.nodes |-> ReasonFor(in'.pod, in'.nodes[k])]
    BY <1>3 DEF ReasonsPromised
  <2>3. (pc' = "done" /\ HasBlocker(causes')) = Obstructed(in)
    <3>1. HasBlocker(causes') <=> Obstructed(in')
      BY <1>3 DEF StageInv
    <3> QED
      BY <1>3, <2>1, <3>1 DEF HasBlocker, Obstructed
  <2> QED
    BY <1>3, <2>1, <2>2, <2>3 DEF Promise!Answer
<1>4. CASE Next /\ pc = "done"
  <2>1. UNCHANGED vars
    BY <1>4 DEF Next, ReportPVCs, RejectNode, AdmitNode, FinishNodes, ReportFilters, AnalyzeCapacity,
       CheckExtended, CheckSpread, CheckAffinity, CheckAntiAffinity, CheckClaims, CheckItems,
       Conclude, Done
  <2> QED
    BY <1>1, <2>1
<1> QED
  BY <1>1, <1>2, <1>3, <1>4

\* Analyze implements what Diagnosis promises: whatever the cluster and the pod, all steps
\* but one look like stuttering and that one gives the promised reasons and severity.
THEOREM KeepsPromiseSafely == Spec => Promise!Init /\ [][Promise!Answer]_Promise!vars
<1>1. IInv => StageInv /\ ReasonsPromised
  BY ReasonsRight DEF IInv
<1> QED
  BY <1>1, PromiseInit, PromiseNext, Faithful, PTL DEF Spec
=============================================================================
