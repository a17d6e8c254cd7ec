----------------------- MODULE OperatorChain_proofs ------------------------
(***************************************************************************)
(* The link that AnalyzeOperatorChain names as the first broken one is the *)
(* first broken one, for any pods, any matching of names to links and any  *)
(* order in which pods of one name come out of the sort.                   *)
(***************************************************************************)
EXTENDS OperatorChain, TLAPS

\* The loop is at a link of the chain or past the last, and its pods have names.
ChainTyped ==
  /\ link \in Nat \ {0} /\ link <= Len(gpuChain) + 1
  /\ \A i \in DOMAIN chainPods :
       /\ chainPods[i].name \in DOMAIN StepsOf
       /\ chainPods[i].ns \in STRING /\ chainPods[i].node \in STRING

\* The chain has eight links.
LEMMA ChainLinks == Len(gpuChain) = 8 /\ Links = 1..8
  BY DEF gpuChain, Links

\* A broken component is not nil, so a pointer to one tells that there is one.
LEMMA ComponentNotNil ==
  ASSUME ChainTyped, NEW s \in Links, NEW i \in DOMAIN chainPods
  PROVE  Component(s, chainPods[i], FALSE) # Nil
<1>1. /\ gpuChain[s] \in {gpuChain[t] : t \in Links}
      /\ chainPods[i].name \in DOMAIN StepsOf
      /\ chainPods[i].ns \in STRING /\ chainPods[i].node \in STRING
  BY DEF ChainTyped
<1>2. Component(s, chainPods[i], FALSE)
        \in [name : {gpuChain[t] : t \in Links}, pod : DOMAIN StepsOf,
            ns : STRING, node : STRING, healthy : BOOLEAN]
  BY <1>1 DEF Component
<1> QED
  BY <1>2, NilAssumption

\* Going on to the next link keeps what was said of the links before, when
\* nothing is said of this one because it is whole or because an earlier one is
\* broken.
LEMMA LinkPassed ==
  ASSUME FirstBrokenIsFirst, ChainTyped, UNCHANGED chainPods, link' = link + 1,
         chain'.firstBroken = chain.firstBroken,
         chain.firstBroken # Nil \/ ~Broken(link, chainPods)
  PROVE  FirstBrokenIsFirst'
<1>1. 1..(link' - 1) = 1..(link - 1) \cup {link}
  BY DEF ChainTyped
<1>2. CASE chain.firstBroken = Nil
  <2>1. \A s \in 1..(link' - 1) : ~Broken(s, chainPods)
    BY <1>1, <1>2 DEF FirstBrokenIsFirst
  <2>2. chainPods' = chainPods /\ chain'.firstBroken = Nil
    BY <1>2
  <2> QED
    BY <2>1, <2>2 DEF FirstBrokenIsFirst, Broken
<1>3. CASE chain.firstBroken # Nil
  <2>1. PICK s \in 1..(link - 1) :
          /\ chain.firstBroken.name = gpuChain[s]
          /\ \A t \in 1..(s - 1) : ~Broken(t, chainPods)
          /\ \E i \in DOMAIN chainPods :
               /\ s \in StepsOf[chainPods[i].name]
               /\ ~chainPodHealth(chainPods[i])
               /\ chain.firstBroken.pod = chainPods[i].name
               /\ chain.firstBroken.ns = chainPods[i].ns
               /\ chain.firstBroken.node = chainPods[i].node
    BY <1>3 DEF FirstBrokenIsFirst
  <2>2. s \in 1..(link' - 1)
    BY <1>1
  <2>3. chainPods' = chainPods /\ chain'.firstBroken = chain.firstBroken
    OBVIOUS
  <2> QED
    BY <1>3, <2>1, <2>2, <2>3 DEF FirstBrokenIsFirst, Broken
<1> QED
  BY <1>2, <1>3

\* The loop starts with nothing said of any link.
LEMMA ChainStart == ChainInit => ChainTyped /\ FirstBrokenIsFirst
<1> SUFFICES ASSUME ChainInit
             PROVE  ChainTyped /\ FirstBrokenIsFirst
  OBVIOUS
<1>1. ChainTyped
  BY ChainLinks DEF ChainInit, ChainTyped
<1>2. chain.firstBroken = Nil /\ 1..(link - 1) = {}
  BY DEF ChainInit, NoChain
<1> QED
  BY <1>1, <1>2 DEF FirstBrokenIsFirst

LEMMA ChainStep == ChainTyped /\ FirstBrokenIsFirst /\ [ChainNext]_chainVars => ChainTyped' /\ FirstBrokenIsFirst'
<1> SUFFICES ASSUME ChainTyped, FirstBrokenIsFirst, [ChainNext]_chainVars
             PROVE  ChainTyped' /\ FirstBrokenIsFirst'
  OBVIOUS
<1>1. CASE SkipLink
  <2>1. ~Broken(link, chainPods)
    BY <1>1 DEF SkipLink, matchChainPods, Broken
  <2>2. ChainTyped'
    BY <1>1, ChainLinks DEF SkipLink, ChainTyped
  <2> QED
    BY <1>1, <2>1, <2>2, LinkPassed DEF SkipLink
<1>2. CASE ObserveLink
  <2> DEFINE matches == matchChainPods(chainPods, link)
             broken == {i \in matches : ~chainPodHealth(chainPods[i])}
  <2>1. PICK i \in sortedFirst(chainPods, IF broken = {} THEN matches ELSE broken) :
          chain' = withComponent(chain, Component(link, chainPods[i], broken = {}))
    BY <1>2 DEF ObserveLink
  <2>2. /\ UNCHANGED chainPods /\ link' = link + 1 /\ link \in Links
    BY <1>2 DEF ObserveLink
  <2>3. ChainTyped'
    BY <2>2, ChainLinks DEF ChainTyped
  <2>4. Broken(link, chainPods) <=> broken # {}
    BY DEF Broken, matchChainPods
  <2>5. CASE broken = {} \/ chain.firstBroken # Nil
    <3>1. chain'.firstBroken = chain.firstBroken
      BY <2>1, <2>5 DEF withComponent, Component
    <3> QED
      BY <2>2, <2>3, <2>4, <2>5, <3>1, LinkPassed
  <2>6. CASE broken # {} /\ chain.firstBroken = Nil
    <3>1. i \in broken
      BY <2>1, <2>6 DEF sortedFirst
    <3>2. i \in DOMAIN chainPods /\ link \in StepsOf[chainPods[i].name] /\ ~chainPodHealth(chainPods[i])
      BY <3>1 DEF matchChainPods
    <3>3. chain'.firstBroken = Component(link, chainPods[i], FALSE)
      BY <2>1, <2>6 DEF withComponent, Component
    <3>4. chain'.firstBroken # Nil
      BY <2>2, <3>2, <3>3, ComponentNotNil
    <3>5. \A t \in 1..(link - 1) : ~Broken(t, chainPods)
      BY <2>6 DEF FirstBrokenIsFirst
    <3>6. /\ chain'.firstBroken.name = gpuChain[link]
          /\ chain'.firstBroken.pod = chainPods[i].name
          /\ chain'.firstBroken.ns = chainPods[i].ns
          /\ chain'.firstBroken.node = chainPods[i].node
      BY <3>3 DEF Component
    <3>7. link \in 1..(link' - 1)
      BY <2>2, ChainLinks
    <3>8. chainPods' = chainPods
      BY <2>2
    <3>9. FirstBrokenIsFirst'
      BY <3>2, <3>4, <3>5, <3>6, <3>7, <3>8 DEF FirstBrokenIsFirst, Broken
    <3> QED
      BY <2>3, <3>9
  <2> QED
    BY <2>5, <2>6
<1>3. CASE UNCHANGED chainVars
  BY <1>3 DEF chainVars, ChainTyped, FirstBrokenIsFirst, Broken
<1> QED
  BY <1>1, <1>2, <1>3 DEF ChainNext

\* operator.go:169, "Fix the ... first": whatever pods run, the link named is
\* broken at the pod named and every link before it is whole; and if none is
\* named, every link looked at is whole.
THEOREM NamesFirstBroken == ChainSpec => []FirstBrokenIsFirst
<1>1. ChainTyped /\ FirstBrokenIsFirst /\ [ChainNext]_chainVars => (ChainTyped /\ FirstBrokenIsFirst)'
  BY ChainStep
<1> QED
  BY ChainStart, <1>1, PTL DEF ChainSpec
=============================================================================
