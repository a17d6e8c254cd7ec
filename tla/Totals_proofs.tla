---------------------------- MODULE Totals_proofs ----------------------------
(***************************************************************************)
(* What the totals over a list are, one pod after the other: each is that  *)
(* of the pods before it with the pod added.  Functions that are defined   *)
(* by recursion over a list exist and satisfy their equations because a    *)
(* non-empty set of natural numbers has a least element.                   *)
(***************************************************************************)
EXTENDS Totals, WellFoundedInduction, TLAPS

-----------------------------------------------------------------------------
(* Induction and recursion over the natural numbers *)

LEMMA Least ==
  ASSUME NEW T \in SUBSET Nat, T # {}
  PROVE  \E m \in T : \A k \in T : m <= k
<1>1. PICK m \in T : \A k \in T : ~(<<k, m>> \in OpToRel(<, Nat))
  BY NatLessThanWellFounded, WFMin
<1>2. \A k \in T : ~(k < m)
  BY <1>1 DEF OpToRel
<1>3. m \in Nat /\ \A k \in T : k \in Nat
  OBVIOUS
<1>4. \A k \in T : m <= k
  BY <1>2, <1>3
<1> QED
  BY <1>4

\* A set that holds 0 and the successors of its numbers holds them all.
LEMMA Induct ==
  ASSUME NEW T, 0 \in T, \A n \in Nat : n \in T => n + 1 \in T
  PROVE  Nat \subseteq T
<1> SUFFICES ASSUME Nat \ T # {} PROVE FALSE
  OBVIOUS
<1>1. PICK m \in Nat \ T : \A k \in Nat \ T : m <= k
  BY Least
<1>2. m - 1 \in Nat
  BY <1>1
<1>3. m - 1 \in T
  BY <1>1, <1>2
<1>4. (m - 1) + 1 \in T
  BY <1>2, <1>3
<1> QED
  BY <1>1, <1>4

\* The same up to a bound.
LEMMA InductUpTo ==
  ASSUME NEW N \in Nat, NEW T, 0 \in T, \A n \in 1..N : n - 1 \in T => n \in T
  PROVE  0..N \subseteq T
<1> DEFINE S == {n \in Nat : n <= N => n \in T}
<1>1. \A n \in Nat : n \in S => n + 1 \in S
  <2> SUFFICES ASSUME NEW n \in Nat, n \in S, n + 1 <= N
               PROVE  n + 1 \in T
    OBVIOUS
  <2>1. n \in T /\ n + 1 \in 1..N /\ (n + 1) - 1 = n
    OBVIOUS
  <2> QED
    BY <2>1
<1>2. Nat \subseteq S
  <2> HIDE DEF S
  <2>1. 0 \in S
    BY DEF S
  <2> QED
    BY <2>1, <1>1, Induct
<1> QED
  BY <1>2

\* What is done at each of N positions with the value found so far.
Steps(N, V) == [1..N -> [V -> V]]

\* The values found, from the first one on.
Unrolls(f, a, step, N) ==
  f = [n \in 0..N |-> IF n = 0 THEN a ELSE step[n][f[n - 1]]]

LEMMA Recursion ==
  ASSUME NEW V, NEW a \in V, NEW N \in Nat, NEW step \in Steps(N, V)
  PROVE  \E f : f \in [0..N -> V] /\ Unrolls(f, a, step, N)
<1> DEFINE Upto(m) == \E f \in [0..m -> V] : f[0] = a /\ \A n \in 1..m : f[n] = step[n][f[n - 1]]
           T == {m \in Nat : m <= N => Upto(m)}
<1>1. Upto(0)
  <2>1. [n \in 0..0 |-> a] \in [0..0 -> V] /\ [n \in 0..0 |-> a][0] = a /\ 1..0 = {}
    OBVIOUS
  <2> QED
    BY <2>1
<1>2. ASSUME NEW m \in Nat, Upto(m), m + 1 <= N
      PROVE  Upto(m + 1)
  <2>1. PICK f \in [0..m -> V] : f[0] = a /\ \A n \in 1..m : f[n] = step[n][f[n - 1]]
    BY <1>2
  <2> DEFINE g == [n \in 0..m + 1 |-> IF n = m + 1 THEN step[m + 1][f[m]] ELSE f[n]]
  <2>2. m \in 0..m /\ m + 1 \in 1..N
    BY <1>2
  <2>3. step[m + 1][f[m]] \in V
    BY <2>2 DEF Steps
  <2>4. g \in [0..m + 1 -> V]
    BY <2>3
  <2>5. g[0] = a
    BY <2>1
  <2>6. ASSUME NEW n \in 1..m + 1
        PROVE  g[n] = step[n][g[n - 1]]
    <3>1. n - 1 \in 0..m /\ g[n - 1] = f[n - 1]
      OBVIOUS
    <3>2. CASE n = m + 1
      BY <3>1, <3>2
    <3>3. CASE n # m + 1
      <4>1. n \in 1..m /\ g[n] = f[n]
        BY <3>3
      <4> QED
        BY <2>1, <3>1, <4>1
    <3> QED
      BY <3>2, <3>3
  <2> QED
    BY <2>4, <2>5, <2>6
<1>3. 0 \in T /\ \A m \in Nat : m \in T => m + 1 \in T
  <2> HIDE DEF Upto
  <2> QED
    BY <1>1, <1>2
<1>4. Nat \subseteq T
  <2> HIDE DEF T
  <2> QED
    BY <1>3, Induct
<1>5. PICK f \in [0..N -> V] : f[0] = a /\ \A n \in 1..N : f[n] = step[n][f[n - 1]]
  <2>1. Upto(N)
    <3> HIDE DEF Upto
    <3> QED
      BY <1>4
  <2> QED
    BY <2>1
<1>6. Unrolls(f, a, step, N)
  BY <1>5 DEF Unrolls
<1> QED
  BY <1>6

\* Values that stay in a set step by step are in it.
LEMMA StaysIn ==
  ASSUME NEW V, NEW N \in Nat, NEW f, f[0] \in V, \A n \in 1..N : f[n - 1] \in V => f[n] \in V
  PROVE  \A n \in 0..N : f[n] \in V
<1> DEFINE T == {n \in 0..N : f[n] \in V}
<1>1. 0 \in T /\ \A n \in 1..N : n - 1 \in T => n \in T
  OBVIOUS
<1>2. 0..N \subseteq T
  <2> HIDE DEF T
  <2> QED
    BY <1>1, InductUpTo
<1> QED
  BY <1>2

-----------------------------------------------------------------------------
(* The room that pods take *)

\* Its equations determine the room used, and make it a number.
LEMMA UsedRecursion ==
  ASSUME NEW pods, Len(pods) \in Nat, NEW node, NEW kind,
         \A k \in takingRoom(pods) : PodRequests(pods[k])[kind] \in Nat
  PROVE  LET takes(n) == IF n \in takingRoom(pods) /\ pods[n].node = node
                         THEN PodRequests(pods[n])[kind] ELSE 0
             used == usedUpTo(pods, node, kind)
         IN  /\ used \in [0..Len(pods) -> Nat]
             /\ used[0] = 0
             /\ \A n \in 1..Len(pods) : used[n] = used[n - 1] + takes(n)
<1> DEFINE N == Len(pods)
           takes(n) == IF n \in takingRoom(pods) /\ pods[n].node = node
                       THEN PodRequests(pods[n])[kind] ELSE 0
           step == [n \in 1..N |-> [v \in Nat |-> v + takes(n)]]
           equation(f) == f = [n \in 0..N |-> IF n = 0 THEN 0 ELSE f[n - 1] + takes(n)]
           used == usedUpTo(pods, node, kind)
<1>1. N \in Nat /\ 0 \in Nat /\ \A n \in 1..N : takes(n) \in Nat
  OBVIOUS
<1>2. used = CHOOSE f : equation(f)
  BY DEF usedUpTo
<1> HIDE DEF N, takes, used
<1>3. step \in Steps(N, Nat)
  BY <1>1 DEF Steps
<1>4. PICK f : f \in [0..N -> Nat] /\ Unrolls(f, 0, step, N)
  <2> HIDE DEF step
  <2> QED
    BY <1>1, <1>3, Recursion
<1>5. equation(f)
  <2>1. \A n \in 1..N : f[n - 1] \in Nat
    BY <1>1, <1>4
  <2>2. \A n \in 1..N : step[n][f[n - 1]] = f[n - 1] + takes(n)
    BY <2>1
  <2>3. f = [n \in 0..N |-> IF n = 0 THEN 0 ELSE step[n][f[n - 1]]]
    BY <1>4 DEF Unrolls
  <2>4. /\ f[0] = 0 /\ DOMAIN f = 0..N
        /\ \A n \in 1..N : f[n] = f[n - 1] + takes(n)
    <3> HIDE DEF step
    <3> QED
      BY <1>1, <2>2, <2>3
  <2>5. \A n \in 0..N : f[n] = IF n = 0 THEN 0 ELSE f[n - 1] + takes(n)
    BY <1>1, <2>4
  <2>6. f = [n \in 0..N |-> f[n]]
    BY <1>4
  <2> QED
    BY <2>5, <2>6
<1>6. equation(used)
  <2> HIDE DEF equation
  <2> QED
    BY <1>2, <1>5
<1>7. used = [n \in 0..N |-> used[n]] /\ used[0] = 0
  BY <1>1, <1>6
<1>8. \A n \in 1..N : used[n] = used[n - 1] + takes(n)
  BY <1>1, <1>6
<1>9. \A n \in 0..N : used[n] \in Nat
  <2>1. \A n \in 1..N : used[n - 1] \in Nat => used[n] \in Nat
    BY <1>1, <1>8
  <2>2. used[0] \in Nat
    BY <1>7
  <2> QED
    BY <1>1, <2>1, <2>2, StaysIn
<1>10. used \in [0..N -> Nat]
  BY <1>7, <1>9
<1> QED
  BY <1>7, <1>8, <1>10 DEF N, takes, used
-----------------------------------------------------------------------------
(* The pods selected from a list *)

\* Its equations determine what is selected, and make it a list of pods of the list.
LEMMA SelectedRecursion ==
  ASSUME NEW pods, Len(pods) \in Nat, NEW positions
  PROVE  LET selected == selectedUpTo(pods, positions)
         IN  /\ selected \in [0..Len(pods) -> Seq({pods[k] : k \in 1..Len(pods)})]
             /\ selected[0] = <<>>
             /\ \A n \in 1..Len(pods) :
                  selected[n] = IF n \in positions
                                THEN Append(selected[n - 1], pods[n]) ELSE selected[n - 1]
<1> DEFINE N == Len(pods)
           V == Seq({pods[k] : k \in 1..N})
           with(before, n) == IF n \in positions THEN Append(before, pods[n]) ELSE before
           step == [n \in 1..N |-> [v \in V |-> with(v, n)]]
           equation(f) == f = [n \in 0..N |-> IF n = 0 THEN <<>> ELSE with(f[n - 1], n)]
           selected == selectedUpTo(pods, positions)
<1>1. N \in Nat /\ <<>> \in V /\ \A n \in 1..N : \A v \in V : with(v, n) \in V
  OBVIOUS
<1>2. selected = CHOOSE f : equation(f)
  BY DEF selectedUpTo
<1> HIDE DEF N, V, with, selected
<1>3. step \in Steps(N, V)
  BY <1>1 DEF Steps
<1>4. PICK f : f \in [0..N -> V] /\ Unrolls(f, <<>>, step, N)
  <2> HIDE DEF step
  <2> QED
    BY <1>1, <1>3, Recursion
<1>5. equation(f)
  <2>1. \A n \in 1..N : f[n - 1] \in V
    BY <1>1, <1>4
  <2>2. \A n \in 1..N : step[n][f[n - 1]] = with(f[n - 1], n)
    BY <2>1
  <2>3. f = [n \in 0..N |-> IF n = 0 THEN <<>> ELSE step[n][f[n - 1]]]
    BY <1>4 DEF Unrolls
  <2>4. f[0] = <<>> /\ \A n \in 1..N : f[n] = with(f[n - 1], n)
    <3> HIDE DEF step
    <3> QED
      BY <1>1, <2>2, <2>3
  <2>5. \A n \in 0..N : f[n] = IF n = 0 THEN <<>> ELSE with(f[n - 1], n)
    BY <1>1, <2>4
  <2>6. f = [n \in 0..N |-> f[n]]
    BY <1>4
  <2> QED
    BY <2>5, <2>6
<1>6. equation(selected)
  <2> HIDE DEF equation
  <2> QED
    BY <1>2, <1>5
<1>7. selected = [n \in 0..N |-> selected[n]] /\ selected[0] = <<>>
  BY <1>1, <1>6
<1>8. \A n \in 1..N : selected[n] = with(selected[n - 1], n)
  BY <1>1, <1>6
<1>9. \A n \in 0..N : selected[n] \in V
  <2>1. \A n \in 1..N : selected[n - 1] \in V => selected[n] \in V
    BY <1>1, <1>8
  <2>2. selected[0] \in V
    BY <1>1, <1>7
  <2> QED
    BY <1>1, <2>1, <2>2, StaysIn
<1>10. selected \in [0..N -> V]
  BY <1>7, <1>9
<1> QED
  BY <1>7, <1>8, <1>10 DEF N, V, with, selected

\* These are the pods at the positions among the first n.
PodsAt(s, pods, positions, n) ==
  /\ \A k \in 1..Len(s) : \E i \in positions : i \in 1..n /\ s[k] = pods[i]
  /\ \A i \in positions : i \in 1..n => \E k \in 1..Len(s) : s[k] = pods[i]

\* The pods selected are those at the positions, each of them.
LEMMA SelectedPods ==
  ASSUME NEW pods, Len(pods) \in Nat, NEW positions, NEW n \in 0..Len(pods)
  PROVE  PodsAt(selectedUpTo(pods, positions)[n], pods, positions, n)
<1> DEFINE N == Len(pods)
           S == selectedUpTo(pods, positions)
           V == Seq({pods[k] : k \in 1..N})
           Same(s, m) == PodsAt(s, pods, positions, m)
           T == {m \in 0..N : Same(S[m], m)}
<1>1. /\ S \in [0..N -> V] /\ S[0] = <<>>
      /\ \A m \in 1..N :
           S[m] = IF m \in positions THEN Append(S[m - 1], pods[m]) ELSE S[m - 1]
  BY SelectedRecursion
<1>2. N \in Nat
  OBVIOUS
<1> HIDE DEF S, N
<1>3. Same(S[0], 0)
  BY <1>1 DEF PodsAt
<1>4. ASSUME NEW m \in 1..N, Same(S[m - 1], m - 1)
      PROVE  Same(S[m], m)
  <2> USE DEF PodsAt
  <2> DEFINE s == S[m - 1]
  <2>1. s \in V /\ Len(s) \in Nat
    BY <1>1, <1>2
  <2>2. \A i \in 1..m : i \in 1..(m - 1) \/ i = m
    BY <1>2
  <2>3. CASE m \notin positions
    <3>1. S[m] = s
      BY <1>1, <2>3
    <3> QED
      BY <1>2, <1>4, <2>2, <2>3, <3>1
  <2>4. CASE m \in positions
    <3>1. S[m] = Append(s, pods[m])
      BY <1>1, <2>4
    <3>2. /\ Len(S[m]) = Len(s) + 1
          /\ \A k \in 1..Len(s) : S[m][k] = s[k]
          /\ S[m][Len(s) + 1] = pods[m]
      BY <1>2, <2>1, <3>1
    <3>3. \A k \in 1..Len(S[m]) : k \in 1..Len(s) \/ k = Len(s) + 1
      BY <2>1, <3>2
    <3>4. \A k \in 1..Len(S[m]) : \E i \in positions : i \in 1..m /\ S[m][k] = pods[i]
      <4> SUFFICES ASSUME NEW k \in 1..Len(S[m])
                   PROVE  \E i \in positions : i \in 1..m /\ S[m][k] = pods[i]
        OBVIOUS
      <4>1. CASE k \in 1..Len(s)
        <5>1. PICK i \in positions : i \in 1..(m - 1) /\ s[k] = pods[i]
          BY <1>4, <4>1
        <5>2. i \in 1..m /\ S[m][k] = pods[i]
          BY <1>2, <3>2, <4>1, <5>1
        <5> QED
          BY <5>2
      <4>2. CASE k = Len(s) + 1
        <5>1. m \in 1..m /\ S[m][k] = pods[m]
          BY <1>2, <3>2, <4>2
        <5> QED
          BY <2>4, <5>1
      <4> QED
        BY <3>3, <4>1, <4>2
    <3>5. \A i \in positions : i \in 1..m => \E k \in 1..Len(S[m]) : S[m][k] = pods[i]
      <4> SUFFICES ASSUME NEW i \in positions, i \in 1..m
                   PROVE  \E k \in 1..Len(S[m]) : S[m][k] = pods[i]
        OBVIOUS
      <4>1. CASE i = m
        BY <2>1, <3>2, <4>1
      <4>2. CASE i \in 1..(m - 1)
        <5>1. PICK k \in 1..Len(s) : s[k] = pods[i]
          BY <1>4, <4>2
        <5>2. k \in 1..Len(S[m]) /\ S[m][k] = pods[i]
          BY <2>1, <3>2, <5>1
        <5> QED
          BY <5>2
      <4> QED
        BY <2>2, <4>1, <4>2
    <3> QED
      BY <3>4, <3>5
  <2> QED
    BY <2>3, <2>4
<1>5. 0..N \subseteq T
  <2>1. 0 \in T /\ \A m \in 1..N : m - 1 \in T => m \in T
    <3> HIDE DEF Same
    <3> QED
      BY <1>2, <1>3, <1>4
  <2> HIDE DEF T
  <2> QED
    BY <1>2, <2>1, InductUpTo
<1>6. Same(S[n], n)
  <2> HIDE DEF Same
  <2>1. n \in 0..N
    BY DEF N
  <2> QED
    BY <1>5, <2>1
<1> QED
  BY <1>6 DEF S

\* These are all the pods at the positions.
AllAt(s, pods, positions) ==
  /\ \A k \in DOMAIN s : \E i \in positions : s[k] = pods[i]
  /\ \A i \in positions : \E k \in DOMAIN s : s[k] = pods[i]

\* Of the whole list: the selection is made of all the pods at these positions.
LEMMA SelectedFromAll ==
  ASSUME NEW pods, Len(pods) \in Nat, NEW positions, \A i \in positions : i \in 1..Len(pods),
         NEW s, s = selectedUpTo(pods, positions)[Len(pods)]
  PROVE  AllAt(s, pods, positions)
<1> DEFINE N == Len(pods)
           S == selectedUpTo(pods, positions)
<1>1. N \in Nat /\ N \in 0..N /\ \A i \in positions : i \in 1..N
  OBVIOUS
<1>2. S \in [0..N -> Seq({pods[k] : k \in 1..N})]
  BY SelectedRecursion
<1>3. PodsAt(S[N], pods, positions, N)
  BY <1>1, SelectedPods
<1>4. s = S[N]
  OBVIOUS
<1> HIDE DEF S, N
<1>5. s \in Seq({pods[k] : k \in 1..N})
  BY <1>1, <1>2, <1>4
<1>6. DOMAIN s = 1..Len(s)
  BY <1>5
<1>7. \A k \in DOMAIN s : \E i \in positions : s[k] = pods[i]
  BY <1>3, <1>4, <1>6 DEF PodsAt
<1>8. \A i \in positions : \E k \in DOMAIN s : s[k] = pods[i]
  BY <1>1, <1>3, <1>4, <1>6 DEF PodsAt
<1> QED
  BY <1>7, <1>8 DEF AllAt
=============================================================================
