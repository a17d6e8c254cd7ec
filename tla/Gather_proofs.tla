---------------------------- MODULE Gather_proofs ----------------------------
(***************************************************************************)
(* The caller of gatherNodeViews gets an error or the complete picture of  *)
(* one list of pods, for any cluster, page size and buffer, and however    *)
(* the pages, the fold, the failures and the deadline interleave.          *)
(***************************************************************************)
EXTENDS Gather, OperatorChain_proofs, Totals_proofs, SequenceTheorems

-----------------------------------------------------------------------------
(* A list of lists, flattened *)

\* The N lists of q are among these, which can be put one after the other.
Joinable(q, N, V) ==
  /\ N \in Nat
  /\ \A n \in 1..N : q[n] \in V
  /\ <<>> \in V
  /\ \A v, w \in V : v \o w \in V
  /\ \A v \in V : <<>> \o v = v /\ v \o <<>> = v
  /\ \A u, v, w \in V : (u \o v) \o w = u \o (v \o w)

\* The first lists of q together, for each number of them.
Joined(f, q, N, V) ==
  /\ f \in [0..N -> V]
  /\ f[0] = <<>>
  /\ \A n \in 1..N : f[n] = f[n - 1] \o q[n]

LEMMA JoinedExists ==
  ASSUME NEW V, NEW N, NEW q, Joinable(q, N, V)
  PROVE  \E f : Joined(f, q, N, V)
<1>0. N \in Nat /\ <<>> \in V /\ (\A n \in 1..N : q[n] \in V) /\ \A v, w \in V : v \o w \in V
  BY DEF Joinable
<1> DEFINE with(v, n) == v \o q[n]
           step == [n \in 1..N |-> [v \in V |-> with(v, n)]]
<1>1. \A n \in 1..N : \A v \in V : with(v, n) \in V
  BY <1>0
<1> HIDE DEF with
<1>2. step \in Steps(N, V)
  BY <1>1 DEF Steps
<1>3. PICK f : f \in [0..N -> V] /\ Unrolls(f, <<>>, step, N)
  <2> HIDE DEF step
  <2> QED
    BY <1>0, <1>2, Recursion
<1>4. \A n \in 1..N : f[n - 1] \in V
  BY <1>0, <1>3
<1>5. \A n \in 1..N : step[n][f[n - 1]] = with(f[n - 1], n)
  BY <1>4
<1>6. f[0] = <<>> /\ \A n \in 1..N : f[n] = with(f[n - 1], n)
  <2>1. f = [n \in 0..N |-> IF n = 0 THEN <<>> ELSE step[n][f[n - 1]]]
    BY <1>3 DEF Unrolls
  <2> HIDE DEF step
  <2> QED
    BY <1>0, <1>5, <2>1
<1> QED
  BY <1>3, <1>6 DEF with, Joined

\* FlattenSeq puts the lists one after the other.
LEMMA FlattenJoins ==
  ASSUME NEW V, NEW N, NEW q, Joinable(q, N, V), NEW f, Joined(f, q, N, V), N # 0, Len(q) = N
  PROVE  FlattenSeq(q) = f[N]
<1> DEFINE with(v, n) == v \o q[n]
           equation(g) == g = [n \in 1..N |-> IF n = 1 THEN q[n] ELSE with(g[n - 1], n)]
           flatten == CHOOSE h : equation(h)
           g == [n \in 1..N |-> f[n]]
<1>0. FlattenSeq(q) = flatten[N]
  BY DEF FlattenSeq
<1>1. N \in Nat /\ with(<<>>, 1) = q[1] /\ f[0] = <<>> /\ \A n \in 1..N : f[n] = with(f[n - 1], n)
  <2>1. N \in Nat /\ (\A n \in 1..N : q[n] \in V) /\ \A v \in V : <<>> \o v = v
    BY DEF Joinable
  <2>2. <<>> \o q[1] = q[1]
    BY <2>1
  <2> QED
    BY <2>1, <2>2 DEF Joined
<1> HIDE DEF with
<1>2. \A n \in 1..N : g[n] = IF n = 1 THEN q[n] ELSE with(g[n - 1], n)
  <2> TAKE n \in 1..N
  <2>1. CASE n = 1
    BY <1>1, <2>1
  <2>2. CASE n # 1
    BY <1>1, <2>2
  <2> QED
    BY <2>1, <2>2
<1>3. g = [n \in 1..N |-> g[n]]
  OBVIOUS
<1> HIDE DEF g
<1>4. equation(g)
  BY <1>2, <1>3
<1>5. equation(flatten)
  <2> HIDE DEF equation
  <2> QED
    BY <1>4
<1> HIDE DEF flatten
<1>6. \A n \in 1..N : flatten[n] = IF n = 1 THEN q[n] ELSE with(flatten[n - 1], n)
  BY <1>5
<1> DEFINE T == {n \in 0..N : n > 0 => flatten[n] = f[n]}
<1>7. ASSUME NEW n \in 1..N, n - 1 \in T
      PROVE  n \in T
  <2>1. CASE n = 1
    BY <1>1, <1>6, <2>1
  <2>2. CASE n # 1
    <3>1. flatten[n - 1] = f[n - 1]
      BY <1>1, <1>7, <2>2
    <3>2. flatten[n] = f[n]
      BY <1>1, <1>6, <2>2, <3>1
    <3> QED
      BY <1>1, <3>2
  <2> QED
    BY <2>1, <2>2
<1>8. N \in T
  <2>1. 0 \in T
    BY <1>1
  <2> HIDE DEF T
  <2>2. 0..N \subseteq T
    BY <1>1, <1>7, <2>1, InductUpTo
  <2> QED
    BY <1>1, <2>2
<1> QED
  BY <1>0, <1>1, <1>8

LEMMA ListsJoin ==
  ASSUME NEW S, NEW q \in Seq(Seq(S))
  PROVE  Joinable(q, Len(q), Seq(S))
<1>1. Len(q) \in Nat /\ <<>> \in Seq(S) /\ \A n \in 1..Len(q) : q[n] \in Seq(S)
  OBVIOUS
<1>2. \A v, w \in Seq(S) : v \o w \in Seq(S) /\ <<>> \o w = w /\ w \o <<>> = w
  BY ConcatProperties, ConcatEmptySeq
<1>3. \A u, v, w \in Seq(S) : (u \o v) \o w = u \o (v \o w)
  <2> TAKE u, v, w \in Seq(S)
  <2> QED
    BY ConcatAssociative
<1> QED
  BY <1>1, <1>2, <1>3 DEF Joinable

LEMMA Flatten ==
  ASSUME NEW S, NEW q \in Seq(Seq(S))
  PROVE  \E f : Joined(f, q, Len(q), Seq(S)) /\ FlattenSeq(q) = f[Len(q)]
<1>1. Joinable(q, Len(q), Seq(S))
  BY ListsJoin
<1>2. PICK f : Joined(f, q, Len(q), Seq(S))
  BY <1>1, JoinedExists
<1>3. CASE Len(q) = 0
  BY <1>2, <1>3 DEF Joined, FlattenSeq
<1>4. CASE Len(q) # 0
  BY <1>1, <1>2, <1>4, FlattenJoins
<1> QED
  BY <1>2, <1>3, <1>4

\* One more list at the end.
LEMMA FlattenAppend ==
  ASSUME NEW S, NEW q \in Seq(Seq(S)), NEW p \in Seq(S)
  PROVE  FlattenSeq(Append(q, p)) = FlattenSeq(q) \o p
<1> DEFINE N == Len(q)
           V == Seq(S)
           r == Append(q, p)
<1>1. /\ N \in Nat /\ r \in Seq(V) /\ Len(r) = N + 1
      /\ r[N + 1] = p /\ \A n \in 1..N : r[n] = q[n]
  BY AppendProperties
<1>2. PICK f : Joined(f, q, N, V) /\ FlattenSeq(q) = f[N]
  BY Flatten
<1>3. PICK g : Joined(g, r, N + 1, V) /\ FlattenSeq(r) = g[N + 1]
  BY <1>1, Flatten
<1> HIDE DEF N, V, r
<1> DEFINE with(v, w) == v \o w
           T == {n \in 0..N : g[n] = f[n]}
<1>4. /\ f[0] = <<>> /\ g[0] = <<>>
      /\ \A n \in 1..N : f[n] = with(f[n - 1], q[n])
      /\ \A n \in 1..N + 1 : g[n] = with(g[n - 1], r[n])
  BY <1>2, <1>3 DEF Joined
<1>5. FlattenSeq(q) \o p = with(f[N], p)
  BY <1>2
<1> HIDE DEF with
<1>6. 0 \in T /\ \A n \in 1..N : n - 1 \in T => n \in T
  BY <1>1, <1>4
<1>7. N \in T
  <2> HIDE DEF T
  <2>1. 0..N \subseteq T
    BY <1>1, <1>6, InductUpTo
  <2> QED
    BY <1>1, <2>1
<1>8. g[N + 1] = with(f[N], p)
  BY <1>1, <1>4, <1>7
<1> QED
  BY <1>3, <1>5, <1>8 DEF r

\* The first list, and then the others.
LEMMA FlattenTail ==
  ASSUME NEW S, NEW q \in Seq(Seq(S)), q # <<>>
  PROVE  FlattenSeq(q) = Head(q) \o FlattenSeq(Tail(q))
<1> DEFINE N == Len(q) - 1
           V == Seq(S)
           r == Tail(q)
           first == Head(q)
<1>1. /\ N \in Nat /\ r \in Seq(V) /\ Len(r) = N /\ Len(q) = N + 1
      /\ first \in V /\ q[1] = first /\ \A n \in 1..N : r[n] = q[n + 1] /\ r[n] \in V
  BY HeadTailProperties
<1>2. PICK f : Joined(f, q, N + 1, V) /\ FlattenSeq(q) = f[N + 1]
  BY <1>1, Flatten
<1>3. PICK g : Joined(g, r, N, V) /\ FlattenSeq(r) = g[N]
  BY <1>1, Flatten
<1> DEFINE with(v, w) == v \o w
           T == {n \in 0..N : f[n + 1] = with(first, g[n])}
<1>4. Joinable(q, N + 1, V)
  BY <1>1, ListsJoin
<1>5. /\ \A u, v, w \in V : with(with(u, v), w) = with(u, with(v, w))
      /\ with(<<>>, first) = first /\ with(first, <<>>) = first
  <2> HIDE DEF V, N, first
  <2> QED
    BY <1>1, <1>4 DEF Joinable
<1>6. /\ f[0] = <<>> /\ g[0] = <<>> /\ g \in [0..N -> V]
      /\ \A n \in 1..N + 1 : f[n] = with(f[n - 1], q[n])
      /\ \A n \in 1..N : g[n] = with(g[n - 1], r[n])
  BY <1>2, <1>3 DEF Joined
<1>7. Head(q) \o FlattenSeq(Tail(q)) = with(first, g[N])
  BY <1>3
<1> HIDE DEF N, V, r, first, with
<1>8. 0 \in T
  BY <1>1, <1>5, <1>6
<1>9. ASSUME NEW n \in 1..N, n - 1 \in T
      PROVE  n \in T
  <2>1. f[n] = with(first, g[n - 1])
    BY <1>1, <1>9
  <2>2. f[n + 1] = with(f[n], r[n])
    <3> DEFINE m == n + 1
    <3>1. m \in 1..N + 1 /\ m - 1 = n /\ r[n] = q[m]
      BY <1>1
    <3> HIDE DEF m
    <3>2. f[m] = with(f[m - 1], q[m])
      BY <1>6, <3>1
    <3> QED
      BY <3>1, <3>2 DEF m
  <2>3. g[n - 1] \in V /\ r[n] \in V /\ first \in V
    BY <1>1, <1>6
  <2>4. with(with(first, g[n - 1]), r[n]) = with(first, with(g[n - 1], r[n]))
    BY <1>5, <2>3
  <2>5. f[n + 1] = with(first, g[n])
    BY <1>6, <2>1, <2>2, <2>4
  <2> QED
    BY <1>1, <2>5
<1>10. N \in T
  <2> HIDE DEF T
  <2>1. 0..N \subseteq T
    BY <1>1, <1>8, <1>9, InductUpTo
  <2> QED
    BY <1>1, <2>1
<1> QED
  BY <1>2, <1>7, <1>10

\* Lists of bounded lengths hold so many elements together.
LEMMA FlattenLength ==
  ASSUME NEW S, NEW q \in Seq(Seq(S)), NEW L \in Nat, \A n \in 1..Len(q) : Len(q[n]) <= L
  PROVE  FlattenSeq(q) \in Seq(S) /\ Len(FlattenSeq(q)) <= Len(q) * L
<1> DEFINE N == Len(q)
           V == Seq(S)
<1>1. N \in Nat /\ \A n \in 1..N : q[n] \in V /\ Len(q[n]) <= L
  OBVIOUS
<1>2. PICK f : Joined(f, q, N, V) /\ FlattenSeq(q) = f[N]
  BY Flatten
<1>3. \A v, w \in V : Len(v) \in Nat /\ Len(v \o w) = Len(v) + Len(w)
  BY ConcatProperties
<1>4. f \in [0..N -> V] /\ f[0] = <<>> /\ \A n \in 1..N : f[n] = f[n - 1] \o q[n]
  BY <1>2 DEF Joined
<1> DEFINE T == {n \in 0..N : Len(f[n]) <= n * L}
<1> HIDE DEF N, V
<1>5. 0 \in T
  BY <1>1, <1>4
<1>6. ASSUME NEW n \in 1..N, n - 1 \in T
      PROVE  n \in T
  <2>1. f[n - 1] \in V /\ q[n] \in V /\ n - 1 \in Nat
    BY <1>1, <1>4
  <2>2. Len(f[n]) = Len(f[n - 1]) + Len(q[n]) /\ Len(f[n - 1]) \in Nat /\ Len(q[n]) \in Nat
    BY <1>3, <1>4, <2>1
  <2> DEFINE times(k) == k * L
             len(k) == Len(f[k])
             more == Len(q[n])
  <2>3. len(n - 1) <= times(n - 1) /\ more <= L
    BY <1>1, <1>6
  <2>4. times(n - 1) + L = times(n) /\ times(n - 1) \in Int /\ times(n) \in Int
    BY <1>1
  <2>6. len(n) = len(n - 1) + more /\ len(n - 1) \in Nat /\ more \in Nat
    BY <2>2
  <2>5. len(n) <= times(n)
    <3> HIDE DEF times, len, more
    <3> QED
      BY <2>3, <2>4, <2>6
  <2> QED
    BY <1>1, <2>5
<1>7. N \in T
  <2> HIDE DEF T
  <2>1. 0..N \subseteq T
    BY <1>1, <1>5, <1>6, InductUpTo
  <2> QED
    BY <1>1, <2>1
<1>8. f[N] \in V
  BY <1>1, <1>4
<1> QED
  BY <1>2, <1>7, <1>8 DEF N, V

LEMMA TailOfJoined ==
  ASSUME NEW S, NEW v \in Seq(S), NEW w \in Seq(S), v # <<>>
  PROVE  v \o w # <<>> /\ Head(v \o w) = Head(v) /\ Tail(v \o w) = Tail(v) \o w
  OBVIOUS

-----------------------------------------------------------------------------
(* The inductive invariant *)

podsOf == Range(cluster.pods)

Typed ==
  /\ cluster \in Clusters
  /\ lister \in {"idle", "page", "send", "stopped"}
  /\ listed \in 0..Len(cluster.pods)
  /\ chunk \in Seq(podsOf) /\ page \in Seq(podsOf) /\ queue \in Seq(Seq(podsOf))
  /\ used \in [NodeNames -> [Kinds -> Int]]

\* The pages are bounded, and a lister that stopped without an error saw the end.
PagesInv ==
  /\ call = "nodes" => lister = "idle"
  /\ lister # "send" => page = <<>>
  /\ lister = "stopped" /\ outcome = "ok" => listed = Len(cluster.pods)
  /\ outcome # "ok" => lister = "stopped"
  /\ Len(queue) <= PageBufferSize
  /\ cluster.limited =>
       /\ Len(chunk) <= PageSize /\ Len(page) <= PageSize
       /\ \A n \in 1..Len(queue) : Len(queue[n]) <= PageSize

\* While pods are read nothing is said of the chain, and none of them is lost.
FoldInv ==
  call \in {"nodes", "pods"} =>
    /\ link = 1 /\ chain = NoChain
    /\ outcome = "ok" => NothingLost

\* Components were found for a link before this one.
Detected ==
  /\ chain.detected \in BOOLEAN
  /\ chain.detected <=> \E s \in 1..(link - 1) : matchChainPods(chainPods, s) # {}

\* The chain is looked at when all pods are folded.
ChainInv ==
  /\ FirstBrokenIsFirst
  /\ call = "chain" =>
       /\ lister = "stopped" /\ NothingLost /\ folded = Len(cluster.pods)
       /\ ChainTyped /\ Detected

GatherInv == Typed /\ PagesInv /\ FoldInv /\ ChainInv

-----------------------------------------------------------------------------
(* The lists of the cluster and the pods in hand *)

LEMMA PodsTyped ==
  ASSUME Typed
  PROVE  /\ cluster.pods \in Seq(podsOf)
         /\ Len(cluster.pods) \in Nat /\ DOMAIN cluster.pods = 1..Len(cluster.pods)
         /\ \A pod \in podsOf :
              /\ pod.name \in DOMAIN StepsOf /\ pod.ns \in STRING
              /\ pod.node \in NodeNames \cup {""} /\ pod.phase \in Phases
              /\ \A kind \in Kinds : PodRequests(pod)[kind] \in Nat
<1>1. cluster.pods \in Seq(podsOf)
  BY ClustersAssumption DEF Typed, podsOf
<1>2. Len(cluster.pods) \in Nat /\ DOMAIN cluster.pods = 1..Len(cluster.pods)
  BY <1>1, LenProperties
<1> QED
  BY <1>1, <1>2, ClustersAssumption DEF Typed, podsOf

LEMMA AheadTyped ==
  ASSUME Typed
  PROVE  /\ FlattenSeq(queue) \in Seq(podsOf)
         /\ ahead \in Seq(podsOf) /\ Len(ahead) \in Nat
         /\ Len(ahead) = Len(chunk) + Len(FlattenSeq(queue)) + Len(page)
<1>1. FlattenSeq(queue) \in Seq(podsOf)
  <2>1. PICK f : Joined(f, queue, Len(queue), Seq(podsOf)) /\ FlattenSeq(queue) = f[Len(queue)]
    BY Flatten DEF Typed
  <2>2. Len(queue) \in Nat
    BY LenProperties DEF Typed
  <2> QED
    BY <2>1, <2>2 DEF Joined
<1>2. chunk \o FlattenSeq(queue) \in Seq(podsOf)
      /\ Len(chunk \o FlattenSeq(queue)) = Len(chunk) + Len(FlattenSeq(queue))
  BY <1>1, ConcatProperties DEF Typed
<1>3. ahead \in Seq(podsOf) /\ Len(ahead) = Len(chunk \o FlattenSeq(queue)) + Len(page)
  BY <1>2, ConcatProperties DEF Typed, ahead
<1> QED
  BY <1>1, <1>2, <1>3, LenProperties

\* What was folded stays folded when the pods ahead stay the same.
LEMMA LostSame ==
  ASSUME NothingLost, ahead' = ahead, UNCHANGED <<cluster, listed, chainPods, placed, used>>
  PROVE  NothingLost'
  BY DEF NothingLost, folded

\* A page is taken from the channel: it is still ahead.
LEMMA AheadTakePage ==
  ASSUME Typed, TakePage
  PROVE  ahead' = ahead
<1> DEFINE V == Seq(podsOf)
           rest == FlattenSeq(Tail(queue))
<1>1. /\ chunk = <<>> /\ queue # <<>>
      /\ chunk' = Head(queue) /\ queue' = Tail(queue) /\ page' = page
  BY DEF TakePage
<1>2. Head(queue) \in V /\ Tail(queue) \in Seq(V)
  BY <1>1, HeadTailProperties DEF Typed
<1>3. FlattenSeq(queue) = Head(queue) \o rest
  BY <1>1, FlattenTail DEF Typed
<1>4. <<>> \o FlattenSeq(queue) = FlattenSeq(queue)
  BY AheadTyped, ConcatEmptySeq
<1>5. ahead = (Head(queue) \o rest) \o page
  BY <1>1, <1>3, <1>4 DEF ahead
<1>6. ahead' = (Head(queue) \o rest) \o page
  BY <1>1 DEF ahead
<1> QED
  BY <1>5, <1>6

\* A page is handed over: it is still ahead.
LEMMA AheadSendPage ==
  ASSUME Typed, SendPage
  PROVE  ahead' = ahead
<1> DEFINE X == FlattenSeq(queue)
<1>1. queue' = Append(queue, page) /\ page' = <<>> /\ chunk' = chunk
  BY DEF SendPage, fold
<1>2. FlattenSeq(queue') = X \o page
  BY <1>1, FlattenAppend DEF Typed
<1>3. chunk \in Seq(podsOf) /\ X \in Seq(podsOf) /\ page \in Seq(podsOf)
  BY AheadTyped DEF Typed
<1>4. ahead' = (chunk \o (X \o page)) \o <<>>
  BY <1>1, <1>2 DEF ahead
<1>5. ahead = (chunk \o X) \o page
  BY DEF ahead
<1> HIDE DEF X
<1> QED
  BY <1>3, <1>4, <1>5

LEMMA PageEnd ==
  ASSUME Typed
  PROVE  /\ pageEnd(listed) \in listed..Len(cluster.pods)
         /\ cluster.limited => pageEnd(listed) - listed <= PageSize
<1>1. listed \in 0..Len(cluster.pods) /\ Len(cluster.pods) \in Nat
  BY PodsTyped DEF Typed
<1> QED
  BY <1>1, PagerAssumption DEF pageEnd

\* What is between the positions of a list is a list of its pods.
LEMMA PieceTyped ==
  ASSUME Typed, NEW n \in listed..Len(cluster.pods)
  PROVE  /\ SubSeq(cluster.pods, listed + 1, n) \in Seq(podsOf)
         /\ Len(SubSeq(cluster.pods, listed + 1, n)) = n - listed
<1> DEFINE pods == cluster.pods
           N == Len(pods)
<1>1. pods \in Seq(podsOf) /\ N \in Nat /\ listed \in 0..N /\ n \in listed..N
  BY PodsTyped DEF Typed
<1>2. \A i \in 1..N : pods[i] \in podsOf
  BY <1>1, ElementOfSeq
<1> HIDE DEF pods, N
<1>3. listed \in Nat /\ n \in Nat /\ \A i \in (listed + 1)..n : pods[i] \in podsOf
  BY <1>1, <1>2
<1>4. /\ SubSeq(pods, listed + 1, n) \in Seq(podsOf)
      /\ Len(SubSeq(pods, listed + 1, n)) = IF listed + 1 <= n THEN n - (listed + 1) + 1 ELSE 0
  BY <1>3, SubSeqProperties
<1>5. Len(SubSeq(pods, listed + 1, n)) = n - listed
  BY <1>1, <1>3, <1>4
<1> QED
  BY <1>4, <1>5 DEF pods

\* A page is listed: it follows what is ahead.
LEMMA LostListPage ==
  ASSUME Typed, PagesInv, NothingLost, ListPage
  PROVE  NothingLost'
<1> DEFINE pods == cluster.pods
           A == chunk \o FlattenSeq(queue)
           end == pageEnd(listed)
           piece == SubSeq(pods, listed + 1, end)
<1>1. /\ page = <<>> /\ page' = piece /\ listed' = end
      /\ UNCHANGED <<cluster, chunk, queue, chainPods, placed, used>>
  BY DEF ListPage, PagesInv, fold
<1>2. /\ pods \in Seq(podsOf) /\ Len(pods) \in Nat /\ listed \in 0..Len(pods)
      /\ end \in listed..Len(pods) /\ piece \in Seq(podsOf) /\ Len(piece) = end - listed
  BY PodsTyped, PageEnd, PieceTyped DEF Typed
<1>3. A \in Seq(podsOf) /\ Len(A) \in Nat
  BY AheadTyped, ConcatProperties, LenProperties DEF Typed
<1>4. ahead = A
  BY <1>1, <1>3, ConcatEmptySeq DEF ahead
<1>5. ahead' = A \o piece
  BY <1>1 DEF ahead
<1>6. /\ folded \in Nat /\ folded = listed - Len(A) /\ A = SubSeq(pods, folded + 1, listed)
  BY <1>4 DEF NothingLost, folded
<1> HIDE DEF pods, A, end, piece
<1>7. Len(A \o piece) = Len(A) + Len(piece)
  BY <1>2, <1>3, ConcatProperties
<1>8. folded' = folded
  BY <1>1, <1>2, <1>3, <1>5, <1>6, <1>7 DEF folded
<1>9. A \o piece = SubSeq(pods, folded + 1, end)
  <2>1. /\ folded + 1 \in 1..Len(pods) + 1 /\ listed \in (folded + 1) - 1..Len(pods)
        /\ end \in listed..Len(pods)
    <3>1. folded \in Nat /\ listed \in Nat /\ folded <= listed /\ listed <= Len(pods)
      BY <1>2, <1>3, <1>6
    <3> QED
      BY <1>2, <3>1
  <2>2. SubSeq(pods, folded + 1, listed) \o SubSeq(pods, listed + 1, end) = SubSeq(pods, folded + 1, end)
    BY <1>2, <2>1, ConcatAdjacentSubSeq
  <2> QED
    BY <1>6, <2>2 DEF piece
<1>10. ahead' = SubSeq(cluster'.pods, folded' + 1, listed')
  BY <1>1, <1>5, <1>8, <1>9 DEF pods
<1> QED
  BY <1>1, <1>8, <1>10 DEF NothingLost

LEMMA PlacedAppend ==
  ASSUME NEW S, NEW s \in Seq(S), NEW pod \in S
  PROVE  placedPods(Append(s, pod)) = Append(placedPods(s), placedPod(pod))
<1> DEFINE e == placedPod(pod)
           P == {placedPod(p) : p \in S}
<1>1. placedPods(s) \in Seq(P) /\ Len(placedPods(s)) = Len(s)
      /\ \A k \in 1..Len(s) : placedPods(s)[k] = placedPod(s[k])
  BY DEF placedPods
<1> DEFINE lhs == placedPods(Append(s, pod))
           rhs == Append(placedPods(s), e)
<1>2. /\ lhs \in Seq(P) /\ Len(lhs) = Len(s) + 1
      /\ lhs[Len(s) + 1] = e
      /\ \A k \in 1..Len(s) : lhs[k] = placedPod(s[k])
  BY DEF placedPods
<1>3. /\ rhs \in Seq(P) /\ Len(rhs) = Len(s) + 1
      /\ rhs[Len(s) + 1] = e
      /\ \A k \in 1..Len(s) : rhs[k] = placedPod(s[k])
  BY <1>1, AppendProperties
<1> HIDE DEF lhs, rhs, e
<1>4. \A k \in 1..Len(s) + 1 : lhs[k] = rhs[k]
  BY <1>2, <1>3
<1>5. lhs = rhs
  BY <1>2, <1>3, <1>4, SeqEqual
<1> QED
  BY <1>5 DEF lhs, rhs, e

\* The pod folded is the first of those ahead.
LEMMA FoldsNext ==
  ASSUME Typed, NothingLost, FoldPod
  PROVE  /\ folded + 1 \in 1..Len(cluster.pods)
         /\ Head(chunk) = cluster.pods[folded + 1]
         /\ folded' = folded + 1
         /\ ahead' = SubSeq(cluster.pods, folded + 2, listed)
<1> DEFINE pods == cluster.pods
           rest == FlattenSeq(queue) \o page
<1>1. /\ chunk # <<>> /\ chunk' = Tail(chunk)
      /\ UNCHANGED <<cluster, queue, page, listed>>
  BY DEF FoldPod, pager
<1>2. chunk \in Seq(podsOf) /\ FlattenSeq(queue) \in Seq(podsOf) /\ page \in Seq(podsOf)
  BY AheadTyped DEF Typed
<1>3. rest \in Seq(podsOf) /\ Tail(chunk) \in Seq(podsOf)
  BY <1>1, <1>2, ConcatProperties, HeadTailProperties
<1>4. ahead = chunk \o rest /\ ahead' = Tail(chunk) \o rest
  <2>1. ahead = (chunk \o FlattenSeq(queue)) \o page
    BY DEF ahead
  <2>2. ahead' = (Tail(chunk) \o FlattenSeq(queue)) \o page
    BY <1>1 DEF ahead
  <2> DEFINE X == FlattenSeq(queue)
  <2> HIDE DEF X
  <2>3. X \in Seq(podsOf)
    BY <1>2 DEF X
  <2>4. (chunk \o X) \o page = chunk \o (X \o page)
    BY <1>2, <2>3, ConcatAssociative
  <2>5. (Tail(chunk) \o X) \o page = Tail(chunk) \o (X \o page)
    BY <1>2, <1>3, <2>3, ConcatAssociative
  <2> QED
    BY <2>1, <2>2, <2>4, <2>5 DEF X
<1> HIDE DEF rest
<1>5. ahead # <<>> /\ Head(ahead) = Head(chunk) /\ ahead' = Tail(ahead)
  BY <1>1, <1>2, <1>3, <1>4, TailOfJoined
<1>6. ahead \in Seq(podsOf) /\ Len(ahead) \in Nat \ {0} /\ Len(Tail(ahead)) = Len(ahead) - 1
  BY <1>5, AheadTyped, EmptySeq, HeadTailProperties
<1>7. /\ pods \in Seq(podsOf) /\ Len(pods) \in Nat /\ listed \in 0..Len(pods)
      /\ folded \in Nat /\ folded = listed - Len(ahead) /\ ahead = SubSeq(pods, folded + 1, listed)
  BY PodsTyped DEF Typed, NothingLost, folded
<1> HIDE DEF pods
<1>8. /\ folded + 1 \in 1..Len(pods) /\ listed \in folded + 1..Len(pods)
      /\ folded' = folded + 1 /\ (folded + 1) + 1 = folded + 2
  <2> DEFINE len == Len(ahead)
             N == Len(pods)
  <2>1. folded' = listed - Len(Tail(ahead))
    BY <1>1, <1>5 DEF folded
  <2>2. len \in Nat /\ len # 0 /\ folded' = listed - (len - 1)
    <3>1. Len(ahead) \in Nat \ {0} /\ folded' = listed - (Len(ahead) - 1)
      BY <1>6, <2>1
    <3> QED
      BY <3>1
  <2>5. folded \in Nat /\ folded = listed - len
    BY <1>7
  <2>6. N \in Nat /\ listed \in Nat /\ listed <= N
    <3>1. Len(pods) \in Nat /\ listed \in 0..Len(pods)
      BY <1>7
    <3> QED
      BY <3>1
  <2> HIDE DEF len, N
  <2>3. folded < listed /\ folded' = folded + 1 /\ (folded + 1) + 1 = folded + 2
    BY <2>2, <2>5, <2>6
  <2>4. folded + 1 \in 1..N /\ listed \in (folded + 1)..N
    BY <2>3, <2>5, <2>6
  <2> QED
    BY <2>3, <2>4 DEF N
<1>9. Head(ahead) = pods[folded + 1] /\ Tail(ahead) = SubSeq(pods, folded + 2, listed)
  <2> DEFINE m == folded + 1
  <2>1. m \in 1..Len(pods) /\ listed \in m..Len(pods) /\ m + 1 = folded + 2 /\ ahead = SubSeq(pods, m, listed)
    BY <1>7, <1>8
  <2> HIDE DEF m
  <2>2. Head(SubSeq(pods, m, listed)) = pods[m] /\ Tail(SubSeq(pods, m, listed)) = SubSeq(pods, m + 1, listed)
    BY <1>7, <2>1, HeadTailOfSubSeq
  <2> QED
    BY <2>1, <2>2 DEF m
<1> QED
  BY <1>5, <1>8, <1>9 DEF pods

\* The pod is added to what the first pods of the list amount to.
LEMMA LostFoldPod ==
  ASSUME Typed, NothingLost, FoldPod
  PROVE  NothingLost'
<1> DEFINE pods == cluster.pods
           n == folded + 1
           pod == pods[n]
           forChain == selectedUpTo(pods, relevant(pods))
           onNodes == selectedUpTo(pods, takingRoom(pods))
<1>1. /\ n \in 1..Len(pods) /\ Len(pods) \in Nat /\ DOMAIN pods = 1..Len(pods)
      /\ Head(chunk) = pod /\ pod \in podsOf
      /\ folded' = n /\ ahead' = SubSeq(pods, n + 1, listed) /\ folded \in Nat
      /\ UNCHANGED <<cluster, listed>>
  <2>1. folded \in Nat /\ UNCHANGED <<cluster, listed>>
    BY DEF NothingLost, FoldPod, pager
  <2>2. (folded + 1) + 1 = folded + 2
    BY <2>1
  <2> QED
    BY <2>1, <2>2, FoldsNext, PodsTyped, ElementOfSeq
<1>2. n - 1 = folded
  BY <1>1
<1>3. pod.node \in NodeNames \cup {""} /\ pod.phase \in Phases /\ \A kind \in Kinds : PodRequests(pod)[kind] \in Nat
  BY <1>1, PodsTyped
<1>4. (n \in relevant(pods) <=> keepForChain(pod)) /\ (n \in takingRoom(pods) <=> holdsNode(pod))
  BY <1>1, <1>3 DEF relevant, keepForChain, takingRoom, holdsNode, Phases
<1>5. chainPods' = forChain[n]
  <2>1. chainPods = forChain[n - 1]
    BY <1>2 DEF NothingLost
  <2>2. chainPods' = IF keepForChain(pod) THEN Append(chainPods, pod) ELSE chainPods
    BY <1>1 DEF FoldPod
  <2>3. forChain[n] = IF n \in relevant(pods) THEN Append(forChain[n - 1], pod) ELSE forChain[n - 1]
    BY <1>1, SelectedRecursion
  <2> QED
    BY <1>4, <2>1, <2>2, <2>3
<1>6. placed' = placedPods(onNodes[n])
  <2>1. placed = placedPods(onNodes[n - 1])
    BY <1>2 DEF NothingLost
  <2>2. placed' = IF holdsNode(pod) THEN Append(placed, placedPod(pod)) ELSE placed
    BY <1>1 DEF FoldPod
  <2>3. onNodes[n] = IF n \in takingRoom(pods) THEN Append(onNodes[n - 1], pod) ELSE onNodes[n - 1]
    BY <1>1, SelectedRecursion
  <2>4. onNodes[n - 1] \in Seq({pods[k] : k \in 1..Len(pods)}) /\ pod \in {pods[k] : k \in 1..Len(pods)}
    <3>1. n - 1 \in 0..Len(pods)
      BY <1>1
    <3>2. onNodes \in [0..Len(pods) -> Seq({pods[k] : k \in 1..Len(pods)})]
      BY <1>1, SelectedRecursion
    <3> HIDE DEF onNodes
    <3> QED
      BY <1>1, <3>1, <3>2
  <2>5. placedPods(Append(onNodes[n - 1], pod)) = Append(placedPods(onNodes[n - 1]), placedPod(pod))
    <3> HIDE DEF onNodes, pods, n, pod
    <3> QED
      BY <2>4, PlacedAppend
  <2> QED
    BY <1>4, <2>1, <2>2, <2>3, <2>5
<1>7. ASSUME NEW m \in NodeNames, NEW kind \in Kinds
      PROVE  used'[m][kind] = usedUpTo(pods, m, kind)[n]
  <2> DEFINE total == usedUpTo(pods, m, kind)
             asked == PodRequests(pod)[kind]
  <2>1. used[m][kind] = total[n - 1]
    BY <1>2, <1>7 DEF NothingLost
  <2>2. \A k \in takingRoom(pods) : PodRequests(pods[k])[kind] \in Nat
    <3>1. \A k \in takingRoom(pods) : pods[k] \in podsOf
      BY DEF takingRoom, podsOf, Range
    <3> QED
      BY <3>1, <1>7, PodsTyped
  <2>3. /\ total \in [0..Len(pods) -> Nat]
        /\ total[n] = total[n - 1] + IF n \in takingRoom(pods) /\ pod.node = m THEN asked ELSE 0
    BY <1>1, <2>2, UsedRecursion
  <2>4. total[n - 1] \in Nat
    BY <1>1, <2>3
  <2>5. used \in [NodeNames -> [Kinds -> Int]]
    BY DEF Typed
  <2>6. used' = IF holdsNode(pod) THEN addRequests(used, pod) ELSE used
    BY <1>1 DEF FoldPod
  <2> HIDE DEF total
  <2>7. CASE holdsNode(pod) /\ pod.node = m
    <3>1. used'[m][kind] = used[m][kind] + asked
      BY <1>7, <2>5, <2>6, <2>7 DEF addRequests
    <3> QED
      BY <1>4, <2>1, <2>3, <2>7, <3>1 DEF total
  <2>8. CASE ~(holdsNode(pod) /\ pod.node = m)
    <3>1. used'[m][kind] = used[m][kind]
      BY <1>7, <2>5, <2>6, <2>8 DEF addRequests
    <3>2. total[n] = total[n - 1]
      BY <1>4, <2>3, <2>4, <2>8
    <3> QED
      BY <2>1, <3>1, <3>2 DEF total
  <2> QED
    BY <2>7, <2>8
<1> QED
  BY <1>1, <1>5, <1>6, <1>7 DEF NothingLost

-----------------------------------------------------------------------------
(* The invariant is inductive *)

LEMMA GatherStart ==
  ASSUME Init
  PROVE  GatherInv
<1>1. /\ cluster \in Clusters /\ call = "nodes" /\ lister = "idle" /\ listed = 0
      /\ page = <<>> /\ queue = <<>> /\ outcome = "ok" /\ chunk = <<>>
      /\ used = NoRequests /\ placed = <<>> /\ chainPods = <<>> /\ link = 1 /\ chain = NoChain
  BY DEF Init
<1>2. cluster.pods \in Seq(podsOf) /\ Len(cluster.pods) \in Nat
  BY <1>1, ClustersAssumption, LenProperties DEF podsOf
<1>3. Typed
  BY <1>1, <1>2 DEF Typed, NoRequests
<1>4. PagesInv
  BY <1>1, PagerAssumption DEF PagesInv
<1>5. FoldInv
  <2> DEFINE pods == cluster.pods
  <2>1. ahead = <<>> /\ folded = 0
    <3>1. FlattenSeq(queue) = <<>>
      BY <1>1 DEF FlattenSeq
    <3>2. <<>> \o <<>> = <<>> /\ Len(<<>>) = 0
      BY ConcatEmptySeq, EmptySeq
    <3>3. ahead = <<>>
      BY <1>1, <3>1, <3>2 DEF ahead
    <3>4. folded = 0 - 0
      BY <1>1, <3>2, <3>3 DEF folded
    <3> QED
      BY <3>3, <3>4
  <2>2. SubSeq(pods, folded + 1, listed) = <<>>
    BY <1>1, <1>2, <2>1, SubSeqProperties
  <2>3. \A positions : selectedUpTo(pods, positions)[0] = <<>>
    BY <1>2, SelectedRecursion
  <2>4. placedPods(<<>>) = <<>>
    BY DEF placedPods
  <2>5. ASSUME NEW n \in NodeNames, NEW kind \in Kinds
        PROVE  used[n][kind] = usedUpTo(pods, n, kind)[0]
    <3>1. \A k \in takingRoom(pods) : pods[k] \in podsOf
      BY DEF takingRoom, podsOf, Range
    <3>2. \A k \in takingRoom(pods) : PodRequests(pods[k])[kind] \in Nat
      BY <1>3, <2>5, <3>1, PodsTyped
    <3>3. usedUpTo(pods, n, kind)[0] = 0
      BY <1>2, <3>2, UsedRecursion
    <3> QED
      BY <1>1, <2>5, <3>3 DEF NoRequests
  <2> QED
    BY <1>1, <2>1, <2>2, <2>3, <2>4, <2>5 DEF FoldInv, NothingLost
<1>6. ChainInv
  <2>1. chain.firstBroken = Nil /\ 1..(link - 1) = {}
    BY <1>1 DEF NoChain
  <2> QED
    BY <1>1, <2>1 DEF ChainInv, FirstBrokenIsFirst
<1> QED
  BY <1>3, <1>4, <1>5, <1>6 DEF GatherInv

LEMMA ClusterKept ==
  ASSUME [Next]_vars
  PROVE  cluster' = cluster /\ podsOf' = podsOf
<1>1. cluster' = cluster
  BY DEF Next, Caller, Calls, Lister, TakePage, AbandonPage, FoldPod, EndOfPages, CheckLink,
         BuildViews, ListNodes, NodesFail, ListPage, PageFails, SendPage, SendGivesUp,
         Deadline, Done, vars
<1> QED
  BY <1>1 DEF podsOf

LEMMA RequestsAdded ==
  ASSUME NEW total \in [NodeNames -> [Kinds -> Int]], NEW pod, pod.node \in NodeNames,
         \A kind \in Kinds : PodRequests(pod)[kind] \in Nat
  PROVE  addRequests(total, pod) \in [NodeNames -> [Kinds -> Int]]
<1> DEFINE more == [kind \in Kinds |-> total[pod.node][kind] + PodRequests(pod)[kind]]
<1>1. \A kind \in Kinds : total[pod.node][kind] + PodRequests(pod)[kind] \in Int
  <2> TAKE kind \in Kinds
  <2>1. total[pod.node][kind] \in Int
    OBVIOUS
  <2>2. PodRequests(pod)[kind] \in Int
    OBVIOUS
  <2> QED
    BY <2>1, <2>2
<1>2. more \in [Kinds -> Int]
  BY <1>1
<1>3. addRequests(total, pod) = [total EXCEPT ![pod.node] = more]
  BY DEF addRequests
<1> HIDE DEF more
<1> QED
  BY <1>2, <1>3

\* The types are kept by each step.
LEMMA TypedKept ==
  ASSUME Typed, [Next]_vars
  PROVE  Typed'
<1> USE DEF Typed
<1>0. cluster' = cluster /\ podsOf' = podsOf
  BY ClusterKept
<1>1. CASE TakePage
  <2>1. Head(queue) \in Seq(podsOf) /\ Tail(queue) \in Seq(Seq(podsOf))
    BY <1>1, HeadTailProperties DEF TakePage
  <2> QED
    BY <1>0, <1>1, <2>1 DEF TakePage
<1>2. CASE AbandonPage
  <2>1. Tail(queue) \in Seq(Seq(podsOf))
    BY <1>2, HeadTailProperties DEF AbandonPage
  <2> QED
    BY <1>0, <1>2, <2>1 DEF AbandonPage, fold
<1>3. CASE FoldPod
  <2> DEFINE pod == Head(chunk)
  <2>1. Tail(chunk) \in Seq(podsOf) /\ pod \in podsOf
    BY <1>3, HeadTailProperties DEF FoldPod
  <2>2. /\ pod.node \in NodeNames \cup {""}
        /\ \A kind \in Kinds : PodRequests(pod)[kind] \in Nat
    BY <2>1, PodsTyped
  <2>3. used' = IF holdsNode(pod) THEN addRequests(used, pod) ELSE used
    BY <1>3 DEF FoldPod
  <2> HIDE DEF pod
  <2>4. used' \in [NodeNames -> [Kinds -> Int]]
    <3>1. CASE holdsNode(pod)
      <4>1. pod.node \in NodeNames
        BY <2>2, <3>1 DEF holdsNode
      <4>2. used \in [NodeNames -> [Kinds -> Int]]
        OBVIOUS
      <4> HIDE DEF Typed
      <4> QED
        BY <2>2, <2>3, <3>1, <4>1, <4>2, RequestsAdded
    <3>2. CASE ~holdsNode(pod)
      BY <2>3, <3>2
    <3> QED
      BY <3>1, <3>2
  <2> QED
    BY <1>0, <1>3, <2>1, <2>4 DEF FoldPod, pager
<1>4. CASE EndOfPages
  BY <1>0, <1>4 DEF EndOfPages, pager, fold
<1>5. CASE CheckLink
  BY <1>0, <1>5 DEF CheckLink, pager
<1>6. CASE BuildViews
  BY <1>0, <1>6 DEF BuildViews, pager, fold
<1>7. CASE ListNodes
  BY <1>0, <1>7 DEF ListNodes, fold
<1>8. CASE NodesFail
  BY <1>0, <1>8 DEF NodesFail, pager, fold
<1>9. CASE ListPage
  <2>1. pageEnd(listed) \in listed..Len(cluster.pods) /\ Len(cluster.pods) \in Nat
    BY PageEnd, PodsTyped
  <2>2. SubSeq(cluster.pods, listed + 1, pageEnd(listed)) \in Seq(podsOf)
    BY <2>1, PieceTyped
  <2>3. pageEnd(listed) \in 0..Len(cluster.pods)
    BY <2>1
  <2> QED
    BY <1>0, <1>9, <2>2, <2>3 DEF ListPage, fold
<1>10. CASE PageFails
  BY <1>0, <1>10 DEF PageFails, fold
<1>11. CASE SendPage
  <2>1. Append(queue, page) \in Seq(Seq(podsOf))
    BY AppendProperties
  <2> QED
    BY <1>0, <1>11, <2>1 DEF SendPage, fold
<1>12. CASE SendGivesUp
  BY <1>0, <1>12 DEF SendGivesUp, fold
<1>13. CASE Deadline
  BY <1>0, <1>13 DEF Deadline, pager, fold
<1>14. CASE UNCHANGED vars
  BY <1>0, <1>14 DEF vars, pager, fold
<1> QED
  BY <1>1, <1>2, <1>3, <1>4, <1>5, <1>6, <1>7, <1>8, <1>9, <1>10, <1>11, <1>12, <1>13, <1>14
     DEF Next, Caller, Calls, Lister, Done

\* The bounds of the pages are kept by each step.
LEMMA PagesKept ==
  ASSUME Typed, PagesInv, [Next]_vars
  PROVE  PagesInv'
<1> USE DEF PagesInv
<1>0. cluster' = cluster
  BY ClusterKept
<1>1. ASSUME queue # <<>>, queue' = Tail(queue)
      PROVE  /\ Len(queue') <= PageBufferSize
             /\ cluster.limited => /\ Len(Head(queue)) <= PageSize
                                   /\ \A n \in 1..Len(queue') : Len(queue'[n]) <= PageSize
  <2>1. /\ Len(queue) \in Nat /\ Len(queue) # 0 /\ Head(queue) = queue[1]
        /\ Len(Tail(queue)) = Len(queue) - 1 /\ \A n \in 1..Len(Tail(queue)) : Tail(queue)[n] = queue[n + 1]
    BY <1>1, HeadTailProperties, EmptySeq, LenProperties DEF Typed
  <2>2. 1 \in 1..Len(queue) /\ \A n \in 1..Len(Tail(queue)) : n + 1 \in 1..Len(queue)
    BY <2>1
  <2> QED
    BY <1>1, <2>1, <2>2, PagerAssumption
<1>2. CASE TakePage
  BY <1>0, <1>1, <1>2 DEF TakePage
<1>3. CASE AbandonPage
  BY <1>0, <1>1, <1>3 DEF AbandonPage, fold
<1>4. CASE FoldPod
  <2>1. Len(chunk) \in Nat /\ Len(Tail(chunk)) = Len(chunk) - 1
    BY <1>4, HeadTailProperties, LenProperties DEF FoldPod, Typed
  <2>2. cluster.limited => Len(Tail(chunk)) <= PageSize
    BY <2>1, PagerAssumption
  <2> QED
    BY <1>0, <1>4, <2>2 DEF FoldPod, pager
<1>5. CASE EndOfPages
  BY <1>0, <1>5 DEF EndOfPages, pager, fold
<1>6. CASE CheckLink
  BY <1>0, <1>6 DEF CheckLink, pager
<1>7. CASE BuildViews
  BY <1>0, <1>7 DEF BuildViews, pager, fold
<1>8. CASE ListNodes
  BY <1>0, <1>8 DEF ListNodes, fold
<1>9. CASE NodesFail
  BY <1>0, <1>9 DEF NodesFail, pager, fold
<1>10. CASE ListPage
  <2>1. /\ pageEnd(listed) \in listed..Len(cluster.pods)
        /\ cluster.limited => pageEnd(listed) - listed <= PageSize
    BY PageEnd
  <2>2. Len(SubSeq(cluster.pods, listed + 1, pageEnd(listed))) = pageEnd(listed) - listed
    BY <2>1, PieceTyped
  <2> QED
    BY <1>0, <1>10, <2>1, <2>2 DEF ListPage, fold
<1>11. CASE PageFails
  BY <1>0, <1>11 DEF PageFails, fold
<1>12. CASE SendPage
  <2>1. /\ Len(queue) \in Nat /\ Len(Append(queue, page)) = Len(queue) + 1
        /\ Append(queue, page)[Len(queue) + 1] = page
        /\ \A n \in 1..Len(queue) : Append(queue, page)[n] = queue[n]
    BY AppendProperties, LenProperties DEF Typed
  <2>2. Len(queue) + 1 <= PageBufferSize
    BY <1>12, <2>1, PagerAssumption DEF SendPage
  <2>3. \A n \in 1..Len(queue) + 1 : n \in 1..Len(queue) \/ n = Len(queue) + 1
    BY <2>1
  <2>4. cluster.limited => \A n \in 1..Len(Append(queue, page)) : Len(Append(queue, page)[n]) <= PageSize
    BY <2>1, <2>3
  <2> QED
    BY <1>0, <1>12, <2>1, <2>2, <2>4, EmptySeq, PagerAssumption DEF SendPage, fold
<1>13. CASE SendGivesUp
  BY <1>0, <1>13, EmptySeq, PagerAssumption DEF SendGivesUp, fold
<1>14. CASE Deadline
  BY <1>0, <1>14 DEF Deadline, pager, fold
<1>15. CASE UNCHANGED vars
  BY <1>0, <1>15 DEF vars, pager, fold
<1> QED
  BY <1>2, <1>3, <1>4, <1>5, <1>6, <1>7, <1>8, <1>9, <1>10, <1>11, <1>12, <1>13, <1>14, <1>15
     DEF Next, Caller, Calls, Lister, Done

\* What was folded stays folded when the pager and the fold do not move.
LEMMA LostStill ==
  ASSUME NothingLost, UNCHANGED <<cluster, listed, page, queue, chunk, used, placed, chainPods>>
  PROVE  NothingLost'
<1>1. ahead' = ahead
  BY DEF ahead
<1> QED
  BY <1>1, LostSame

\* Each step keeps the pods together while they are read.
LEMMA FoldKept ==
  ASSUME Typed, PagesInv, FoldInv, [Next]_vars
  PROVE  FoldInv'
<1>1. CASE TakePage
  <2>1. call = "pods" /\ UNCHANGED <<cluster, call, listed, outcome, used, placed, chainPods, link, chain>>
    BY <1>1 DEF TakePage
  <2>2. NothingLost => NothingLost'
    BY <1>1, <2>1, AheadTakePage, LostSame
  <2> QED
    BY <2>1, <2>2 DEF FoldInv
<1>2. CASE FoldPod
  <2>1. call = "pods" /\ UNCHANGED <<call, outcome, link, chain>>
    BY <1>2 DEF FoldPod, pager
  <2> QED
    BY <1>2, <2>1, LostFoldPod DEF FoldInv
<1>3. CASE ListPage
  <2>1. UNCHANGED <<call, outcome, link, chain>>
    BY <1>3 DEF ListPage
  <2> QED
    BY <1>3, <2>1, LostListPage DEF FoldInv
<1>4. CASE SendPage
  <2>1. UNCHANGED <<cluster, call, listed, outcome, used, placed, chainPods, link, chain>>
    BY <1>4 DEF SendPage, fold
  <2>2. NothingLost => NothingLost'
    BY <1>4, <2>1, AheadSendPage, LostSame
  <2> QED
    BY <2>1, <2>2 DEF FoldInv
<1>5. CASE AbandonPage \/ EndOfPages \/ BuildViews \/ NodesFail
  <2>1. call' \notin {"nodes", "pods"}
    BY <1>5 DEF AbandonPage, EndOfPages, BuildViews, NodesFail
  <2> QED
    BY <2>1 DEF FoldInv
<1>6. CASE CheckLink
  BY <1>6 DEF CheckLink, FoldInv
<1>7. CASE PageFails \/ SendGivesUp
  <2>1. outcome' = "error" /\ UNCHANGED <<call, link, chain>>
    BY <1>7 DEF PageFails, SendGivesUp
  <2> QED
    BY <2>1 DEF FoldInv
<1>8. CASE ListNodes \/ Deadline \/ UNCHANGED vars
  <2>1. /\ call' \in {"nodes", "pods"} => call \in {"nodes", "pods"}
        /\ UNCHANGED <<outcome, link, chain>>
        /\ UNCHANGED <<cluster, listed, page, queue, chunk, used, placed, chainPods>>
    BY <1>8 DEF ListNodes, Deadline, vars, pager, fold
  <2>2. NothingLost => NothingLost'
    BY <2>1, LostStill
  <2> QED
    BY <2>1, <2>2 DEF FoldInv
<1> QED
  BY <1>1, <1>2, <1>3, <1>4, <1>5, <1>6, <1>7, <1>8
     DEF Next, Caller, Calls, Lister, Done

\* Each link is detected when one of its pods is there.
LEMMA DetectedKept ==
  ASSUME ChainTyped, Detected, ChainNext
  PROVE  Detected'
<1>1. 1..(link' - 1) = 1..(link - 1) \cup {link} /\ chainPods' = chainPods
  BY DEF ChainTyped, ChainNext, SkipLink, ObserveLink
<1>2. CASE SkipLink
  BY <1>1, <1>2 DEF SkipLink, Detected
<1>3. CASE ObserveLink
  <2> DEFINE matches == matchChainPods(chainPods, link)
             broken == {i \in matches : ~chainPodHealth(chainPods[i])}
  <2>1. PICK i \in sortedFirst(chainPods, IF broken = {} THEN matches ELSE broken) :
          chain' = withComponent(chain, Component(link, chainPods[i], broken = {}))
    BY <1>3 DEF ObserveLink
  <2>2. i \in matches
    BY DEF sortedFirst
  <2>3. chain'.detected = TRUE
    BY <2>1 DEF withComponent
  <2> QED
    BY <1>1, <2>2, <2>3 DEF Detected
<1> QED
  BY <1>2, <1>3 DEF ChainNext

LEMMA FirstBrokenStill ==
  ASSUME FirstBrokenIsFirst, UNCHANGED chainVars
  PROVE  FirstBrokenIsFirst'
BY DEF FirstBrokenIsFirst, chainVars, Broken

\* When the pages have ended without an error all pods are folded.
LEMMA AllFolded ==
  ASSUME Typed, PagesInv, FoldInv, EndOfPages, outcome = "ok"
  PROVE  /\ lister' = "stopped" /\ NothingLost' /\ folded' = Len(cluster'.pods)
         /\ ChainTyped' /\ Detected'
<1> DEFINE pods == cluster.pods
           N == Len(pods)
           forChain == selectedUpTo(pods, relevant(pods))
<1>1. /\ call = "pods" /\ chunk = <<>> /\ queue = <<>> /\ lister = "stopped"
      /\ UNCHANGED <<cluster, lister, listed, page, queue, chunk, used, placed, chainPods, link, chain>>
  BY DEF EndOfPages, pager, fold
<1>2. page = <<>> /\ listed = N /\ NothingLost /\ link = 1 /\ chain = NoChain
  BY <1>1 DEF PagesInv, FoldInv
<1>3. NothingLost'
  BY <1>1, <1>2, LostStill
<1>4. N \in Nat
  BY PodsTyped
<1>5. Len(ahead) = 0
  <2>1. FlattenSeq(queue) = <<>>
    BY <1>1 DEF FlattenSeq
  <2>2. ahead = (<<>> \o <<>>) \o <<>>
    BY <1>1, <1>2, <2>1 DEF ahead
  <2> QED
    BY <2>2, ConcatEmptySeq, EmptySeq
<1>6. folded = N
  BY <1>2, <1>4, <1>5 DEF folded
<1>7. folded' = N
  BY <1>1, <1>6 DEF folded, ahead
<1>8. ChainTyped'
  <2>1. chainPods = forChain[N]
    BY <1>2, <1>6 DEF NothingLost
  <2>2. forChain \in [0..N -> Seq({pods[k] : k \in 1..N})]
    BY <1>4, SelectedRecursion
  <2>3. {pods[k] : k \in 1..N} \subseteq podsOf
    BY PodsTyped, ElementOfSeq
  <2>4. chainPods \in Seq({pods[k] : k \in 1..N})
    <3> HIDE DEF forChain, N
    <3> QED
      BY <1>4, <2>1, <2>2
  <2>5. \A i \in DOMAIN chainPods : chainPods[i] \in podsOf
    BY <2>3, <2>4
  <2>6. \A i \in DOMAIN chainPods :
          /\ chainPods[i].name \in DOMAIN StepsOf
          /\ chainPods[i].ns \in STRING /\ chainPods[i].node \in STRING
    <3>1. NodeNames \cup {""} \subseteq STRING
      BY ClustersAssumption
    <3>2. \A pod \in podsOf : pod.name \in DOMAIN StepsOf /\ pod.ns \in STRING /\ pod.node \in STRING
      BY <3>1, PodsTyped
    <3> QED
      BY <2>5, <3>2
  <2> QED
    BY <1>1, <1>2, <2>6, ChainLinks DEF ChainTyped
<1>9. Detected'
  <2>1. 1..(link' - 1) = {} /\ chain'.detected = FALSE
    BY <1>1, <1>2 DEF NoChain
  <2> QED
    BY <2>1 DEF Detected
<1> QED
  BY <1>1, <1>3, <1>7, <1>8, <1>9

\* The chain is looked at once all pods are folded, and nothing moves meanwhile.
LEMMA ChainKept ==
  ASSUME Typed, PagesInv, FoldInv, ChainInv, [Next]_vars
  PROVE  ChainInv'
<1>1. CASE FoldPod
  <2>1. /\ call' = "pods" /\ link' = 1 /\ chain'.firstBroken = Nil
    BY <1>1 DEF FoldPod, FoldInv, NoChain
  <2>2. 1..(link' - 1) = {}
    BY <2>1
  <2> QED
    BY <2>1, <2>2 DEF ChainInv, FirstBrokenIsFirst
<1>2. CASE CheckLink
  <2>1. /\ call = "chain" /\ ChainNext
        /\ UNCHANGED <<cluster, lister, listed, page, queue, chunk, used, placed, chainPods>>
    BY <1>2 DEF CheckLink, ChainNext, SkipLink, ObserveLink, pager
  <2>2. lister = "stopped" /\ NothingLost /\ folded = Len(cluster.pods) /\ ChainTyped /\ Detected
    BY <2>1 DEF ChainInv
  <2>3. NothingLost' /\ folded' = Len(cluster'.pods)
    BY <2>1, <2>2, LostStill DEF folded, ahead
  <2>4. ChainTyped' /\ FirstBrokenIsFirst' /\ Detected'
    BY <2>1, <2>2, ChainStep, DetectedKept DEF ChainInv
  <2> QED
    BY <2>1, <2>2, <2>3, <2>4 DEF ChainInv
<1>3. CASE EndOfPages
  <2>1. FirstBrokenIsFirst'
    BY <1>3, FirstBrokenStill DEF EndOfPages, fold, chainVars, ChainInv
  <2>2. CASE outcome = "ok"
    BY <1>3, <2>1, <2>2, AllFolded DEF ChainInv
  <2>3. CASE outcome # "ok"
    BY <1>3, <2>1, <2>3 DEF EndOfPages, ChainInv
  <2> QED
    BY <2>2, <2>3
<1>4. CASE ListPage \/ PageFails \/ SendPage \/ SendGivesUp
  <2>1. lister # "stopped" /\ UNCHANGED <<call, chainVars>>
    BY <1>4 DEF ListPage, PageFails, SendPage, SendGivesUp, fold, chainVars
  <2> QED
    BY <2>1, FirstBrokenStill DEF ChainInv
<1>5. CASE TakePage \/ AbandonPage \/ BuildViews \/ ListNodes \/ NodesFail
  <2>1. call' # "chain" /\ UNCHANGED chainVars
    BY <1>5 DEF TakePage, AbandonPage, BuildViews, ListNodes, NodesFail, fold, chainVars
  <2> QED
    BY <2>1, FirstBrokenStill DEF ChainInv
<1>6. CASE Deadline \/ UNCHANGED vars
  <2>1. /\ UNCHANGED <<call, lister, chainVars>>
        /\ UNCHANGED <<cluster, listed, page, queue, chunk, used, placed, chainPods>>
    BY <1>6 DEF Deadline, vars, pager, fold, chainVars
  <2>2. ChainTyped => ChainTyped'
    BY <2>1 DEF ChainTyped, chainVars
  <2>3. Detected => Detected'
    BY <2>1 DEF Detected, chainVars
  <2>4. NothingLost => NothingLost'
    BY <2>1, LostStill
  <2>5. folded = Len(cluster.pods) => folded' = Len(cluster'.pods)
    BY <2>1 DEF folded, ahead
  <2> QED
    BY <2>1, <2>2, <2>3, <2>4, <2>5, FirstBrokenStill DEF ChainInv
<1> QED
  BY <1>1, <1>2, <1>3, <1>4, <1>5, <1>6 DEF Next, Caller, Calls, Lister, Done

LEMMA GatherInvariant == Spec => []GatherInv
<1>1. Init => GatherInv
  BY GatherStart
<1>2. GatherInv /\ [Next]_vars => GatherInv'
  BY TypedKept, PagesKept, FoldKept, ChainKept DEF GatherInv
<1> QED
  BY <1>1, <1>2, PTL DEF Spec

-----------------------------------------------------------------------------
(* The theorems *)

\* main.go:264-297: between the pages nothing is lost, doubled or reordered, and
\* the totals, the placed pods and the pods of the chain are at any time those of
\* the pods of the list folded so far.
THEOREM LosesNothing == Spec => []NothingLostBetweenPages
<1>1. GatherInv => NothingLostBetweenPages
  BY DEF GatherInv, FoldInv, NothingLostBetweenPages
<1> QED
  BY <1>1, GatherInvariant, PTL

\* operator.go:169, for the chain as gathered: the link named is the first broken
\* one of the pods that were collected from the pages.
THEOREM GatheredChainNamesFirst == Spec => []FirstBrokenIsFirst
<1>1. GatherInv => FirstBrokenIsFirst
  BY DEF GatherInv, ChainInv
<1> QED
  BY <1>1, GatherInvariant, PTL

\* main.go:264-266, as far as the server honours the limit: the page being folded,
\* those in the buffer and the one to hand over are all that is held, however long
\* the list is.  Of a server that ignores the limit, as it may for ResourceVersion 0,
\* it says nothing: there all pods are held at once.
THEOREM HoldsFewPages == Spec => []HeldBoundedIfLimited
<1>1. ASSUME GatherInv
      PROVE  HeldBoundedIfLimited
  <2> SUFFICES ASSUME cluster.limited
               PROVE  Len(ahead) <= (PageBufferSize + 2) * PageSize
    BY DEF HeldBoundedIfLimited
  <2> DEFINE inQueue == Len(FlattenSeq(queue))
             pages == Len(queue)
             inPage == Len(page)
             inChunk == Len(chunk)
  <2>1. /\ Typed /\ PageSize \in Nat /\ PageBufferSize \in Nat
        /\ pages <= PageBufferSize /\ inChunk <= PageSize /\ inPage <= PageSize
        /\ \A n \in 1..Len(queue) : Len(queue[n]) <= PageSize
    BY <1>1, PagerAssumption DEF GatherInv, PagesInv
  <2>2. inQueue <= pages * PageSize
    BY <2>1, FlattenLength DEF Typed
  <2>3. inQueue \in Nat /\ pages \in Nat /\ inPage \in Nat /\ inChunk \in Nat
    BY <2>1, AheadTyped, LenProperties DEF Typed
  <2>4. Len(ahead) = inChunk + inQueue + inPage
    BY <2>1, AheadTyped
  <2> HIDE DEF inQueue, pages, inPage, inChunk
  <2>5. pages * PageSize <= PageBufferSize * PageSize
    BY <2>1, <2>3
  <2>6. (PageBufferSize + 2) * PageSize = PageBufferSize * PageSize + PageSize + PageSize
    BY <2>1
  <2> DEFINE most == PageBufferSize * PageSize
             now == pages * PageSize
  <2>7. most \in Nat /\ now \in Nat
    BY <2>1, <2>3
  <2>8. inQueue <= most
    <3>1. inQueue <= now /\ now <= most
      BY <2>2, <2>5
    <3> HIDE DEF most, now
    <3> QED
      BY <2>3, <2>7, <3>1
  <2>9. (PageBufferSize + 2) * PageSize = most + PageSize + PageSize
    BY <2>6
  <2>10. inChunk + inQueue + inPage <= most + PageSize + PageSize
    <3> HIDE DEF most
    <3> QED
      BY <2>1, <2>3, <2>7, <2>8
  <2> QED
    BY <2>4, <2>9, <2>10
<1> QED
  BY <1>1, GatherInvariant, PTL

-----------------------------------------------------------------------------
(* The answer is the complete picture *)

\* The pods collected tell of each link what the whole list tells.
LEMMA SameForChain ==
  ASSUME GatherInv, call = "chain"
  PROVE  \A s \in Links :
           /\ matchChainPods(chainPods, s) # {} <=>
                \E i \in DOMAIN cluster.pods : s \in StepsOf[cluster.pods[i].name]
           /\ Broken(s, chainPods) <=> Broken(s, cluster.pods)
<1> DEFINE pods == cluster.pods
           N == Len(pods)
           positions == relevant(pods)
<1>1. /\ N \in Nat /\ DOMAIN pods = 1..N
      /\ chainPods = selectedUpTo(pods, positions)[N]
  BY PodsTyped DEF GatherInv, ChainInv, NothingLost
<1>2. \A i \in positions : i \in 1..N
  BY <1>1 DEF relevant
<1>3. /\ \A k \in DOMAIN chainPods : \E i \in positions : chainPods[k] = pods[i]
      /\ \A i \in positions : \E k \in DOMAIN chainPods : chainPods[k] = pods[i]
  <2>1. AllAt(chainPods, pods, positions)
    <3> HIDE DEF positions
    <3> QED
      BY <1>1, <1>2, SelectedFromAll
  <2> QED
    BY <2>1 DEF AllAt
<1>4. \A i \in DOMAIN pods, s \in Links : s \in StepsOf[pods[i].name] => i \in positions
  BY DEF relevant, ChainRelevant
<1>5. positions \subseteq DOMAIN pods
  BY DEF relevant
<1>6. /\ \A k \in DOMAIN chainPods : \E i \in DOMAIN pods : chainPods[k] = pods[i]
      /\ \A i \in DOMAIN pods, s \in Links : s \in StepsOf[pods[i].name] =>
           \E k \in DOMAIN chainPods : chainPods[k] = pods[i]
  <2> HIDE DEF positions
  <2> QED
    BY <1>3, <1>4, <1>5
<1> HIDE DEF pods
<1> TAKE s \in Links
<1>7. matchChainPods(chainPods, s) # {} <=> \E i \in DOMAIN pods : s \in StepsOf[pods[i].name]
  BY <1>6 DEF matchChainPods
<1>8. Broken(s, chainPods) <=> Broken(s, pods)
  <2>1. ASSUME Broken(s, chainPods) PROVE Broken(s, pods)
    BY <1>6, <2>1 DEF Broken
  <2>2. ASSUME Broken(s, pods) PROVE Broken(s, chainPods)
    BY <1>6, <2>2 DEF Broken
  <2> QED
    BY <2>1, <2>2
<1> QED
  BY <1>7, <1>8 DEF pods

LEMMA LeastIsMin ==
  ASSUME NEW S \in SUBSET Int, NEW s \in S, \A t \in S : s <= t
  PROVE  Min(S) = s
<1>1. Min(S) \in S /\ \A t \in S : Min(S) <= t
  BY DEF Min
<1>2. Min(S) \in Int /\ s \in Int /\ Min(S) <= s /\ s <= Min(S)
  BY <1>1
<1> QED
  BY <1>2

\* The link named when all have been looked at is the first broken one of the list.
LEMMA NamedIsFirst ==
  ASSUME GatherInv, call = "chain", link \notin Links
  PROVE  LET broken == {s \in Links : Broken(s, cluster.pods)}
         IN  IF chain.firstBroken = Nil THEN broken = {}
             ELSE broken # {} /\ chain.firstBroken.name = gpuChain[Min(broken)]
<1> DEFINE broken == {s \in Links : Broken(s, cluster.pods)}
<1>1. 1..(link - 1) = 1..8 /\ Links = 1..8
  BY ChainLinks DEF GatherInv, ChainInv, ChainTyped
<1>2. FirstBrokenIsFirst /\ \A s \in Links : Broken(s, chainPods) <=> Broken(s, cluster.pods)
  BY SameForChain DEF GatherInv, ChainInv
<1>3. CASE chain.firstBroken = Nil
  BY <1>1, <1>2, <1>3 DEF FirstBrokenIsFirst
<1>4. CASE chain.firstBroken # Nil
  <2>1. PICK s \in 1..8 :
          /\ chain.firstBroken.name = gpuChain[s]
          /\ \A t \in 1..(s - 1) : ~Broken(t, chainPods)
          /\ Broken(s, chainPods)
    BY <1>1, <1>2, <1>4 DEF FirstBrokenIsFirst, Broken
  <2>2. s \in broken /\ \A t \in 1..(s - 1) : t \notin broken
    BY <1>1, <1>2, <2>1
  <2>3. broken \in SUBSET Int /\ \A t \in broken : t \in 1..8
    BY <1>1
  <2> HIDE DEF broken
  <2>4. \A t \in broken : s <= t
    BY <2>2, <2>3
  <2>5. Min(broken) = s
    BY <2>2, <2>3, <2>4, LeastIsMin
  <2>6. broken # {} /\ chain.firstBroken.name = gpuChain[Min(broken)]
    BY <2>1, <2>2, <2>5
  <2> QED
    BY <1>4, <2>6 DEF broken
<1> QED
  BY <1>3, <1>4

LEMMA AnswerComplete ==
  ASSUME GatherInv, BuildViews
  PROVE  answer' = Complete(cluster)
<1> DEFINE pods == cluster.pods
           N == Len(pods)
           broken == {s \in Links : Broken(s, pods)}
<1>1. /\ call = "chain" /\ link \notin Links /\ call' = "answered"
      /\ views' = [k \in DOMAIN cluster.nodes |->
                     [name |-> cluster.nodes[k], used |-> used[cluster.nodes[k]]]]
      /\ UNCHANGED <<placed, chain>>
  BY DEF BuildViews, fold
<1>2. /\ Typed /\ N \in Nat /\ folded = N /\ NothingLost /\ ChainTyped /\ Detected
  BY <1>1, PodsTyped DEF GatherInv, ChainInv
<1>3. views' = [k \in DOMAIN cluster.nodes |->
                  [name |-> cluster.nodes[k], used |-> usedOn(pods, cluster.nodes[k])]]
  <2>1. \A k \in DOMAIN cluster.nodes : cluster.nodes[k] \in NodeNames
    <3>1. cluster.nodes \in Seq(NodeNames)
      BY <1>2, ClustersAssumption DEF Typed
    <3> QED
      BY <3>1
  <2>2. ASSUME NEW n \in NodeNames
        PROVE  used[n] = usedOn(pods, n)
    <3>1. used[n] = [kind \in Kinds |-> used[n][kind]]
      BY <1>2 DEF Typed
    <3>2. \A kind \in Kinds : used[n][kind] = usedUpTo(pods, n, kind)[N]
      BY <1>2 DEF NothingLost
    <3> QED
      BY <3>1, <3>2 DEF usedOn
  <2> QED
    BY <1>1, <2>1, <2>2
<1>4. placed' = placedOf(pods)
  BY <1>1, <1>2 DEF NothingLost, placedOf
<1>5. chain'.detected = \E s \in Links : \E i \in DOMAIN pods : s \in StepsOf[pods[i].name]
  <2>1. 1..(link - 1) = 1..8 /\ Links = 1..8
    BY <1>1, <1>2, ChainLinks DEF ChainTyped
  <2>2. chain.detected <=> \E s \in Links : matchChainPods(chainPods, s) # {}
    BY <1>2, <2>1 DEF Detected
  <2>3. chain.detected <=> \E s \in Links : \E i \in DOMAIN pods : s \in StepsOf[pods[i].name]
    BY <1>1, <2>2, SameForChain
  <2>4. chain.detected \in BOOLEAN
    BY <1>2 DEF Detected
  <2> QED
    BY <1>1, <2>3, <2>4
<1>6. (IF chain'.firstBroken = Nil THEN Nil ELSE chain'.firstBroken.name)
        = IF broken = {} THEN Nil ELSE gpuChain[Min(broken)]
  BY <1>1, NamedIsFirst
<1> HIDE DEF broken
<1>7. answer' = [views |-> views', placed |-> placed', detected |-> chain'.detected,
                 firstBroken |-> IF chain'.firstBroken = Nil THEN Nil ELSE chain'.firstBroken.name]
  BY <1>1 DEF answer
<1>8. Complete(cluster) =
        [views |-> [k \in DOMAIN cluster.nodes |->
                      [name |-> cluster.nodes[k], used |-> usedOn(pods, cluster.nodes[k])]],
         placed |-> placedOf(pods),
         detected |-> \E s \in Links : \E i \in DOMAIN pods : s \in StepsOf[pods[i].name],
         firstBroken |-> IF broken = {} THEN Nil ELSE gpuChain[Min(broken)]]
  BY DEF Complete, broken
<1> QED
  BY <1>3, <1>4, <1>5, <1>6, <1>7, <1>8

\* Each step ends the call, with an error or the complete picture, or leaves it as it is.
LEMMA StepAnswers ==
  ASSUME GatherInv, [Next]_vars
  PROVE  [Promise!Answer]_Promise!vars
<1>1. CASE BuildViews
  <2>1. ~Ended /\ Ended' /\ cluster' = cluster
    BY <1>1 DEF BuildViews, Ended
  <2> QED
    BY <1>1, <2>1, AnswerComplete DEF Promise!Answer
<1>2. CASE NodesFail \/ AbandonPage \/ (EndOfPages /\ call' = "failed")
  <2>1. ~Ended /\ Ended' /\ cluster' = cluster /\ answer' = Nil
    BY <1>2 DEF NodesFail, AbandonPage, EndOfPages, Ended, answer
  <2> QED
    BY <2>1 DEF Promise!Answer
<1>3. CASE \/ TakePage \/ FoldPod \/ CheckLink \/ ListNodes \/ Deadline \/ UNCHANGED vars
           \/ ListPage \/ PageFails \/ SendPage \/ SendGivesUp \/ (EndOfPages /\ call' = "chain")
  <2>1. \/ UNCHANGED <<cluster, call, views, placed, chain>>
        \/ call \notin {"answered", "failed"} /\ call' \notin {"answered", "failed"} /\ cluster' = cluster
    BY <1>3 DEF TakePage, FoldPod, CheckLink, ListNodes, Deadline, vars, ListPage, PageFails,
                SendPage, SendGivesUp, EndOfPages, fold
  <2>2. UNCHANGED <<cluster, Ended, answer>>
    BY <2>1 DEF Ended, answer
  <2> QED
    BY <2>2 DEF Promise!vars
<1>4. EndOfPages => call' \in {"chain", "failed"}
  BY DEF EndOfPages
<1> QED
  BY <1>1, <1>2, <1>3, <1>4 DEF Next, Caller, Calls, Lister, Done

\* main_scale_test.go:20: gathering answers once, with an error or with the
\* complete picture of one list of pods, whatever the pages, the buffer, the
\* failures and the deadline do.  That it answers at all is left to TLC.
THEOREM AnswersWithSnapshot == Spec => Promise!Init /\ [][Promise!Answer]_Promise!vars
<1>1. Init => Promise!Init
  BY DEF Init, Promise!Init, Ended, answer
<1>2. GatherInv /\ [Next]_vars => [Promise!Answer]_Promise!vars
  BY StepAnswers
<1> QED
  BY <1>1, <1>2, GatherInvariant, PTL DEF Spec
=============================================================================
