------------------------------- MODULE Gather -------------------------------
(***************************************************************************)
(* main.go: gatherNodeViews and streamPods.  The nodes are listed, then    *)
(* the pods, in pages, by a goroutine of client-go's pager (the lister)    *)
(* that hands them over through a buffered channel, while the caller folds *)
(* each pod into the totals of its node; then the operator chain is        *)
(* analysed and the views are built.                                       *)
(*                                                                         *)
(* The pager is outside the repository: it is modelled from its use in     *)
(* main.go:264-297, with the channel, the context and the error promotion  *)
(* of eachListChunkBuffered.  All pages are of the list that the first one *)
(* began: cluster.pods is that list.  A server may ignore the page size    *)
(* when it answers from its watch cache (cluster.limited).                 *)
(*                                                                         *)
(* A pod is a record of module OperatorChain with labels, containers and   *)
(* initContainers; node is "" until it is scheduled.                       *)
(***************************************************************************)
EXTENDS OperatorChain, Totals

CONSTANTS
  Clusters,         \* what the calls find: records [nodes, pods, limited]
  NodeNames,        \* the names pods are scheduled to
  PageSize,         \* podListPageSize
  PageBufferSize    \* how many pages the pager buffers

Phases == {"Pending", "Running", "Succeeded", "Failed", "Unknown"}

\* Lists are sequences, pods have their fields and ask for natural numbers.
ASSUME ClustersAssumption ==
  /\ NodeNames \cup {""} \subseteq STRING
  /\ \A c \in Clusters :
       /\ c.nodes \in Seq(NodeNames)
       /\ c.pods \in Seq(Range(c.pods))
       /\ \A pod \in Range(c.pods) :
            /\ pod.name \in DOMAIN StepsOf /\ pod.ns \in STRING
            /\ pod.node \in NodeNames \cup {""} /\ pod.phase \in Phases
            /\ \A kind \in Kinds : PodRequests(pod)[kind] \in Nat

ASSUME PagerAssumption == PageSize \in Nat \ {0} /\ PageBufferSize \in Nat \ {0}

VARIABLES
  cluster,      \* the lists that the server answers with
  call,         \* where gatherNodeViews is
  deadline,     \* the 30 seconds of the run's context have passed
  cancelled,    \* the pager's own context is cancelled: EachListItem has returned
  lister,       \* where the pager's goroutine is
  listed,       \* how many pods it was given so far
  page,         \* the page it is about to hand over
  queue,        \* the channel of pages
  outcome,      \* the error that the goroutine leaves behind, or "ok"
  chunk,        \* what is left of the page being folded
  used, placed, \* the results of the fold, with chainPods
  views         \* the result

pager == <<lister, listed, page, queue, outcome>>
fold == <<chunk, used, placed, chainPods>>
vars == <<cluster, call, deadline, cancelled, pager, fold, link, chain, views>>

-----------------------------------------------------------------------------
(* Operators *)

\* Mutant: one page for everything (no Limit is sent).
pageEndUnlimited(from) == Len(cluster.pods)

\* The last pod of the page that begins after this many.
pageEnd(from) ==
  IF cluster.limited /\ from + PageSize < Len(cluster.pods)
  THEN from + PageSize ELSE Len(cluster.pods)

\* Mutant: a pod that has ended still counts.
holdsNodeWhenEnded(pod) == pod.node # ""

\* The pod takes room on a node.
holdsNode(pod) == pod.node # "" /\ pod.phase \notin {"Succeeded", "Failed"}

\* Mutant: only pods on a node are looked at for the chain.
keepForChainPlaced(pod) == ChainRelevant(pod) /\ holdsNode(pod)

keepForChain(pod) == ChainRelevant(pod)

\* Mutant: the requests replace those of the pods before.
addRequestsLast(total, pod) == [total EXCEPT ![pod.node] = PodRequests(pod)]

\* A node without an entry in used reads as the zero Resources.
addRequests(total, pod) ==
  [total EXCEPT ![pod.node] = [kind \in Kinds |-> @[kind] + PodRequests(pod)[kind]]]

NoRequests == [n \in NodeNames |-> [kind \in Kinds |-> 0]]

-----------------------------------------------------------------------------
Init ==
  /\ cluster \in Clusters
  /\ call = "nodes"
  /\ deadline = FALSE /\ cancelled = FALSE
  /\ lister = "idle" /\ listed = 0 /\ page = <<>> /\ queue = <<>> /\ outcome = "ok"
  /\ chunk = <<>> /\ used = NoRequests /\ placed = <<>> /\ chainPods = <<>>
  /\ link = 1 /\ chain = NoChain
  /\ views = <<>>

(* The caller *)

ListNodes ==
  /\ call = "nodes" /\ ~deadline
  /\ call' = "pods"
  /\ lister' = "page"
  /\ UNCHANGED <<cluster, deadline, cancelled, listed, page, queue, outcome, fold, link, chain, views>>

\* A call fails: for a reason of the server's, or because the time is up.
NodesFail ==
  /\ call = "nodes"
  /\ call' = "failed"
  /\ UNCHANGED <<cluster, deadline, cancelled, pager, fold, link, chain, views>>

TakePage ==
  /\ call = "pods" /\ chunk = <<>> /\ queue # <<>> /\ ~deadline
  /\ chunk' = Head(queue)
  /\ queue' = Tail(queue)
  /\ UNCHANGED <<cluster, call, deadline, cancelled, lister, listed, page, outcome, used, placed, chainPods, link, chain, views>>

\* A page taken after the deadline is not folded; returning cancels the pager.
AbandonPage ==
  /\ call = "pods" /\ chunk = <<>> /\ queue # <<>> /\ deadline
  /\ queue' = Tail(queue)
  /\ call' = "failed"
  /\ cancelled' = TRUE
  /\ UNCHANGED <<cluster, deadline, lister, listed, page, outcome, fold, link, chain, views>>

\* The callback of EachListItem; it never fails.
FoldPod ==
  /\ call = "pods" /\ chunk # <<>>
  /\ LET pod == Head(chunk)
     IN  /\ chainPods' = IF keepForChain(pod) THEN Append(chainPods, pod) ELSE chainPods
         /\ used' = IF holdsNode(pod) THEN addRequests(used, pod) ELSE used
         /\ placed' = IF holdsNode(pod) THEN Append(placed, placedPod(pod)) ELSE placed
  /\ chunk' = Tail(chunk)
  /\ UNCHANGED <<cluster, call, deadline, cancelled, pager, link, chain, views>>

\* The channel is empty and closed: the goroutine's error becomes the caller's.
EndOfPages ==
  /\ call = "pods" /\ chunk = <<>> /\ queue = <<>> /\ lister = "stopped"
  /\ call' = IF outcome = "ok" THEN "chain" ELSE "failed"
  /\ cancelled' = TRUE
  /\ UNCHANGED <<cluster, deadline, pager, fold, link, chain, views>>

CheckLink ==
  /\ call = "chain"
  /\ ChainNext
  /\ UNCHANGED <<cluster, call, deadline, cancelled, pager, chunk, used, placed, views>>

BuildViews ==
  /\ call = "chain" /\ link \notin Links
  /\ views' = [k \in DOMAIN cluster.nodes |->
                 [name |-> cluster.nodes[k], used |-> used[cluster.nodes[k]]]]
  /\ call' = "answered"
  /\ UNCHANGED <<cluster, deadline, cancelled, pager, fold, link, chain>>

-----------------------------------------------------------------------------
(* The pager's goroutine *)

ContextDone == deadline \/ cancelled

ListPage ==
  /\ lister = "page" /\ ~ContextDone
  /\ page' = SubSeq(cluster.pods, listed + 1, pageEnd(listed))
  /\ listed' = pageEnd(listed)
  /\ lister' = "send"
  /\ UNCHANGED <<cluster, call, deadline, cancelled, queue, outcome, fold, link, chain, views>>

\* An expired continue token, an unreachable server, a context that is done.
PageFails ==
  /\ lister = "page"
  /\ lister' = "stopped"
  /\ outcome' = "error"
  /\ UNCHANGED <<cluster, call, deadline, cancelled, listed, page, queue, fold, link, chain, views>>

SendPage ==
  /\ lister = "send" /\ Len(queue) < PageBufferSize
  /\ queue' = Append(queue, page)
  /\ page' = <<>>
  /\ lister' = IF listed = Len(cluster.pods) THEN "stopped" ELSE "page"
  /\ UNCHANGED <<cluster, call, deadline, cancelled, listed, outcome, fold, link, chain, views>>

SendGivesUp ==
  /\ lister = "send" /\ ContextDone
  /\ lister' = "stopped"
  /\ page' = <<>>
  /\ outcome' = "error"
  /\ UNCHANGED <<cluster, call, deadline, cancelled, listed, queue, fold, link, chain, views>>

-----------------------------------------------------------------------------
Ended == call \in {"answered", "failed"}

ListerEnded == lister \in {"idle", "stopped"}

Deadline ==
  /\ ~deadline /\ ~(Ended /\ ListerEnded)
  /\ deadline' = TRUE
  /\ UNCHANGED <<cluster, call, cancelled, pager, fold, link, chain, views>>

\* Both sides have ended.
Done ==
  /\ Ended /\ ListerEnded
  /\ UNCHANGED vars

Caller == TakePage \/ AbandonPage \/ FoldPod \/ EndOfPages \/ CheckLink \/ BuildViews
Calls == ListNodes \/ NodesFail \/ ListPage \/ PageFails
Lister == SendPage \/ SendGivesUp

Next == Caller \/ Calls \/ Lister \/ Deadline \/ Done

\* A server may leave a call without an answer until the context gives it up.
Fairness ==
  /\ WF_vars(Caller) /\ WF_vars(Lister)
  /\ WF_vars(Deadline)
  /\ WF_vars(deadline /\ NodesFail)
  /\ WF_vars(ContextDone /\ PageFails)

Spec == Init /\ [][Next]_vars /\ Fairness

-----------------------------------------------------------------------------
(* Properties *)

\* The picture of a whole cluster, in one piece.
Complete(c) ==
  LET broken == {s \in Links : Broken(s, c.pods)}
  IN  [views |-> [k \in DOMAIN c.nodes |->
                    [name |-> c.nodes[k], used |-> usedOn(c.pods, c.nodes[k])]],
       placed |-> placedOf(c.pods),
       detected |-> \E s \in Links : \E i \in DOMAIN c.pods : s \in StepsOf[c.pods[i].name],
       firstBroken |-> IF broken = {} THEN Nil ELSE gpuChain[Min(broken)]]

answer ==
  IF call # "answered" THEN Nil
  ELSE [views |-> views, placed |-> placed, detected |-> chain.detected,
        firstBroken |-> IF chain.firstBroken = Nil THEN Nil ELSE chain.firstBroken.name]

Promise == INSTANCE Snapshot WITH answered <- Ended

\* Whatever the pages, the buffer, the failures and the deadline do, the caller
\* ends with an error or with the complete picture of one list, never with part
\* of it (main_scale_test.go:20, TestStreamPods_LargeClusterPaginates), and it ends.
GathersSnapshot == Promise!Spec

relevant(pods) == {k \in DOMAIN pods : ChainRelevant(pods[k])}

ahead == chunk \o FlattenSeq(queue) \o page

folded == listed - Len(ahead)

NothingLost ==
  LET pods == cluster.pods
  IN  /\ folded \in Nat /\ ahead = SubSeq(pods, folded + 1, listed)
      /\ chainPods = selectedUpTo(pods, relevant(pods))[folded]
      /\ placed = placedPods(selectedUpTo(pods, takingRoom(pods))[folded])
      /\ \A n \in NodeNames, kind \in Kinds : used[n][kind] = usedUpTo(pods, n, kind)[folded]

\* Between the pages nothing is lost, doubled or reordered: what is being folded,
\* what waits in the channel and what the lister is about to hand over are the pods
\* listed so far, in the order of the list, but for the first ones; and these are
\* what the totals, the placed pods and the pods of the chain were made of.
NothingLostBetweenPages == call = "pods" /\ outcome = "ok" => NothingLost

\* If the server honours the limit, what the two sides hold together is bounded by
\* the pages: those in the buffer, the one being folded and the one to hand over.  It
\* need not honour it: main.go:266 asks with ResourceVersion 0, which a watch cache may
\* answer with the whole list at once (cluster.limited is FALSE).  Then nothing is
\* claimed here, although main.go:227-230 promises for this very request that "memory
\* scales with page size, not total pod count" (see README.md).
HeldBoundedIfLimited ==
  cluster.limited => Len(ahead) <= (PageBufferSize + 2) * PageSize

(* What the documentation says and the code does not keep (see README.md) *)

\* main.go:257: "No page beyond podListPageSize is held at once", even by a server
\* that honours the limit.
OnePageHeld == cluster.limited => Len(ahead) <= PageSize
=============================================================================
