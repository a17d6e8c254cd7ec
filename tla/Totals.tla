------------------------------- MODULE Totals -------------------------------
(***************************************************************************)
(* What the pods of one list amount to: the room they take on each node    *)
(* and the placed pods that topology constraints look at.  This is the     *)
(* referenceFold of main_scale_test.go, stated for each prefix of the list.*)
(***************************************************************************)
EXTENDS Resources

\* The positions of the pods that are on a node and have not ended.
takingRoom(pods) ==
  {i \in DOMAIN pods : pods[i].node # "" /\ pods[i].phase \in {"Pending", "Running", "Unknown"}}

\* How much of this kind the first n pods take on the node, for each n.
usedUpTo(pods, node, kind) ==
  LET takes(n) == IF n \in takingRoom(pods) /\ pods[n].node = node
                  THEN PodRequests(pods[n])[kind] ELSE 0
      total[n \in 0..Len(pods)] == IF n = 0 THEN 0 ELSE total[n - 1] + takes(n)
  IN  total

usedOn(pods, node) == [kind \in Kinds |-> usedUpTo(pods, node, kind)[Len(pods)]]

\* The pods at these positions among the first n, in the order of the list, for each n.
selectedUpTo(pods, positions) ==
  LET with(before, n) == IF n \in positions THEN Append(before, pods[n]) ELSE before
      selected[n \in 0..Len(pods)] == IF n = 0 THEN <<>> ELSE with(selected[n - 1], n)
  IN  selected

placedPod(pod) == [ns |-> pod.ns, node |-> pod.node, labels |-> pod.labels]

placedPods(pods) == [k \in DOMAIN pods |-> placedPod(pods[k])]

placedOf(pods) == placedPods(selectedUpTo(pods, takingRoom(pods))[Len(pods)])
=============================================================================
