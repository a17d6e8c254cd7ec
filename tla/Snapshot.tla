------------------------------ MODULE Snapshot ------------------------------
(***************************************************************************)
(* What gatherNodeViews (main.go) promises, whatever the pages, buffers    *)
(* and deadlines it works with: for one list of nodes and one list of pods *)
(* it answers once, with an error or with the complete picture.  Complete  *)
(* is a parameter: module Gather instantiates it with the fold over the    *)
(* whole list that main_scale_test.go compares the stream with.            *)
(***************************************************************************)
CONSTANTS Nil, Clusters, Complete(_)

VARIABLES cluster, answered, answer

vars == <<cluster, answered, answer>>

Init ==
  /\ cluster \in Clusters
  /\ answered = FALSE
  /\ answer = Nil

Answer ==
  /\ ~answered
  /\ answered' = TRUE
  /\ answer' \in {Nil, Complete(cluster)}
  /\ UNCHANGED cluster

Spec == Init /\ [][Answer]_vars /\ WF_vars(Answer)
=============================================================================
