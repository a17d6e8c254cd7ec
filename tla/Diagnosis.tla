----------------------------- MODULE Diagnosis ------------------------------
(***************************************************************************)
(* What a diagnosis promises: for one Input it answers once, and its answer*)
(* is a function of the Input.  The answer is the reason given for each    *)
(* node, in the order of the nodes, and whether the pod is blocked.        *)
(* ReasonsOf and BlockedBy are parameters: module Analyze instantiates     *)
(* them with the definitions of module Obstacles.                          *)
(***************************************************************************)
CONSTANTS Inputs, ReasonsOf(_), BlockedBy(_)

VARIABLES in, answered, reasons, blocked

vars == <<in, answered, reasons, blocked>>

Init ==
  /\ in \in Inputs
  /\ answered = FALSE
  /\ reasons = <<>>
  /\ blocked = FALSE

Answer ==
  /\ ~answered
  /\ answered' = TRUE
  /\ reasons' = ReasonsOf(in)
  /\ blocked' = BlockedBy(in)
  /\ UNCHANGED in

Spec == Init /\ [][Answer]_vars /\ WF_vars(Answer)
=============================================================================
