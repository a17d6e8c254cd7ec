----------------------------- MODULE MCCommand ------------------------------
(***************************************************************************)
(* Every command line of a few words, from a vocabulary with a word for    *)
(* each case of the parser.                                                *)
(***************************************************************************)
EXTENDS Command

CONSTANT MaxWords

MCDashed == Flags \cup {"-x", "--output=json"}

Vocabulary ==
  {"--help", "-A", "--no-color", "-n", "-o", "--context", "--kubeconfig", "-x", "", "-", "web", "json"}

Lines == UNION {[1..n -> Vocabulary] : n \in 0..MaxWords}

MCLines == Lines
=============================================================================
