----------------------------- MODULE Resources ------------------------------
(***************************************************************************)
(* pkg/diagnose/resources.go: a Resources value is a function from resource*)
(* kinds to quantities.  Basic kinds are the CPUMilli and MemBytes fields; *)
(* the extended kinds are the keys of the Extended map, a key that is not  *)
(* there reading as 0.  The keys are listed in the order of sort.Strings.  *)
(***************************************************************************)
EXTENDS Integers, Sequences, SequencesExt

CONSTANT ExtNames     \* the extended resource names, in the order of sort.Strings

Basic == {"cpu", "mem"}
Kinds == Basic \cup Range(ExtNames)

isStandardResource(name) == name \in Basic \cup {"ephemeral-storage"}

ASSUME ExtNamesAssumption ==
  /\ ExtNames \in Seq(STRING)
  /\ \A name \in Range(ExtNames) : ~isStandardResource(name)

Larger(a, b) == IF a > b THEN a ELSE b

quantityOf(list, kind) == IF kind \in DOMAIN list THEN list[kind] ELSE 0

sumOf(containers, kind) ==
  FoldSeq(LAMBDA c, sum : sum + quantityOf(c, kind), 0, containers)

largestOf(initContainers, kind) ==
  FoldSeq(LAMBDA c, largest : Larger(quantityOf(c, kind), largest), 0, initContainers)

\* Per kind, the larger of the sum over the containers and the largest init
\* container.
PodRequests(pod) ==
  [kind \in Kinds |-> Larger(sumOf(pod.containers, kind), largestOf(pod.initContainers, kind))]

Allocatable(node) == [kind \in Kinds |-> quantityOf(node.alloc, kind)]

Free(nv, kind) == Allocatable(nv)[kind] - nv.used[kind]
=============================================================================
