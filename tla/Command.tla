------------------------------ MODULE Command -------------------------------
(***************************************************************************)
(* args.go and main.go: parseArgs, which reads the command line word by    *)
(* word, and main, which ends every path with an exit code.  What run      *)
(* returns is one of the outcomes of module Run.                           *)
(***************************************************************************)
EXTENDS Integers, Sequences, SequencesExt

CONSTANTS
  CommandLines,   \* the sequences of words main is called with
  Dashed,         \* the words of two or more characters that begin with a dash
  DefaultNS,      \* the namespace of the current context
  Nil

HelpFlags == {"-h", "--help"}
AllFlags == {"-A", "--all-namespaces"}
ColorFlags == {"--no-color"}
NamespaceFlags == {"-n", "--namespace"}
OutputFlags == {"-o", "--output"}
ContextFlags == {"--context"}
KubeconfigFlags == {"--kubeconfig"}
ValueFlags == NamespaceFlags \cup OutputFlags \cup ContextFlags \cup KubeconfigFlags
Flags == HelpFlags \cup AllFlags \cup ColorFlags \cup ValueFlags

ASSUME DashedAssumption == Flags \subseteq Dashed /\ "" \notin Dashed

ASSUME CommandLinesAssumption == \A line \in CommandLines : line \in Seq(Range(line))

VARIABLES
  args,       \* os.Args[1:]
  i,          \* the word being looked at, counted from 1
  opts,
  pc,         \* "parse", "check", "connect", "run" or "exit"
  code,       \* the exit code
  asked,      \* history: what the cluster was asked for
  ending      \* history: how connecting or run ended, "" before

vars == <<args, i, opts, pc, code, asked, ending>>

-----------------------------------------------------------------------------
(* parseArgs *)

NoOptions ==
  [namespace |-> "", output |-> "", context |-> "", kubeconfig |-> "", podName |-> "",
   allNamespaces |-> FALSE, noColor |-> FALSE]

Init ==
  /\ args \in CommandLines
  /\ i = 1
  /\ opts = NoOptions
  /\ pc = "parse"
  /\ code = Nil
  /\ asked = {}
  /\ ending = ""

word == args[i]

AtWord == pc = "parse" /\ i <= Len(args)

Exit(n, how) ==
  /\ pc' = "exit" /\ code' = n /\ ending' = how
  /\ UNCHANGED <<args, i, opts, asked>>

\* Before the cluster is turned to.
ExitEarly(n) == Exit(n, "")

Goto(step) == pc' = step /\ UNCHANGED <<args, i, opts, code, asked, ending>>

\* The loop goes on after the words read for this flag.
Take(words, options) ==
  /\ i' = i + words
  /\ opts' = options
  /\ UNCHANGED <<args, pc, code, asked, ending>>

Help == AtWord /\ word \in HelpFlags /\ ExitEarly(0)

Switch ==
  /\ AtWord /\ word \in AllFlags \cup ColorFlags
  /\ Take(1, IF word \in AllFlags THEN [opts EXCEPT !.allNamespaces = TRUE]
                                  ELSE [opts EXCEPT !.noColor = TRUE])

\* Mutant: the value is read, and then looked at again as a word of its own.
needValueAgain == 1

\* Mutant: the loop is sent back to the flag.
needValueStays == 0

\* How far a flag with its value moves the loop.
needValue == 2

\* Whatever the next word is, it is the value.
Value ==
  /\ AtWord /\ i < Len(args)
  /\ LET field == CASE word \in NamespaceFlags -> "namespace"
                    [] word \in OutputFlags -> "output"
                    [] word \in ContextFlags -> "context"
                    [] word \in KubeconfigFlags -> "kubeconfig"
                    [] OTHER -> Nil
     IN  field # Nil /\ Take(needValue, [opts EXCEPT ![field] = args[i + 1]])

ValueMissing == AtWord /\ word \in ValueFlags /\ i = Len(args) /\ ExitEarly(2)

UnknownFlag == AtWord /\ word \in Dashed \ Flags /\ ExitEarly(2)

\* Mutant: an empty word counts as a pod name that was given.
isExtraCounted == \E k \in 1..(i - 1) : args[k] \notin Dashed

isExtra == opts.podName # ""

PodName ==
  /\ AtWord /\ word \notin Dashed
  /\ IF isExtra THEN ExitEarly(2) ELSE Take(1, [opts EXCEPT !.podName = word])

EndOfArgs == pc = "parse" /\ i > Len(args) /\ Goto("check")

-----------------------------------------------------------------------------
(* main *)

Formats == {"", "text", "json", "yaml"}

\* Mutant: a format is looked at after the cluster was asked.
CheckOutputLate == pc = "check" /\ Goto("connect")

CheckOutput ==
  /\ pc = "check"
  /\ IF opts.output \in Formats THEN Goto("connect") ELSE ExitEarly(2)

\* Mutant: a cluster that cannot be reached has no pending pods.
ConnectFailsQuietly == pc = "connect" /\ Exit(0, "unreachable")

ConnectFails == pc = "connect" /\ Exit(3, "unreachable")

\* Mutant: the namespace of the context wins over the flag.
namespaceOfContext(given) == DefaultNS

namespaceOr(given) == IF given = "" THEN DefaultNS ELSE given

Connect ==
  /\ pc = "connect"
  /\ opts' = [opts EXCEPT !.namespace = namespaceOr(@)]
  /\ pc' = "run"
  /\ asked' = {<<opts'.namespace, opts'.allNamespaces, opts'.podName>>}
  /\ UNCHANGED <<args, i, code, ending>>

\* Mutant: the blockers of a run that failed are reported.
exitCodeOfBlockers(outcome) == IF outcome = "none" THEN 0 ELSE 1

exitCode(outcome) ==
  CASE outcome = "error" -> 3 [] outcome = "blockers" -> 1 [] OTHER -> 0

RunReturns(outcome) == pc = "run" /\ Exit(exitCode(outcome), outcome)

Outcomes == {"none", "blockers", "error"}

Done == pc = "exit" /\ UNCHANGED vars

Next ==
  \/ Help \/ Switch \/ Value \/ ValueMissing \/ UnknownFlag \/ PodName \/ EndOfArgs
  \/ CheckOutput \/ ConnectFails \/ Connect
  \/ \E outcome \in Outcomes : RunReturns(outcome)
  \/ Done

\* Each step is the program's own; run returns by its deadline (Run!Returns).
Spec == Init /\ [][Next]_vars /\ WF_vars(Next)

-----------------------------------------------------------------------------
(* Properties *)

\* How each word is to be read, said of the whole line at once: the word after a
\* flag that takes a value is that value, every other word speaks for itself.
readingOf(words) ==
  LET alone(k) == IF words[k] \in ValueFlags THEN "takes"
                  ELSE IF words[k] \in Dashed THEN "flag" ELSE "pod"
      next(before, k) == IF before = "takes" THEN "value" ELSE alone(k)
      role[k \in 0..Len(words)] == IF k = 0 THEN "start" ELSE next(role[k - 1], k)
  IN  role

reading == readingOf(args)

\* Where the reading has to stop: at a call for help, or at an error.
isError(k) ==
  \/ reading[k] = "takes" /\ k = Len(args)
  \/ reading[k] = "flag" /\ args[k] \notin Flags
  \/ reading[k] = "pod" /\ \E j \in 1..(k - 1) : reading[j] = "pod" /\ args[j] # ""
isHelp(k) == reading[k] = "flag" /\ args[k] \in HelpFlags
stops == {k \in DOMAIN args : isError(k) \/ isHelp(k)}

\* The value that the flags of this kind leave: that of the last of them.
valueOf(flags) ==
  LET at == {k \in DOMAIN args : reading[k] = "value" /\ args[k - 1] \in flags}
  IN  IF at = {} THEN "" ELSE args[CHOOSE k \in at : \A j \in at : j <= k]

given(flags) == \E k \in DOMAIN args : reading[k] = "flag" /\ args[k] \in flags

\* args.go:12-47, the index that needValue moves: a line that is read to its end is
\* read as written, no word twice and none passed over, wherever the pod's name is.
ReadAsWritten ==
  pc \notin {"parse", "exit"} =>
    /\ stops = {}
    /\ \/ opts.namespace = valueOf(NamespaceFlags)
       \/ pc = "run" /\ opts.namespace = DefaultNS /\ valueOf(NamespaceFlags) = ""
    /\ opts.output = valueOf(OutputFlags)
    /\ opts.context = valueOf(ContextFlags) /\ opts.kubeconfig = valueOf(KubeconfigFlags)
    /\ opts.allNamespaces = given(AllFlags) /\ opts.noColor = given(ColorFlags)
    /\ {opts.podName} \ {""} = {args[k] : k \in {j \in DOMAIN args : reading[j] = "pod"}} \ {""}

usageError ==
  \/ stops # {} /\ isError(CHOOSE k \in stops : \A j \in stops : k <= j)
  \/ stops = {} /\ valueOf(OutputFlags) \notin Formats

\* The line leaves nothing to diagnose: it has an error, or it calls for help first.
refused == usageError \/ stops # {}

\* The EXIT CODES of the usage text.
documentedCode ==
  IF usageError THEN 2
  ELSE IF ending \in {"unreachable", "error"} THEN 3
  ELSE IF ending = "blockers" THEN 1 ELSE 0

\* main.go:41-45: each way to end has the code that the usage text gives it: 2 for a
\* usage error, 3 if the cluster was not reached or run failed, 1 for a blocked pod,
\* 0 for help and for none.  A line that can be answered is never passed over, and
\* one that cannot leaves the cluster alone.
ExitCodeAsDocumented ==
  pc = "exit" =>
    /\ code = documentedCode
    /\ refused <=> ending = ""
    /\ asked = {} <=> ending \in {"", "unreachable"}

\* The loop over the words ends, and with it the program.
Exits == <>(pc = "exit")
=============================================================================
