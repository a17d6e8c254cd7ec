--------------------------- MODULE Command_proofs ---------------------------
(***************************************************************************)
(* Any command line is read as written and every way to end gives the exit *)
(* code that main.go documents, whatever words count as flags.  The role   *)
(* of each word is defined by recursion over the line, for which the facts *)
(* about recursion of Totals_proofs are used.                              *)
(***************************************************************************)
EXTENDS Command, Totals_proofs

-----------------------------------------------------------------------------
(* The roles of the words *)

Roles == {"start", "value", "takes", "flag", "pod"}

\* A word after a flag that takes a value is the value; the others speak for themselves.
LEMMA ReadingRecursion ==
  ASSUME NEW words, Len(words) \in Nat
  PROVE  /\ readingOf(words)[0] = "start"
         /\ \A k \in 1..Len(words) :
              readingOf(words)[k] = IF readingOf(words)[k - 1] = "takes" THEN "value"
                                    ELSE IF words[k] \in ValueFlags THEN "takes"
                                    ELSE IF words[k] \in Dashed THEN "flag" ELSE "pod"
<1> DEFINE N == Len(words)
           alone(k) == IF words[k] \in ValueFlags THEN "takes"
                       ELSE IF words[k] \in Dashed THEN "flag" ELSE "pod"
           next(before, k) == IF before = "takes" THEN "value" ELSE alone(k)
           step == [k \in 1..N |-> [v \in Roles |-> next(v, k)]]
           equation(f) == f = [k \in 0..N |-> IF k = 0 THEN "start" ELSE next(f[k - 1], k)]
           role == readingOf(words)
<1>1. N \in Nat /\ "start" \in Roles /\ \A k \in 1..N : \A v \in Roles : next(v, k) \in Roles
  BY DEF Roles
<1>2. role = CHOOSE f : equation(f)
  BY DEF readingOf
<1>3. \A k \in 1..N : next(role[k - 1], k) = IF role[k - 1] = "takes" THEN "value" ELSE alone(k)
  OBVIOUS
<1> HIDE DEF N, next, role
<1>4. step \in Steps(N, Roles)
  BY <1>1 DEF Steps
<1>5. PICK f : f \in [0..N -> Roles] /\ Unrolls(f, "start", step, N)
  <2> HIDE DEF step
  <2> QED
    BY <1>1, <1>4, Recursion
<1>6. equation(f)
  <2>1. \A k \in 1..N : f[k - 1] \in Roles
    BY <1>1, <1>5
  <2>2. \A k \in 1..N : step[k][f[k - 1]] = next(f[k - 1], k)
    BY <2>1
  <2>3. f = [k \in 0..N |-> IF k = 0 THEN "start" ELSE step[k][f[k - 1]]]
    BY <1>5 DEF Unrolls
  <2>4. f[0] = "start" /\ \A k \in 1..N : f[k] = next(f[k - 1], k)
    <3> HIDE DEF step
    <3> QED
      BY <1>1, <2>2, <2>3
  <2>5. \A k \in 0..N : f[k] = IF k = 0 THEN "start" ELSE next(f[k - 1], k)
    BY <1>1, <2>4
  <2>6. f = [k \in 0..N |-> f[k]]
    BY <1>5
  <2> QED
    BY <2>5, <2>6
<1>7. equation(role)
  <2> HIDE DEF equation
  <2> QED
    BY <1>2, <1>6
<1>8. role[0] = "start" /\ \A k \in 1..N : role[k] = next(role[k - 1], k)
  BY <1>1, <1>7
<1> QED
  BY <1>3, <1>8 DEF N, role

-----------------------------------------------------------------------------
(* The inductive invariant *)

\* The values among the first n words that belong to these flags.
valuesIn(flags, n) == {k \in 1..n : reading[k] = "value" /\ args[k - 1] \in flags}

\* This is the last of the values, if there are any.
IsLast(v, values) ==
  IF values = {} THEN v = "" ELSE \E k \in values : v = args[k] /\ \A j \in values : j <= k

givenIn(flags, n) == \E k \in 1..n : reading[k] = "flag" /\ args[k] \in flags

\* This is the one pod named among the first n words, empty words not counted.
IsPodName(name, n) ==
  /\ name # "" => \E k \in 1..n : reading[k] = "pod" /\ args[k] = name
  /\ \A k \in 1..n : reading[k] = "pod" => args[k] \in {"", name}

\* The first n words were read to these options, the namespace apart, and stop nothing.
ReadsTo(o, n) ==
  /\ reading[n] # "takes"
  /\ \A k \in stops : k > n
  /\ IsLast(o.output, valuesIn(OutputFlags, n))
  /\ IsLast(o.context, valuesIn(ContextFlags, n))
  /\ IsLast(o.kubeconfig, valuesIn(KubeconfigFlags, n))
  /\ o.allNamespaces <=> givenIn(AllFlags, n)
  /\ o.noColor <=> givenIn(ColorFlags, n)
  /\ IsPodName(o.podName, n)

NamespaceIs(v, n) == IsLast(v, valuesIn(NamespaceFlags, n))

OptionsTyped(o) ==
  o \in [namespace : Range(args) \cup {"", DefaultNS}, output : Range(args) \cup {""},
         context : Range(args) \cup {""}, kubeconfig : Range(args) \cup {""},
         podName : Range(args) \cup {""}, allNamespaces : BOOLEAN, noColor : BOOLEAN]

\* What has been read so far is in the options.
ReadInv ==
  /\ pc \in {"parse", "check", "connect", "run", "exit"}
  /\ args \in CommandLines /\ i \in 1..Len(args) + 1 /\ OptionsTyped(opts)
  /\ pc = "parse" => ReadsTo(opts, i - 1) /\ NamespaceIs(opts.namespace, i - 1)
  /\ pc \in {"check", "connect", "run"} => ReadsTo(opts, Len(args))
  /\ pc \in {"check", "connect"} => NamespaceIs(opts.namespace, Len(args))
  /\ pc = "run" => \/ NamespaceIs(opts.namespace, Len(args))
                   \/ opts.namespace = DefaultNS /\ NamespaceIs("", Len(args))
  /\ pc \in {"connect", "run"} => opts.output \in Formats

\* The cluster was asked when run is called, and nothing has ended before the exit.
EndInv ==
  /\ pc \in {"parse", "check", "connect"} => asked = {}
  /\ pc = "run" => asked # {}
  /\ pc # "exit" => ending = ""
  /\ ExitCodeAsDocumented

CommandInv == ReadInv /\ EndInv

-----------------------------------------------------------------------------
(* The words and what they mean *)

LEMMA LineTyped ==
  ASSUME args \in CommandLines
  PROVE  /\ Len(args) \in Nat /\ DOMAIN args = 1..Len(args)
         /\ \A k \in 1..Len(args) : args[k] \in Range(args)
<1>1. args \in Seq(Range(args))
  BY CommandLinesAssumption
<1> QED
  BY <1>1

LEMMA Roled ==
  ASSUME args \in CommandLines
  PROVE  /\ reading[0] = "start"
         /\ \A k \in 1..Len(args) :
              reading[k] = IF reading[k - 1] = "takes" THEN "value"
                           ELSE IF args[k] \in ValueFlags THEN "takes"
                           ELSE IF args[k] \in Dashed THEN "flag" ELSE "pod"
  BY LineTyped, ReadingRecursion DEF reading

\* Nothing that is said of the line changes with the parser's state.
LEMMA LineKept ==
  ASSUME args' = args
  PROVE  /\ reading' = reading /\ stops' = stops
         /\ \A k \in DOMAIN args : isError(k)' <=> isError(k)
         /\ \A o, n : ReadsTo(o, n)' <=> ReadsTo(o, n)
         /\ \A v, n : NamespaceIs(v, n)' <=> NamespaceIs(v, n)
         /\ \A o : OptionsTyped(o)' <=> OptionsTyped(o)
         /\ usageError' <=> usageError
<1>1. reading' = reading
  BY DEF reading
<1>2. \A k : (isError(k)' <=> isError(k)) /\ (isHelp(k)' <=> isHelp(k))
  BY <1>1 DEF isError, isHelp
<1>3. stops' = stops
  BY <1>2 DEF stops
<1>4. \A flags, n : valuesIn(flags, n)' = valuesIn(flags, n)
  BY <1>1 DEF valuesIn
<1>5. \A v, values : IsLast(v, values)' <=> IsLast(v, values)
  BY DEF IsLast
<1>6. \A flags, n : givenIn(flags, n)' <=> givenIn(flags, n)
  BY <1>1 DEF givenIn
<1>7. \A name, n : IsPodName(name, n)' <=> IsPodName(name, n)
  BY <1>1 DEF IsPodName
<1>8. \A o, n : ReadsTo(o, n)' <=> ReadsTo(o, n)
  BY <1>1, <1>3, <1>4, <1>5, <1>6, <1>7 DEF ReadsTo
<1>9. \A v, n : NamespaceIs(v, n)' <=> NamespaceIs(v, n)
  BY <1>4, <1>5 DEF NamespaceIs
<1>10. \A o : OptionsTyped(o)' <=> OptionsTyped(o)
  BY DEF OptionsTyped
<1>11. \A flags : valueOf(flags)' = valueOf(flags)
  BY <1>1 DEF valueOf
<1>12. usageError' <=> usageError
  BY <1>2, <1>3, <1>11 DEF usageError
<1> QED
  BY <1>1, <1>2, <1>3, <1>8, <1>9, <1>10, <1>12

LEMMA Stops ==
  ASSUME args \in CommandLines
  PROVE  /\ stops \subseteq 1..Len(args)
         /\ \A k \in 1..Len(args) : k \in stops <=> isError(k) \/ isHelp(k)
  BY LineTyped DEF stops

\* The values among one word more.
LEMMA ValuesNext ==
  ASSUME NEW flags, NEW n \in Nat \ {0}
  PROVE  /\ reading[n] = "value" /\ args[n - 1] \in flags =>
              valuesIn(flags, n) = valuesIn(flags, n - 1) \cup {n}
         /\ reading[n] # "value" \/ args[n - 1] \notin flags =>
              valuesIn(flags, n) = valuesIn(flags, n - 1)
<1>1. \A k : k \in 1..n <=> k \in 1..(n - 1) \/ k = n
  OBVIOUS
<1> QED
  BY <1>1 DEF valuesIn

LEMMA GivenNext ==
  ASSUME NEW flags, NEW n \in Nat \ {0}
  PROVE  givenIn(flags, n) <=> givenIn(flags, n - 1) \/ (reading[n] = "flag" /\ args[n] \in flags)
<1>1. 1..n = 1..(n - 1) \cup {n}
  OBVIOUS
<1> QED
  BY <1>1 DEF givenIn

LEMMA PodNameNext ==
  ASSUME NEW name, NEW n \in Nat \ {0}, IsPodName(name, n - 1), reading[n] # "pod"
  PROVE  IsPodName(name, n)
<1>1. 1..n = 1..(n - 1) \cup {n}
  OBVIOUS
<1> QED
  BY <1>1 DEF IsPodName

LEMMA LaterValue ==
  ASSUME NEW n \in Nat, NEW values, \A k \in values : k \in Nat /\ k < n
  PROVE  IsLast(args[n], values \cup {n})
<1>1. \A k \in values \cup {n} : k <= n
  OBVIOUS
<1>2. n \in values \cup {n} /\ values \cup {n} # {}
  OBVIOUS
<1> QED
  BY <1>1, <1>2 DEF IsLast

\* The word at which the parser is does not follow a flag that waits for it.
LEMMA WordRole ==
  ASSUME CommandInv, AtWord
  PROVE  /\ i \in 1..Len(args) /\ i - 1 \in Nat /\ Len(args) \in Nat
         /\ ReadsTo(opts, i - 1) /\ NamespaceIs(opts.namespace, i - 1)
         /\ reading[i] = IF word \in ValueFlags THEN "takes"
                         ELSE IF word \in Dashed THEN "flag" ELSE "pod"
<1>1. /\ args \in CommandLines /\ i \in 1..Len(args) + 1 /\ i <= Len(args)
      /\ ReadsTo(opts, i - 1) /\ NamespaceIs(opts.namespace, i - 1)
  BY DEF CommandInv, ReadInv, AtWord
<1>2. Len(args) \in Nat
  BY <1>1, LineTyped
<1>3. /\ args \in CommandLines /\ i \in 1..Len(args) /\ Len(args) \in Nat
      /\ ReadsTo(opts, i - 1) /\ NamespaceIs(opts.namespace, i - 1)
  BY <1>1, <1>2
<1>4. reading[i - 1] # "takes"
  BY <1>3 DEF ReadsTo
<1> QED
  BY <1>3, <1>4, Roled DEF word

\* The words of each kind are words of no other.
LEMMA FlagsApart ==
  /\ AllFlags \cap ValueFlags = {} /\ ColorFlags \cap ValueFlags = {} /\ HelpFlags \cap ValueFlags = {}
  /\ AllFlags \cap ColorFlags = {}
  /\ HelpFlags \cap (AllFlags \cup ColorFlags) = {}
  /\ NamespaceFlags \cap (OutputFlags \cup ContextFlags \cup KubeconfigFlags) = {}
  /\ OutputFlags \cap (ContextFlags \cup KubeconfigFlags) = {}
  /\ ContextFlags \cap KubeconfigFlags = {}
  BY DEF AllFlags, ColorFlags, HelpFlags, ValueFlags, NamespaceFlags, OutputFlags, ContextFlags,
         KubeconfigFlags

-----------------------------------------------------------------------------
(* The steps of the parser *)

\* A switch is read.
LEMMA SwitchReads ==
  ASSUME CommandInv, Switch
  PROVE  /\ i' \in 1..Len(args) + 1 /\ OptionsTyped(opts')
         /\ ReadsTo(opts', i' - 1) /\ NamespaceIs(opts'.namespace, i' - 1)
<1>1. /\ i \in 1..Len(args) /\ i - 1 \in Nat /\ Len(args) \in Nat /\ args \in CommandLines
      /\ ReadsTo(opts, i - 1) /\ NamespaceIs(opts.namespace, i - 1)
      /\ reading[i] = IF word \in ValueFlags THEN "takes"
                      ELSE IF word \in Dashed THEN "flag" ELSE "pod"
  BY WordRole DEF Switch, CommandInv, ReadInv, EndInv
<1>2. /\ word \in AllFlags \cup ColorFlags /\ i' = i + 1 /\ i' - 1 = i
      /\ opts' = IF word \in AllFlags THEN [opts EXCEPT !.allNamespaces = TRUE]
                                      ELSE [opts EXCEPT !.noColor = TRUE]
  BY <1>1 DEF Switch, Take
<1>3. word \in Flags /\ word \in Dashed /\ word \notin ValueFlags /\ word \notin HelpFlags
  BY <1>2, FlagsApart, DashedAssumption DEF Flags
<1>4. reading[i] = "flag"
  BY <1>1, <1>3
<1>5. i \notin stops
  <2>1. ~isError(i) /\ ~isHelp(i)
    BY <1>3, <1>4 DEF isError, isHelp, word
  <2> QED
    BY <1>1, <2>1, Stops
<1>6. \A k \in stops : k > i
  <2>1. \A k \in stops : k \in Nat /\ k > i - 1
    BY <1>1, Stops DEF ReadsTo
  <2> QED
    BY <1>1, <1>5, <2>1
<1>7. \A flags : valuesIn(flags, i) = valuesIn(flags, i - 1)
  <2>1. i \in Nat \ {0} /\ reading[i] # "value"
    BY <1>1, <1>4
  <2> QED
    BY <2>1, ValuesNext
<1>8. \A flags : givenIn(flags, i) <=> givenIn(flags, i - 1) \/ word \in flags
  BY <1>1, <1>4, GivenNext DEF word
<1>9. OptionsTyped(opts)
  BY DEF CommandInv, ReadInv, EndInv
<1>10. OptionsTyped(opts')
  BY <1>2, <1>9 DEF OptionsTyped
<1>11. /\ UNCHANGED <<opts.namespace, opts.output, opts.context, opts.kubeconfig, opts.podName>>
       /\ opts'.allNamespaces <=> opts.allNamespaces \/ word \in AllFlags
       /\ opts'.noColor <=> opts.noColor \/ word \in ColorFlags
  BY <1>2, <1>9, FlagsApart DEF OptionsTyped
<1>12. ReadsTo(opts', i)
  <2>1. IsPodName(opts'.podName, i)
    BY <1>1, <1>4, <1>11, PodNameNext DEF ReadsTo
  <2>2. (opts'.allNamespaces <=> givenIn(AllFlags, i)) /\ (opts'.noColor <=> givenIn(ColorFlags, i))
    BY <1>1, <1>8, <1>11 DEF ReadsTo
  <2> QED
    BY <1>1, <1>4, <1>6, <1>7, <1>11, <2>1, <2>2 DEF ReadsTo
<1>13. NamespaceIs(opts'.namespace, i)
  BY <1>1, <1>7, <1>11 DEF NamespaceIs
<1> QED
  BY <1>1, <1>2, <1>10, <1>12, <1>13

\* A pod is named.
LEMMA PodNameReads ==
  ASSUME CommandInv, PodName, ~isExtra
  PROVE  /\ i' \in 1..Len(args) + 1 /\ OptionsTyped(opts')
         /\ ReadsTo(opts', i' - 1) /\ NamespaceIs(opts'.namespace, i' - 1)
<1>1. /\ i \in 1..Len(args) /\ i - 1 \in Nat /\ Len(args) \in Nat /\ args \in CommandLines
      /\ ReadsTo(opts, i - 1) /\ NamespaceIs(opts.namespace, i - 1)
      /\ reading[i] = IF word \in ValueFlags THEN "takes"
                      ELSE IF word \in Dashed THEN "flag" ELSE "pod"
  BY WordRole DEF PodName, CommandInv, ReadInv, EndInv
<1>2. /\ word \notin Dashed /\ i' = i + 1 /\ i' - 1 = i /\ opts' = [opts EXCEPT !.podName = word]
  BY <1>1 DEF PodName, Take
<1>3. reading[i] = "pod" /\ opts.podName = ""
  BY <1>1, <1>2, DashedAssumption DEF isExtra, Flags
<1>4. i \notin stops
  <2>1. \A k \in 1..(i - 1) : reading[k] = "pod" => args[k] = ""
    BY <1>1, <1>3 DEF ReadsTo, IsPodName
  <2>2. ~isError(i) /\ ~isHelp(i)
    BY <1>3, <2>1 DEF isError, isHelp
  <2> QED
    BY <1>1, <2>2, Stops
<1>5. \A k \in stops : k > i
  <2>1. \A k \in stops : k \in Nat /\ k > i - 1
    BY <1>1, Stops DEF ReadsTo
  <2> QED
    BY <1>1, <1>4, <2>1
<1>a. i \in Nat \ {0} /\ reading[i] # "value" /\ reading[i] # "flag"
  <2>1. i \in Nat \ {0}
    BY <1>1
  <2>2. reading[i] # "value" /\ reading[i] # "flag"
    BY <1>3
  <2> QED
    BY <2>1, <2>2
<1>6. \A flags : valuesIn(flags, i) = valuesIn(flags, i - 1)
  BY <1>a, ValuesNext
<1>7. \A flags : givenIn(flags, i) <=> givenIn(flags, i - 1)
  BY <1>a, GivenNext
<1>8. OptionsTyped(opts) /\ word \in Range(args)
  BY <1>1, LineTyped DEF CommandInv, ReadInv, EndInv, word
<1>9. OptionsTyped(opts')
  BY <1>2, <1>8 DEF OptionsTyped
<1>10. /\ UNCHANGED <<opts.namespace, opts.output, opts.context, opts.kubeconfig>>
       /\ UNCHANGED <<opts.allNamespaces, opts.noColor>> /\ opts'.podName = word
  BY <1>2, <1>8 DEF OptionsTyped
<1>11. IsPodName(word, i)
  <2>1. \A k \in 1..i : k \in 1..(i - 1) \/ k = i
    BY <1>1
  <2>2. i \in 1..i
    BY <1>1
  <2> QED
    BY <1>1, <1>3, <2>1, <2>2 DEF ReadsTo, IsPodName, word
<1>12. ReadsTo(opts', i)
  BY <1>1, <1>3, <1>5, <1>6, <1>7, <1>10, <1>11 DEF ReadsTo
<1>13. NamespaceIs(opts'.namespace, i)
  BY <1>1, <1>6, <1>10 DEF NamespaceIs
<1> QED
  BY <1>1, <1>2, <1>9, <1>12, <1>13

\* A flag is read with its value.
LEMMA ValueReads ==
  ASSUME CommandInv, Value
  PROVE  /\ i' \in 1..Len(args) + 1 /\ OptionsTyped(opts')
         /\ ReadsTo(opts', i' - 1) /\ NamespaceIs(opts'.namespace, i' - 1)
<1> DEFINE n == i + 1
           value == args[n]
<1>1. /\ i \in 1..Len(args) /\ i - 1 \in Nat /\ Len(args) \in Nat /\ args \in CommandLines
      /\ ReadsTo(opts, i - 1) /\ NamespaceIs(opts.namespace, i - 1)
      /\ reading[i] = IF word \in ValueFlags THEN "takes"
                      ELSE IF word \in Dashed THEN "flag" ELSE "pod"
  BY WordRole DEF Value, CommandInv, ReadInv, EndInv
<1>2. i < Len(args) /\ i' = i + 2
  BY DEF Value, Take, needValue
<1>3. /\ n \in 1..Len(args) /\ n - 1 = i /\ i' - 1 = n /\ i' \in 1..Len(args) + 1
      /\ n \in Nat \ {0} /\ i \in Nat \ {0}
  BY <1>1, <1>2
<1>4. \/ word \in NamespaceFlags /\ opts' = [opts EXCEPT !["namespace"] = value]
      \/ word \in OutputFlags /\ opts' = [opts EXCEPT !["output"] = value]
      \/ word \in ContextFlags /\ opts' = [opts EXCEPT !["context"] = value]
      \/ word \in KubeconfigFlags /\ opts' = [opts EXCEPT !["kubeconfig"] = value]
  <2> DEFINE field == CASE word \in NamespaceFlags -> "namespace"
                        [] word \in OutputFlags -> "output"
                        [] word \in ContextFlags -> "context"
                        [] word \in KubeconfigFlags -> "kubeconfig"
                        [] OTHER -> Nil
  <2>1. field # Nil /\ opts' = [opts EXCEPT ![field] = value]
    BY DEF Value, Take
  <2>2. word \in NamespaceFlags \/ word \in OutputFlags \/ word \in ContextFlags \/ word \in KubeconfigFlags
    BY <2>1
  <2>3. /\ word \in NamespaceFlags => field = "namespace"
        /\ word \in OutputFlags => field = "output"
        /\ word \in ContextFlags => field = "context"
        /\ word \in KubeconfigFlags => field = "kubeconfig"
    BY FlagsApart
  <2> HIDE DEF field, value
  <2> QED
    BY <2>1, <2>2, <2>3
<1> HIDE DEF n
<1>5. word \in ValueFlags
  BY <1>4 DEF ValueFlags
<1>6. reading[i] = "takes" /\ reading[n] = "value"
  BY <1>1, <1>3, <1>5, Roled
<1>7. \A k \in stops : k > n
  <2>1. ~isError(i) /\ ~isHelp(i) /\ ~isError(n) /\ ~isHelp(n)
    <3>1. i # Len(args)
      BY <1>1, <1>2
    <3>2. ~isError(i) /\ ~isHelp(i)
      BY <1>6, <3>1 DEF isError, isHelp
    <3>3. ~isError(n) /\ ~isHelp(n)
      BY <1>6 DEF isError, isHelp
    <3> QED
      BY <3>2, <3>3
  <2>2. i \notin stops /\ n \notin stops
    BY <1>1, <1>3, <2>1, Stops
  <2>3. \A k \in stops : k \in Nat /\ k > i - 1
    BY <1>1, Stops DEF ReadsTo
  <2> QED
    BY <1>1, <1>3, <2>2, <2>3
<1>8. ASSUME NEW flags
      PROVE  /\ word \in flags => valuesIn(flags, n) = valuesIn(flags, i - 1) \cup {n}
             /\ word \notin flags => valuesIn(flags, n) = valuesIn(flags, i - 1)
  <2>1. reading[i] # "value" /\ word = args[n - 1]
    BY <1>3, <1>6 DEF word
  <2>2. valuesIn(flags, i) = valuesIn(flags, i - 1)
    BY <1>3, <2>1, ValuesNext
  <2>3. valuesIn(flags, n - 1) = valuesIn(flags, i)
    BY <1>3
  <2>4. /\ word \in flags => valuesIn(flags, n) = valuesIn(flags, n - 1) \cup {n}
        /\ word \notin flags => valuesIn(flags, n) = valuesIn(flags, n - 1)
    BY <1>3, <1>6, <2>1, ValuesNext
  <2> QED
    BY <2>2, <2>3, <2>4
<1>9. \A flags : \A k \in valuesIn(flags, i - 1) : k \in Nat /\ k < n
  BY <1>1, <1>3 DEF valuesIn
<1>10. ASSUME NEW flags, word \in flags
       PROVE  IsLast(value, valuesIn(flags, n))
  <2>1. IsLast(value, valuesIn(flags, i - 1) \cup {n})
    BY <1>3, <1>9, LaterValue
  <2> QED
    BY <1>8, <1>10, <2>1
<1>11. \A flags, v : word \notin flags /\ IsLast(v, valuesIn(flags, i - 1)) => IsLast(v, valuesIn(flags, n))
  <2>1. \A flags : word \notin flags => valuesIn(flags, n) = valuesIn(flags, i - 1)
    BY <1>8
  <2> QED
    BY <2>1
<1>12. \A flags : givenIn(flags, n) <=> givenIn(flags, i - 1)
  <2>1. reading[i] # "flag" /\ reading[n] # "flag"
    BY <1>6
  <2>2. \A flags : givenIn(flags, n - 1) <=> givenIn(flags, i)
    BY <1>3
  <2> QED
    BY <1>3, <2>1, <2>2, GivenNext
<1>13. IsPodName(opts.podName, n)
  <2>1. IsPodName(opts.podName, i)
    BY <1>1, <1>3, <1>6, PodNameNext DEF ReadsTo
  <2> QED
    BY <1>3, <1>6, <2>1, PodNameNext
<1>14. OptionsTyped(opts) /\ value \in Range(args)
  BY <1>1, <1>3, LineTyped DEF CommandInv, ReadInv, EndInv
<1> HIDE DEF value
<1>15. OptionsTyped(opts')
  BY <1>4, <1>14 DEF OptionsTyped
<1>16. UNCHANGED <<opts.podName, opts.allNamespaces, opts.noColor>>
  BY <1>4, <1>14 DEF OptionsTyped
<1>17. /\ opts'.namespace = IF word \in NamespaceFlags THEN value ELSE opts.namespace
       /\ opts'.output = IF word \in OutputFlags THEN value ELSE opts.output
       /\ opts'.context = IF word \in ContextFlags THEN value ELSE opts.context
       /\ opts'.kubeconfig = IF word \in KubeconfigFlags THEN value ELSE opts.kubeconfig
  BY <1>4, <1>14, FlagsApart DEF OptionsTyped
<1>18. /\ IsLast(opts'.output, valuesIn(OutputFlags, n))
       /\ IsLast(opts'.context, valuesIn(ContextFlags, n))
       /\ IsLast(opts'.kubeconfig, valuesIn(KubeconfigFlags, n))
       /\ NamespaceIs(opts'.namespace, n)
  BY <1>1, <1>10, <1>11, <1>17 DEF ReadsTo, NamespaceIs
<1>19. ReadsTo(opts', n)
  BY <1>1, <1>6, <1>7, <1>12, <1>13, <1>16, <1>18 DEF ReadsTo
<1> QED
  BY <1>3, <1>15, <1>18, <1>19

-----------------------------------------------------------------------------
(* The invariant is inductive *)

LEMMA CommandStart ==
  ASSUME Init
  PROVE  CommandInv
<1>1. /\ args \in CommandLines /\ i = 1 /\ opts = NoOptions /\ pc = "parse"
      /\ asked = {} /\ ending = ""
  BY DEF Init
<1>2. args \in CommandLines /\ i = 1
  BY <1>1
<1>3. Len(args) \in Nat
  BY <1>2, LineTyped
<1>4. reading[0] = "start"
  BY <1>2, Roled
<1>5. Len(args) \in Nat /\ reading[0] = "start" /\ 1..0 = {} /\ i - 1 = 0
  BY <1>2, <1>3, <1>4
<1>6. \A k \in stops : k > 0
  BY <1>2, <1>3, Stops
<1>7. \A flags : valuesIn(flags, 0) = {} /\ ~givenIn(flags, 0)
  BY <1>5 DEF valuesIn, givenIn
<1>8. IsPodName("", 0)
  BY <1>5 DEF IsPodName
<1>9. ReadsTo(opts, 0) /\ NamespaceIs(opts.namespace, 0)
  BY <1>1, <1>5, <1>6, <1>7, <1>8 DEF ReadsTo, NamespaceIs, IsLast, NoOptions
<1>10. OptionsTyped(opts)
  BY <1>1 DEF OptionsTyped, NoOptions
<1>11. ExitCodeAsDocumented
  BY <1>1 DEF ExitCodeAsDocumented
<1>12. 1 \in 1..Len(args) + 1
  BY <1>3
<1>13. ReadInv
  BY <1>1, <1>5, <1>9, <1>10, <1>12 DEF ReadInv
<1>14. EndInv
  BY <1>1, <1>11 DEF EndInv
<1> QED
  BY <1>13, <1>14 DEF CommandInv

\* The first place where the reading has to stop is the place found.
LEMMA FirstStop ==
  ASSUME CommandInv, AtWord, isError(i) \/ isHelp(i)
  PROVE  /\ stops # {}
         /\ (CHOOSE k \in stops : \A j \in stops : k <= j) = i
<1>1. i \in 1..Len(args) /\ ReadsTo(opts, i - 1) /\ args \in CommandLines /\ Len(args) \in Nat
  BY WordRole DEF CommandInv, ReadInv, EndInv
<1>2. i \in stops /\ \A k \in stops : k \in Nat /\ i <= k
  <2>1. \A k \in stops : k \in Nat /\ k > i - 1
    BY <1>1, Stops DEF ReadsTo
  <2> QED
    BY <1>1, <2>1, Stops
<1> DEFINE first == CHOOSE k \in stops : \A j \in stops : k <= j
<1>3. first \in stops /\ \A j \in stops : first <= j
  BY <1>2
<1> HIDE DEF first
<1>4. first = i
  BY <1>2, <1>3
<1> QED
  BY <1>2, <1>4 DEF first

\* The value of the flags is the last of them all.
LEMMA WholeLine ==
  ASSUME args \in CommandLines
  PROVE  /\ \A flags, v : IsLast(v, valuesIn(flags, Len(args))) => v = valueOf(flags)
         /\ \A flags : givenIn(flags, Len(args)) <=> given(flags)
<1> DEFINE N == Len(args)
<1>1. N \in Nat /\ DOMAIN args = 1..N
  BY LineTyped
<1>2. ASSUME NEW flags, NEW v, IsLast(v, valuesIn(flags, N))
      PROVE  v = valueOf(flags)
  <2> DEFINE values == valuesIn(flags, N)
             last == CHOOSE k \in values : \A j \in values : j <= k
  <2>1. valueOf(flags) = IF values = {} THEN "" ELSE args[last]
    BY <1>1 DEF valueOf, valuesIn
  <2>2. \A k \in values : k \in Nat
    BY <1>1 DEF valuesIn
  <2> HIDE DEF N
  <2>3. CASE values = {}
    BY <1>2, <2>1, <2>3 DEF IsLast
  <2>4. CASE values # {}
    <3>1. PICK k \in values : v = args[k] /\ \A j \in values : j <= k
      BY <1>2, <2>4 DEF IsLast
    <3>2. last \in values /\ \A j \in values : j <= last
      BY <3>1
    <3> HIDE DEF values, last
    <3>3. last = k
      BY <2>2, <3>1, <3>2
    <3> QED
      BY <2>1, <2>4, <3>1, <3>3
  <2> QED
    BY <2>3, <2>4
<1>3. \A flags : givenIn(flags, N) <=> given(flags)
  BY <1>1 DEF givenIn, given
<1> QED
  BY <1>2, <1>3

\* A line that was read to its end has no place to stop.
LEMMA NoStops ==
  ASSUME CommandInv, pc \in {"check", "connect", "run"}
  PROVE  stops = {} /\ opts.output = valueOf(OutputFlags) /\ Len(args) \in Nat
<1>1. ReadsTo(opts, Len(args)) /\ args \in CommandLines /\ Len(args) \in Nat
  BY LineTyped DEF CommandInv, ReadInv, EndInv
<1>2. \A k \in stops : k > Len(args) /\ k \in 1..Len(args)
  BY <1>1, Stops DEF ReadsTo
<1> QED
  BY <1>1, <1>2, WholeLine DEF ReadsTo

\* A parser that stops at an error exits with 2, and with 0 at a call for help.
LEMMA StopExits ==
  ASSUME CommandInv, AtWord, args' = args, asked' = asked, ending' = "",
         (isError(i) /\ code' = 2) \/ (isHelp(i) /\ ~isError(i) /\ code' = 0)
  PROVE  ExitCodeAsDocumented'
<1>1. stops # {} /\ (CHOOSE k \in stops : \A j \in stops : k <= j) = i
  BY FirstStop
<1>2. usageError <=> isError(i)
  BY <1>1 DEF usageError
<1>3. asked' = {}
  BY DEF CommandInv, ReadInv, EndInv, AtWord
<1>4. (usageError' <=> usageError) /\ stops' = stops
  BY LineKept
<1> QED
  BY <1>1, <1>2, <1>3, <1>4 DEF ExitCodeAsDocumented, documentedCode, refused

LEMMA CommandStep ==
  ASSUME CommandInv, [Next]_vars
  PROVE  CommandInv'
<1>0. args' = args
  BY DEF Next, Help, Switch, Value, ValueMissing, UnknownFlag, PodName, EndOfArgs, CheckOutput,
         ConnectFails, Connect, RunReturns, Done, Exit, ExitEarly, Goto, Take, vars
<1>1. ASSUME AtWord, ExitEarly(code'), ExitCodeAsDocumented'
      PROVE  CommandInv'
  BY <1>0, <1>1, LineKept DEF CommandInv, ReadInv, EndInv, ExitEarly, Exit
<1>2. CASE Help
  <2>1. AtWord /\ word \in HelpFlags /\ ExitEarly(0)
    BY <1>2 DEF Help
  <2>2. reading[i] = "flag" /\ word \in Flags
    BY <2>1, WordRole, FlagsApart, DashedAssumption DEF Flags
  <2>3. isHelp(i) /\ ~isError(i) /\ code' = 0
    BY <2>1, <2>2 DEF isHelp, isError, word, ExitEarly, Exit
  <2> QED
    BY <1>0, <1>1, <2>1, <2>3, StopExits DEF ExitEarly, Exit
<1>3. CASE ValueMissing
  <2>1. AtWord /\ word \in ValueFlags /\ i = Len(args) /\ ExitEarly(2)
    BY <1>3 DEF ValueMissing
  <2>2. isError(i) /\ code' = 2
    BY <2>1, WordRole DEF isError, ExitEarly, Exit
  <2> QED
    BY <1>0, <1>1, <2>1, <2>2, StopExits DEF ExitEarly, Exit
<1>4. CASE UnknownFlag
  <2>1. AtWord /\ word \in Dashed /\ word \notin Flags /\ word \notin ValueFlags /\ ExitEarly(2)
    BY <1>4 DEF UnknownFlag, Flags
  <2>2. isError(i) /\ code' = 2
    BY <2>1, WordRole DEF isError, word, ExitEarly, Exit
  <2> QED
    BY <1>0, <1>1, <2>1, <2>2, StopExits DEF ExitEarly, Exit
<1>5. CASE PodName /\ isExtra
  <2>1. AtWord /\ word \notin Dashed /\ word \notin ValueFlags /\ ExitEarly(2)
    BY <1>5, DashedAssumption DEF PodName, Flags
  <2>2. isError(i) /\ code' = 2
    <3>1. reading[i] = "pod" /\ opts.podName # "" /\ IsPodName(opts.podName, i - 1)
      BY <1>5, <2>1, WordRole DEF isExtra, ReadsTo
    <3> QED
      BY <2>1, <3>1 DEF isError, IsPodName, ExitEarly, Exit
  <2> QED
    BY <1>0, <1>1, <2>1, <2>2, StopExits DEF ExitEarly, Exit
<1>6. ASSUME pc' = pc, pc = "parse", asked' = asked, ending' = ending, i' \in 1..Len(args) + 1, OptionsTyped(opts'),
             ReadsTo(opts', i' - 1), NamespaceIs(opts'.namespace, i' - 1)
      PROVE  CommandInv'
  <2>0. reading' = reading /\ stops' = stops
    BY <1>0, LineKept
  <2>1. OptionsTyped(opts)' /\ ReadsTo(opts, i - 1)' /\ NamespaceIs(opts.namespace, i - 1)'
    <3>1. OptionsTyped(opts)'
      BY <1>0, <1>6 DEF OptionsTyped
    <3>2. NamespaceIs(opts.namespace, i - 1)'
      BY <1>0, <1>6, <2>0 DEF NamespaceIs, IsLast, valuesIn
    <3>3. /\ IsLast(opts.output, valuesIn(OutputFlags, i - 1))'
          /\ IsLast(opts.context, valuesIn(ContextFlags, i - 1))'
          /\ IsLast(opts.kubeconfig, valuesIn(KubeconfigFlags, i - 1))'
      BY <1>0, <1>6, <2>0 DEF ReadsTo, IsLast, valuesIn
    <3>4. (opts.allNamespaces <=> givenIn(AllFlags, i - 1))' /\ (opts.noColor <=> givenIn(ColorFlags, i - 1))'
      BY <1>0, <1>6, <2>0 DEF ReadsTo, givenIn
    <3>5. IsPodName(opts.podName, i - 1)'
      BY <1>0, <1>6, <2>0 DEF ReadsTo, IsPodName
    <3>6. (reading[i - 1] # "takes" /\ \A k \in stops : k > i - 1)'
      BY <1>6, <2>0 DEF ReadsTo
    <3> QED
      BY <3>1, <3>2, <3>3, <3>4, <3>5, <3>6 DEF ReadsTo
  <2>2. ExitCodeAsDocumented'
    BY <1>6 DEF ExitCodeAsDocumented
  <2> QED
    BY <1>0, <1>6, <2>1, <2>2 DEF CommandInv, ReadInv, EndInv
<1>7. CASE Switch
  BY <1>6, <1>7, SwitchReads DEF Switch, AtWord, Take
<1>8. CASE Value
  BY <1>6, <1>8, ValueReads DEF Value, AtWord, Take
<1>9. CASE PodName /\ ~isExtra
  BY <1>6, <1>9, PodNameReads DEF PodName, AtWord, Take
<1>b. ASSUME pc \in {"check", "connect", "run"}
      PROVE  /\ stops = {} /\ stops' = {} /\ opts.output = valueOf(OutputFlags)
             /\ ReadsTo(opts, Len(args)) /\ (usageError' <=> opts.output \notin Formats)
  <2>1. stops = {} /\ opts.output = valueOf(OutputFlags) /\ ReadsTo(opts, Len(args))
    BY <1>b, NoStops DEF CommandInv, ReadInv, EndInv
  <2>2. stops' = stops /\ (usageError' <=> usageError)
    BY <1>0, LineKept
  <2> QED
    BY <2>1, <2>2 DEF usageError
<1>10. CASE EndOfArgs
  <2>1. /\ pc = "parse" /\ i > Len(args) /\ pc' = "check"
        /\ UNCHANGED <<args, i, opts, code, asked, ending>>
    BY <1>10 DEF EndOfArgs, Goto
  <2>2. args \in CommandLines /\ i \in 1..Len(args) + 1
    BY DEF CommandInv, ReadInv
  <2>3. Len(args) \in Nat
    BY <2>2, LineTyped
  <2>4. i - 1 = Len(args)
    BY <2>1, <2>2, <2>3
  <2>5. /\ OptionsTyped(opts)' /\ ReadsTo(opts, Len(args))' /\ NamespaceIs(opts.namespace, Len(args))'
    BY <2>1, <2>4, LineKept DEF CommandInv, ReadInv, EndInv
  <2> QED
    BY <2>1, <2>5 DEF CommandInv, ReadInv, EndInv, ExitCodeAsDocumented
<1>11. CASE CheckOutput
  <2>1. pc = "check" /\ UNCHANGED <<args, i, opts, asked>>
    BY <1>11 DEF CheckOutput, Goto, ExitEarly, Exit
  <2>2. /\ OptionsTyped(opts)' /\ ReadsTo(opts, Len(args))' /\ NamespaceIs(opts.namespace, Len(args))'
    BY <2>1, LineKept DEF CommandInv, ReadInv, EndInv
  <2>3. CASE opts.output \in Formats
    BY <1>11, <2>1, <2>2, <2>3 DEF CheckOutput, Goto, CommandInv, ReadInv, EndInv, ExitCodeAsDocumented
  <2>4. CASE opts.output \notin Formats
    <3>1. pc' = "exit" /\ code' = 2 /\ asked' = {} /\ ending' = ""
      BY <1>11, <2>1, <2>4 DEF CheckOutput, ExitEarly, Exit, CommandInv, ReadInv, EndInv
    <3>2. ExitCodeAsDocumented'
      BY <1>b, <2>1, <2>4, <3>1 DEF ExitCodeAsDocumented, documentedCode, refused
    <3> QED
      BY <2>1, <2>2, <3>1, <3>2 DEF CommandInv, ReadInv, EndInv
  <2> QED
    BY <2>3, <2>4
<1>12. ASSUME NEW outcome,
              \/ pc = "connect" /\ outcome = "unreachable" /\ code' = 3
              \/ pc = "run" /\ outcome \in Outcomes /\ code' = exitCode(outcome),
              pc' = "exit", ending' = outcome, UNCHANGED <<args, i, opts, asked>>
       PROVE  CommandInv'
  <2>1. ExitCodeAsDocumented'
    <3>1. opts.output \in Formats
      BY <1>12 DEF CommandInv, ReadInv, EndInv
    <3>2. ~usageError' /\ stops' = {}
      BY <1>b, <1>12, <3>1
    <3>3. ending' # "" /\ code' = documentedCode'
      BY <1>12, <3>2 DEF documentedCode, exitCode, Outcomes
    <3>4. asked' = {} <=> ending' = "unreachable"
      BY <1>12 DEF CommandInv, ReadInv, EndInv, Outcomes
    <3> QED
      BY <3>2, <3>3, <3>4 DEF ExitCodeAsDocumented, refused
  <2>2. OptionsTyped(opts)'
    BY <1>12, LineKept DEF CommandInv, ReadInv, EndInv
  <2> QED
    BY <1>12, <2>1, <2>2 DEF CommandInv, ReadInv, EndInv
<1>13. CASE ConnectFails
  BY <1>12, <1>13 DEF ConnectFails, Exit
<1>14. CASE \E outcome \in Outcomes : RunReturns(outcome)
  <2>1. PICK outcome \in Outcomes : RunReturns(outcome)
    BY <1>14
  <2> QED
    BY <1>12, <2>1 DEF RunReturns, Exit
<1>15. CASE Connect
  <2>1. /\ pc = "connect" /\ pc' = "run" /\ UNCHANGED <<args, i, ending>> /\ asked' # {}
        /\ opts' = [opts EXCEPT !.namespace = namespaceOr(@)]
    BY <1>15 DEF Connect
  <2>2. /\ OptionsTyped(opts) /\ ReadsTo(opts, Len(args)) /\ NamespaceIs(opts.namespace, Len(args))
        /\ opts.output \in Formats
    BY <2>1 DEF CommandInv, ReadInv, EndInv
  <2>3. /\ opts'.output = opts.output /\ opts'.context = opts.context /\ opts'.kubeconfig = opts.kubeconfig
        /\ opts'.allNamespaces = opts.allNamespaces /\ opts'.noColor = opts.noColor
        /\ opts'.podName = opts.podName
        /\ opts'.namespace = IF opts.namespace = "" THEN DefaultNS ELSE opts.namespace
    BY <2>1, <2>2 DEF OptionsTyped, namespaceOr
  <2>4. OptionsTyped(opts')
    BY <2>1, <2>2 DEF OptionsTyped, namespaceOr
  <2>5. ReadsTo(opts', Len(args))
    BY <2>2, <2>3 DEF ReadsTo
  <2>6. \/ NamespaceIs(opts'.namespace, Len(args))
        \/ opts'.namespace = DefaultNS /\ NamespaceIs("", Len(args))
    BY <2>2, <2>3
  <2>7. OptionsTyped(opts)' /\ ReadsTo(opts, Len(args))'
        /\ \/ NamespaceIs(opts.namespace, Len(args))'
           \/ opts'.namespace = DefaultNS /\ NamespaceIs("", Len(args))'
    BY <2>1, <2>4, <2>5, <2>6, LineKept
  <2>8. ExitCodeAsDocumented'
    BY <2>1 DEF ExitCodeAsDocumented
  <2> QED
    BY <2>1, <2>2, <2>3, <2>7, <2>8 DEF CommandInv, ReadInv, EndInv
<1>16. CASE Done \/ UNCHANGED vars
  <2>1. UNCHANGED <<args, i, opts, pc, code, asked, ending>>
    BY <1>16 DEF Done, vars
  <2>2. /\ OptionsTyped(opts)' <=> OptionsTyped(opts)
        /\ ReadsTo(opts, i - 1)' <=> ReadsTo(opts, i - 1)
        /\ ReadsTo(opts, Len(args))' <=> ReadsTo(opts, Len(args))
        /\ NamespaceIs(opts.namespace, i - 1)' <=> NamespaceIs(opts.namespace, i - 1)
        /\ NamespaceIs(opts.namespace, Len(args))' <=> NamespaceIs(opts.namespace, Len(args))
        /\ NamespaceIs("", Len(args))' <=> NamespaceIs("", Len(args))
    BY <2>1, LineKept
  <2>3. ExitCodeAsDocumented'
    BY <2>1, LineKept DEF CommandInv, ReadInv, EndInv, ExitCodeAsDocumented, documentedCode, refused
  <2> QED
    BY <2>1, <2>2, <2>3 DEF CommandInv, ReadInv, EndInv
<1> QED
  BY <1>2, <1>3, <1>4, <1>5, <1>7, <1>8, <1>9, <1>10, <1>11, <1>13, <1>14, <1>15, <1>16 DEF Next

LEMMA CommandInvariant == Spec => []CommandInv
<1>1. Init => CommandInv
  BY CommandStart
<1>2. CommandInv /\ [Next]_vars => CommandInv'
  BY CommandStep
<1> QED
  BY <1>1, <1>2, PTL DEF Spec

-----------------------------------------------------------------------------
(* The theorems *)

\* args.go:12-47: any line that is read to its end is read as written, no word
\* twice and none passed over, wherever the pod's name is.
THEOREM ReadsAsWritten == Spec => []ReadAsWritten
<1>1. ASSUME CommandInv
      PROVE  ReadAsWritten
  <2> SUFFICES ASSUME pc \notin {"parse", "exit"}
               PROVE  ReadAsWritten
    BY DEF ReadAsWritten
  <2> DEFINE N == Len(args)
  <2>1. /\ pc \in {"check", "connect", "run"} /\ args \in CommandLines
        /\ OptionsTyped(opts) /\ ReadsTo(opts, N)
    BY <1>1 DEF CommandInv, ReadInv, EndInv
  <2>2. stops = {} /\ N \in Nat /\ DOMAIN args = 1..N
    BY <1>1, <2>1, NoStops, LineTyped
  <2>3. \/ opts.namespace = valueOf(NamespaceFlags)
        \/ pc = "run" /\ opts.namespace = DefaultNS /\ valueOf(NamespaceFlags) = ""
    <3>1. \/ NamespaceIs(opts.namespace, N)
          \/ pc = "run" /\ opts.namespace = DefaultNS /\ NamespaceIs("", N)
      BY <1>1, <2>1 DEF CommandInv, ReadInv, EndInv
    <3>2. \A v : NamespaceIs(v, N) => v = valueOf(NamespaceFlags)
      BY <2>1, WholeLine DEF NamespaceIs
    <3>3. NamespaceIs("", N) => valueOf(NamespaceFlags) = ""
      BY <3>2
    <3> QED
      BY <3>1, <3>2, <3>3
  <2>4. /\ opts.output = valueOf(OutputFlags)
        /\ opts.context = valueOf(ContextFlags) /\ opts.kubeconfig = valueOf(KubeconfigFlags)
    BY <2>1, WholeLine DEF ReadsTo
  <2>5. opts.allNamespaces = given(AllFlags) /\ opts.noColor = given(ColorFlags)
    <3>1. (opts.allNamespaces <=> given(AllFlags)) /\ (opts.noColor <=> given(ColorFlags))
      BY <2>1, WholeLine DEF ReadsTo
    <3>2. opts.allNamespaces \in BOOLEAN /\ opts.noColor \in BOOLEAN
      BY <2>1 DEF OptionsTyped
    <3>3. given(AllFlags) \in BOOLEAN /\ given(ColorFlags) \in BOOLEAN
      BY DEF given
    <3> QED
      BY <3>1, <3>2, <3>3
  <2>6. {opts.podName} \ {""} = {args[k] : k \in {j \in DOMAIN args : reading[j] = "pod"}} \ {""}
    BY <2>1, <2>2 DEF ReadsTo, IsPodName
  <2> QED
    BY <2>2, <2>3, <2>4, <2>5, <2>6 DEF ReadAsWritten
<1> QED
  BY <1>1, CommandInvariant, PTL

\* main.go:41-45: for any line each way to end has the exit code that the usage text
\* gives it, whether the line, the connection or the run decides; a line with an error
\* or a call for help leaves the cluster alone, and no other is passed over.
THEOREM ExitsAsDocumented == Spec => []ExitCodeAsDocumented
<1>1. CommandInv => ExitCodeAsDocumented
  BY DEF CommandInv, ReadInv, EndInv
<1> QED
  BY <1>1, CommandInvariant, PTL
=============================================================================
