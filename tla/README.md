# A verification model of kubectl-why-pending

`kubectl why-pending` explains why pods stay Pending: it reads the cluster once,
re-runs a small version of the scheduler's filtering for every pending pod and
prints the causes it finds, ranked. Its exit code is part of the interface: 1 when
some pod has a blocking cause, 0 when none has, 2 and 3 for errors.

This directory holds TLA+ modules that model the command from its command line to its
exit code: the parsing of the arguments, the gathering of a snapshot from a cluster that
goes on changing, and the analysis engine (`pkg/diagnose`); TLC configurations that check them on
small clusters; and proofs checked by TLAPS.
Line numbers refer to the files of the repository; `PROJECT.json` lists them for
every definition.

## 1. Inventory

| Part | State | Operations | What makes it hard | What makes it correct |
|---|---|---|---|---|
| `analyze.go` `Analyze` | `res.Causes`, `res.Nodes`, the tallies `counts`, `taintSet`, `eligibleViews`, `fit`, maxima and sums | one pass: PVCs, node loop, filter causes, capacity, extended, spread, affinity, anti-affinity, claims, fallback, sort | late stages read tallies of early ones; severities are downgraded depending on what else was found | one verdict per node, no obstacle missed or invented, a Blocker exactly when the pod is obstructed |
| `predicates.go` | none | taints, node selector, node affinity, readiness | a missing label and an empty one; two implementations of label requirements | agreement of the two; absent labels satisfy negative operators only |
| `resources.go` | none | `PodRequests`, `Allocatable` | init containers, exact boundaries | the larger of sum and maximum |
| `extended.go` | loop over names | `AnalyzeExtendedResources` | eligible nodes versus all nodes; names are checked one by one | one cause per resource that no candidate can serve |
| `operator.go` | `ChainStatus` | `AnalyzeOperatorChain`, `extendedNotAdvertised` | first broken component in dependency order; unstable sort | the named component is broken and nothing before it is |
| `topology.go` | counts per domain | `AnalyzeTopologySpread`, `AnalyzePodAffinity` | two sets of domains: the minimum over all nodes, the landing over eligible nodes | a cause exactly when no candidate satisfies the constraint |
| `dra.go` | none | `claimRef`, `AnalyzeDRA` | entries resolved through late, nil or repeated status entries; namespaces | a cause exactly when no allocated claim is behind an entry |
| `main.go` gathering | `used`, `placed`, `chainPods` | `pendingPods`, `gatherNodeViews`, `streamPods`, `gatherDRA`, `unboundPVCs`, `latestSchedulerEvent` | calls at different moments of a changing cluster, pages, a pager goroutine, errors swallowed per pod | the fold over pages is the fold over one list; what is not known is not reported as absent |
| `main.go` `run`, `main` | `results` | loop over pods, exit code | one deadline for all calls | exit code 1 iff some result has a Blocker |
| `args.go` | `options`, the index `i` | `parseArgs` | a helper that moves the loop's index | flags in any order, errors for the rest |
| `report.go`, `serialize.go` | none | output | | |

The parts interact by calls and values only: `run` gathers a snapshot, calls
`Analyze` once per pod with it, and turns the results into output and an exit code.
The one goroutine is inside client-go's pager: it lists pages and hands them over through
a bounded channel while the callback of `streamPods` folds the pods of earlier ones. It
shares nothing else with the caller. Everything outside (scheduler, kubelets, controllers, the
watch cache of the API server) runs concurrently with the command. Nothing is persisted.

## 2. Modules

| Module | Models | Kind |
|---|---|---|
| `Predicates` | `predicates.go`, `LabelSelectorMatches` | operators |
| `Resources` | `resources.go` | operators |
| `Topology` | `topology.go`, the `Cause` type | operators |
| `Extended` | `extended.go`, `extendedNotAdvertised` of `operator.go` | operators |
| `DRA` | `dra.go` | operators |
| `Obstacles` | what an `Input` says, stated on sets: the reference the diagnosis is compared with | definitions |
| `Diagnosis` | what a diagnosis promises: one answer, a function of the input | abstract specification |
| `Analyze` | `analyze.go`, step by step | state machine, implements `Diagnosis` |
| `Selectors` | relabelling of an object under one requirement | state machine |
| `OperatorChain` | `AnalyzeOperatorChain` of `operator.go`, link by link | state machine |
| `Totals` | what the pods of one list amount to, for every prefix of the list: `referenceFold` of main_scale_test.go | definitions |
| `Snapshot` | what gathering promises: one answer, an error or the complete picture | abstract specification |
| `Gather` | `gatherNodeViews`, `streamPods`, the pager's goroutine; composed with `OperatorChain` | state machine, implements `Snapshot` |
| `Run` | `run` and its other calls against a changing cluster; composed with `Totals` and `Obstacles` | state machine |
| `Command` | `parseArgs` and `main` | state machine |
| `MCInputs`, `MC*` | the inputs of the runs | model checking |
| `Analyze_proofs` | lists of causes, types, and that the diagnosis is what `Obstacles` says of the Input | proofs |
| `AnalyzeTruth_proofs` | what each cause claims is so; one cause per obstacle; none is lost | proofs |
| `OperatorChain_proofs` | the first broken component | proofs |
| `Selectors_proofs` | the implementations of label requirements agree | proofs |
| `Totals_proofs` | recursion over the prefixes of a list, and what the folds of `Totals` are | proofs |
| `Gather_proofs` | no pod is lost between pages, few are held, the answer is that of the whole list | proofs |
| `Run_proofs` | types, all safety properties of `Run` | proofs |
| `Command_proofs` | the loop of `parseArgs` and the exit code | proofs |

The modules form a stack, and each replaces the one below by what was shown of it. `Command`
takes from `run` one of its three outcomes. `Run` takes the stream of pods as one step, as
`Gather` shows that it may (`GathersSnapshot`), and a diagnosis as the verdict `Obstructed`, as
`Analyze` shows that it may (`KeepsPromise`, `BlocksExactly`); for that it checks that every
Input it makes is `WellFormed`, the assumption under which `Analyze` is proved.

### From the code to `Analyze`

Go's `Analyze` is one function. Each block of it is an action, `pc` is the block it
is in and `i` the index of the block's loop. The variables have the names of the
code's: `counts`, `taintSet`, `eligible` (`eligibleViews`), `fit`; the pairs
`maxFreeCPU`/`maxFreeMem` and so on are functions over `Basic = {"cpu", "mem"}`;
`verdicts` is `res.Nodes` and `causes` is `res.Causes`.

| Action | Code |
|---|---|
| `ReportPVCs` | analyze.go:123-139 |
| `RejectNode` | one turn of the node loop that ends in `continue`, 151-182 |
| `AdmitNode` | one turn that reaches the bottom, 184-224 |
| `FinishNodes` | the end of the loop, and the return for an empty cluster, 226-237 |
| `ReportFilters` | 239-283 |
| `AnalyzeCapacity` | 285-325 |
| `CheckExtended`, `CheckSpread`, `CheckAffinity`, `CheckAntiAffinity`, `CheckClaims` | one turn of the loops of extended.go:27, topology.go:77, 187, 202 and dra.go:62, or the step to the next stage |
| `Conclude` | fallback, stable sort, return, 348-373 |

A cause keeps what the properties tell apart: severity, which cause it is (`title`), the
resource, key or claim it is about (`subject`) and one number. A node is a record of what the
code reads of it. Labels are functions from the keys that are present; Go's read of
a missing key is `LabelOf`. The extended resource names come in the order of
`sort.Strings`, as the constant `ExtNames`. Go iterates maps in random order in
`topology.go` and `predicates.go`; every such loop computes a count, a minimum, a
conjunction or a disjunction, so the model states the result on sets.

### From the code to `OperatorChain` and `Gather`

`link` is the step of `gpuChain` the loop is at and `chain` the `ChainStatus` so far. The
constant `StepsOf` says which links a pod's name matches; a name may match several. The sort of
operator.go:93 is by name and unstable: the component's pod is any of the first name.

`call` is where `gatherNodeViews` is, `lister` where the pager's goroutine is; `queue` is the channel
between them, `page` the page being handed over, `chunk` what is left of the page being
folded. `deadline` is the context of `run`, `cancelled` the pager's own, which ends when
`EachListItem` returns.

| Action | Code |
|---|---|
| `ListNodes`, `NodesFail` | main.go:232, 233-235 |
| `FoldPod` | one call of the callback, 266-297 |
| `TakePage`, `AbandonPage`, `EndOfPages` | the pager's loop over the channel: the next page, a page after the deadline, the goroutine's result |
| `ListPage`, `PageFails`, `SendPage`, `SendGivesUp` | the pager's goroutine |
| `CheckLink`, `BuildViews` | 244 and 246-251 |

The pager is code of client-go (v0.36.2 in go.mod), which is not in the repository; its actions are
marked external and model `EachListItem` as `streamPods` uses it: a channel of `PageBufferSize`
pages, an error of the goroutine returned after the last page, no full list after
an expired continue token. The pages of one stream are pages of one list: the continue token
carries its resource version. A server may ignore the limit and send everything at
once, as the watch cache does for resource version 0 (`limited = FALSE`).

### From the code to `Run`

`pc` is the call that is made next, `turn` and `volume` the indices of the loops over pending pods and
their volumes. A call is one step, which reads the cluster (or the cache) and acts on the
answer; between two calls anything may happen.

| Action | Code |
|---|---|
| `ListPending` | main.go:182-217, and the early return 100-110 |
| `ListNodes`, `StreamPods` | 232, 113 |
| `ListClaims`, `ListSlices`, `ListClasses` | 320-328, each answered or given up |
| `SkipVolume`, `ReadPVC`, `PVCUnreadable` | one turn of 359-373 |
| `DiagnosePod` | the rest of a turn of 120-136, `latestSchedulerEvent` included |
| `Report` | 138-156 |
| `CallFails` | the error returns 97-99 and 114-116 |
| `Deadline` | the context of line 93 |
| `Bind`, `End`, `Replace`, `Join`, `Leave`, `BindVolume`, `Allocate` | the cluster (external) |
| `CacheFollows` | the watch cache catches up with nodes, pods or both (external) |

The history variables `truth`, `seen`, `torn`, `claimsLost`, `unread`, `bound` and `replaced` record what
the properties speak of; no guard reads them. `truth` is the cluster at the moment its pods were streamed, `torn`
says that something read at another moment, or from a stale cache, differs from it.

### From the code to `Command`

One action per case of `parseArgs`'s switch, then one per step of `main`. Words are strings
compared as wholes; the prefix test of args.go:38 is membership in `Dashed`. `i` is the code's
`i + 1`, and `needValue` says how far a flag with a value moves it. The history variables
`asked` and `ending` record what the cluster was asked for and how connecting or `run` ended; no guard reads them.

### References and promises

`Obstacles` defines, without loops, tallies or stages, which nodes are candidates,
which have room, and what obstructs the pod. It follows the code's own notion of an
obstacle (section 4 has the places where that differs from what the documents say).
`Diagnosis` is a one-step specification: an answered diagnosis has one reason per node,
in the order of the nodes, and is `blocked` exactly when the input is obstructed.
`Analyze` implements it under the mapping that shows nothing before `pc = "done"`
(`KeepsPromise`).

`Snapshot` says that gathering answers once, with an error or with `Complete`, the fold over one
whole list: views from `Totals`, the first broken link from the pods' health alone.
`Gather` implements it under the mapping that shows nothing before the call has ended.

## 3. Runs

Every passing run starts from every input of a set, so what is checked holds for each
of them; node lists, pod lists and command lines are sequences, so every order is tried.

| Run | Inputs | Properties |
|---|---|---|
| `MCNodes` | 0 to 2 nodes, each Ready or not, cordoned or not, tainted or not, in zone a or b, full or free, for pods with and without toleration, selector and two-term affinity, PVCs missing or unbound; 0 to 3 nodes of two sizes per resource and two loads, some overcommitted, one kind cordoned, for requests made of containers and init containers | `TypeOK`, `NeverUndetermined`, `NeverEmptyNorContradictory`, `NoRoomIsBlocked`, `CapacityTruthful`, `FindingsKept`, `KeepsPromise` |
| `MCStages` | 0 to 2 nodes with GPUs and NICs, in use, tainted, usage above what is advertised, for requests of one or both and every kind of chain status; 0 to 2 nodes in two zones or none, free, full or cordoned, with placed pods on either or both, in either namespace or on a vanished node, for spread constraints (one alone, or two on the same key with different selectors), affinity and anti-affinity terms, nil selectors; 0 to 2 claim entries, direct and from a template, with status entries that are missing, nil, repeated, claims in this or another namespace, lists obtained or not | `CausesMatchObstacles`, `ExtendedTruthful`, `SpreadBlockerReal`, `KeepsPromise` |
| `MCSelectors` | every operator and 0 to 2 values over four strings, every label map on two keys, changed label by label | `SelectorsAgree`, `AbsenceIsNegative` |
| `MCGather` | lists of 0 to 4 pods (running, waiting for the kubelet, ended, on a vanished node, on none) in pages of one, or all at once; lists of up to 2 chain pods over three links, healthy or not in every way the code tells apart, with names that two namespaces share | `FirstBrokenIsFirst`, `NothingLostBetweenPages`, `HeldBoundedIfLimited`, `GathersSnapshot` |
| `MCRun` | clusters of 1 to 3 pods and 1 node, one more may join; with room or not, volumes, a resource claim, anti-affinity, up to 2 events; a namespace, all, one pod by name; two changes of the cluster at any moment | `TypeOK`, `NothingInvented`, `NothingHidden`, `CountedOnlyIfMoved`, `OutcomeTrue`, `EventIsLatest`, `Returns` |
| `MCCommand` | every line of 0 to 4 words out of 12: a word of each case, an unknown flag, the empty word, a lone dash | `ReadAsWritten`, `ExitCodeAsDocumented`, `Exits` |

What they show:

- `KeepsPromise` is the main result: whatever the node order and the mixture of
  defects, the pass ends (it is checked with its fairness) with the reasons and the
  exit code that `Obstacles` defines.
- `NoRoomIsBlocked`: the downgrades of cordons to Info and of filters to Warning never
  leave a pod that no node can take without a Blocker.
- `NeverUndetermined`: the "defensive" fallback at analyze.go:359 is never taken.
- `NeverEmptyNorContradictory`: no diagnosis is empty, and "looks like it should fit" is
  never said next to another cause.
- `CausesMatchObstacles`: each obstacle of the later stages has one cause of its kind.
- `CapacityTruthful`, `ExtendedTruthful`, `SpreadBlockerReal`: what a title claims of the
  cluster is so, as far as it is so (section 4 has the rest). A spread cause carries the key and the
  skew of its constraint, and two constraints that differ in their selectors may share both (`MCStages`
  has such pods). So the property speaks of some constraint that the cause names: if it selects the pod,
  every placement that is left breaks it. That every constraint with this key and skew is broken
  would be false.
- `FindingsKept`: no stage loses a finding of an earlier one, no verdict is revised.
- `TypeOK` of `Analyze` has content: sums and maxima stay natural numbers although an
  overcommitted node has negative free capacity. That of `Run` says that what is recorded of
  volumes belongs to the pod at hand and that `Analyze` only sees `WellFormed` Inputs.
- `SelectorsAgree`: the three implementations of label requirements agree where they have the
  same meaning; the one exception is a nodeSelector with an empty value (section 4).
- `GathersSnapshot`: whatever the pages, the buffer, failing calls and the deadline do, the
  caller gets an error or the picture of one whole list, never of a part of it, and it ends; both
  sides end, as deadlock is checked and only a finished pair may stop.
- `NothingLostBetweenPages`: at every moment the pods listed are those folded, in the channel and in
  hand, in order.
- `HeldBoundedIfLimited`: the pods that are held and not yet folded fit in the pages of the buffer and two more, if the
  server honours the limit. It need not for the request that main.go:266 makes, and then
  nothing bounds them: that main.go:227-230 promises the bound for this very request is in section 4.
- `FirstBrokenIsFirst`: the component named is broken at the pod named, and none before it is.
- `NothingInvented`: when what was read was true at one moment and the claims could be read, a pod that
  is said to be blocked was blocked at that moment, unless it was bound meanwhile.
- `NothingHidden`: an obstacle is missed only because the reads disagree, the pod was bound, or
  its volumes could not be read and nothing else obstructs it.
- `CountedOnlyIfMoved`: a pending pod's own requests are on a node only if it was bound since it was
  listed or if a stale cache still shows the pod that it replaced.
- `OutcomeTrue`: on a cluster that stands still the exit code is right for all pods asked for.
- `EventIsLatest`: the event shown is the latest dated one of the pod.
- `Returns`: whatever the server leaves unanswered, `run` returns.
- `ReadAsWritten`, `ExitCodeAsDocumented`, `Exits`: the loop with its moved index agrees with a
  reading of the whole line at once, and ends. Each way to end has the code of the usage text
  (main.go:41-45): a usage error 2, no connection or an error of `run` 3, a blocked pod 1, none or `--help` before
  an error 0. A refused line leaves the cluster alone, and no other line is passed over.

**Bounds.** `MaxNodes` is 2, and `MaxSizedNodes`, for the nodes that differ in size and load, is 3:
three nodes are needed for a total of two to exceed a third while the maxima come
from different nodes. Missing and unbound PVCs are tried with the plain pod only: what
they add does not depend on the pod. The stages look at a
node alone, at whether some or no node qualifies, and at sums and maxima, so
two nodes show every combination of "one does, the other does not". Two domains
are enough for a minimum other than the landing domain; two placed pods for a
skew of 2. Two claim entries show that each is looked up on its own. There is no
other bound: the pass has as many steps as its input has elements.

In `MCGather` `PageSize` and `PageBufferSize` are 1 (500 and 5 in the code), and `MaxPods` is 4:
one page can be folded, one wait in the channel, one be handed over and one more be listed, so
every stage of the pipeline is busy at once. `MaxChainPods` is 2: one pod before and one after another in the
chain, or two that share a link. In `MCRun` `MaxChanges` is 2: a replaced pod that a stale cache
still shows, and a pod bound after the list while another ends, each take two. `MaxEvents` is 2: an order is a
matter of two. In `MCCommand` `MaxWords` is 4: a flag, its value that looks like a flag, a
pod name and one word too many.

**Fairness.** `Analyze` is called and runs to its return without waiting for anything, so
weak fairness of its next-state relation is what a running process gives.
`Selectors` and `OperatorChain` have no liveness property and assume none. In `Gather` the
steps of the two goroutines that wait for nobody outside are weakly fair, as Go's scheduler
makes them, and so is the context's timer; a call to the server is only certain to end once its context has,
as client-go's transport gives it up then. In `Run` likewise: before the deadline the server may leave any
call unanswered, after it every call returns (its error or a late answer); nothing at all
is assumed of the cluster and of the cache. In `Command` each step is the program's own, and that
`run` returns is what `Returns` shows. Deadlock is checked in every run: a
program that has ended stutters explicitly (`Done`).

## 4. Where the code and its documents differ

Each has a run that refutes the documented statement on the model of the code.

| Run | The documents say | The code does |
|---|---|---|
| `MCNodes_InsufficientIsReal` | README.md:64, analyze.go:319: not enough room now, even in aggregate | the default case is also taken when the totals suffice: with the free CPU on one node and the free memory on another, `fitsOnLargestFree` holds and the fragmentation case is skipped (analyze.go:303) |
| `MCStages_SpreadBlockerRealForAnyPod` | topology.go:124: maxSkew "once we add the pod" | the pod is counted even if the constraint does not select it (topology.go:127) |
| `MCStages_AffinityBlockerReal` | topology.go:193: "no eligible domain currently contains such a pod" | pods on ineligible nodes of the domain are not seen (topology.go:166) |
| `MCGather_OnePageHeld` | main.go:257: "No page beyond podListPageSize is held at once" | `pager.New` (main.go:264) leaves the buffer of the pager at its default: further pages are read ahead while one is folded |
| `MCRun_UnreadableClaimsTolerated` | main.go:303: `gatherDRA` "tolerates the API being absent (pre-1.34 clusters) or unreadable" | a failed list of ResourceClaims (main.go:320) is the same as none: the pod is said to be blocked by claims that do not exist |
| `MCRun_EventShown` | README.md:82: "Falls back to the raw scheduler event" | events without `LastTimestamp` never win (main.go:350), so none may be shown |

Further places where the two differ, which the models show without a run of their own:

- main.go:227-230: the pod list is served "from the apiserver watch cache (ResourceVersion "0")" and "memory scales with
  page size, not total pod count". A watch cache may answer resource version 0 (main.go:266) without the limit, and
  then all pods arrive, and are held, as one page. `MCGather` has such servers (`limited = FALSE`): in the state after the first
  `ListPage` the whole list is in hand, whatever `PageSize` is. `HeldBoundedIfLimited`
  says what is left of the promise.
- README.md:63: for a pod larger than any node "defrag can't help"; `maxAllocCPU` and `maxAllocMem` may
  come from different nodes (analyze.go:287), so such a pod can be reported as fragmentation, with the advice to
  defragment (analyze.go:312).
- README.md:68, operator.go:167: "no node advertises it"; only eligible nodes are looked at (extended.go:31), so a cordoned or
  tainted node may advertise it.
- extended.go:14: an extended request is met "on ONE node"; each name is checked alone (extended.go:49).
- operator.go:168: everything downstream of the first broken component, "including the device plugin",
  is waiting; the component may itself come after the device plugin.
- topology.go:65: a node that "passed every other filter"; the eligible nodes include full ones (analyze.go:184).
- predicates.go:73: "a label subset match"; a missing label equals an empty value (predicates.go:77).
- `-A` with a pod name asks for the pod in the empty namespace (main.go:185-188): the call fails, exit code 3.

## 5. Proofs

The theorems hold for every value of the constants: any set of inputs, any number of nodes,
pods, pages, constraints, claims, events and words. They rest on the named assumptions of the modules, which
TLC evaluates in the runs of their modules:

- `InputsAssumption` of `Obstacles`: every Input is `WellFormed`. Its lists are sequences, requests, capacities and
  usage are natural numbers, a skew is an integer, a claim's name is unique in its namespace. That the Inputs
  `run` makes are such is not assumed but proved (`RunTyped`).
- `ExtNamesAssumption`, `GPUNamesAssumption`, `NumeralsAssumption`: the extended resources are a list of
  names other than those of the standard resources, GPUs are among them, a numeral stands for an integer.
- `StepsOfAssumption`: a pod's name matches links of the chain only; `NilAssumption` of `OperatorChain` and
  of `Selectors`: `Nil` is neither a component nor a selector.
- `ClustersAssumption` of `Gather`: lists are lists, a pod has its fields and asks for natural numbers;
  `PagerAssumption`: a page and the buffer hold at least one.
- `ClustersAssumption` of `Run`: the same of its clusters, and a name stands for one pod of its namespace.
- `CommandLinesAssumption`, `DashedAssumption` of `Command`: a command line is a list, flags begin with a dash, the empty
  word does not.

| Module | Theorem | Says |
|---|---|---|
| `Analyze_proofs` | `TypeCorrect` | `Spec => []TypeOK` |
| | `Faithful` | `Spec => []IInv`, the inductive invariant below |
| | `NeverFallsBack` | `Spec => []NeverUndetermined`: the fallback of analyze.go:359 is dead code |
| | `NoRoomBlocked` | `Spec => []NoRoomIsBlocked` |
| | `BlocksExactly` | at the end there is a Blocker exactly when the Input is `Obstructed` |
| | `KeepsPromiseSafely` | `Spec => Promise!Init /\ [][Promise!Answer]_Promise!vars`: `KeepsPromise` but for fairness |
| `AnalyzeTruth_proofs` | `NeverContradicts` | `Spec => []NeverEmptyNorContradictory` |
| | `CapacityTrue` | `Spec => []CapacityTruthful` |
| | `ExtendedTrue` | `Spec => []ExtendedTruthful` |
| | `SpreadTrue` | `Spec => []SpreadBlockerReal` |
| | `OneCausePerObstacle` | `Spec => []CausesMatchObstacles` |
| | `KeepsFindings` | `Spec => FindingsKept`, the action property |
| `Selectors_proofs` | `OneMeaning`, `OnlyNegative` | `Spec => []SelectorsAgree`, `Spec => []AbsenceIsNegative` |
| `OperatorChain_proofs` | `NamesFirstBroken` | `ChainSpec => []FirstBrokenIsFirst`, for any pods and any outcome of the sort |
| `Gather_proofs` | `LosesNothing` | `Spec => []NothingLostBetweenPages` |
| | `GatheredChainNamesFirst` | `Spec => []FirstBrokenIsFirst`, for the chain built from what was streamed |
| | `HoldsFewPages` | `Spec => []HeldBoundedIfLimited`: a bound if the server honours the limit; of one that does not it says nothing (section 4) |
| | `AnswersWithSnapshot` | `Spec => Promise!Init /\ [][Promise!Answer]_Promise!vars`: `GathersSnapshot` but for fairness |
| `Run_proofs` | `RunTyped` | `Spec => []TypeOK`: what `Analyze` is handed is `WellFormed` |
| | `InventsNothing`, `HidesNothing` | `Spec => []NothingInvented`, `Spec => []NothingHidden` |
| | `TellsTheTruth` | `Spec => []OutcomeTrue` |
| | `ShowsLatestEvent` | `Spec => []EventIsLatest` |
| | `CountsOnlyMoved` | `Spec => []CountedOnlyIfMoved`, for any clusters, any number of changes and any lag of the cache |
| `Command_proofs` | `ReadsAsWritten`, `ExitsAsDocumented` | `Spec => []ReadAsWritten`, `Spec => []ExitCodeAsDocumented` |

So each safety property of a passing run is a theorem, and of each of the two refinements
everything but its fairness.

### What is inductive, and why it takes more than the properties

**Analyze.** That a Blocker is left at the end depends on what the node loop
tallied many steps before. `IInv` is `TypeOK` and three parts. `LoopInv` relates the
tallies to the nodes classified so far: the verdicts are right, `eligible` holds the nodes that
pass, `fit` is positive when one of them has room, and a node that failed left a trace that is reported
as a Blocker if none passes (`Explained`; this is what the downgrade of cordons at analyze.go:278
rests on: a cordon that is only Info comes with a taint that is not). `IndexInv` bounds the index
of each loop. `StageInv` says of each stage that the causes hold a Blocker exactly
when an obstacle is among the items checked so far.

The argument has three layers: each check of a later stage finds exactly its obstacle
(`ExtendedFaithful`, `SpreadFaithful`, `AffinityFaithful`, `ClaimsFaithful`: these relate the code's
loops over sequences to the sets of `Obstacles`); each action keeps each part (`LoopReject`,
`LoopAdmit`, `Stage...`); the theorems follow from the invariant.

**What the causes say** (`AnalyzeTruth_proofs`) needs `IInv` and three parts more. `TallyInv`: `maxAlloc` bounds what
each eligible node has, and `sumFree` is the free room of the nodes seen; the capacity stage reads both long after the loop.
`TruthInv`: every cause is `Sound`, true of the Input, from the moment it is added. What
is `Sound` speaks of the Input alone, which no step changes, so that a later stage can falsify nothing and the
proof of a stage is about what it adds (`Adds`, `Reports`, `Turn`). `CountInv`: before the sort, each kind of cause
occurs as often as its obstacle among the items checked (`turned`); the sort is a bijection of positions and keeps every
count (`NumberSorted`).

**Gather.** Neither the conservation of pods nor the bound survives a step on its own. `GatherInv` adds the types,
`PagesInv` (every page in the buffer, in hand or being folded is no longer than `PageSize`; a goroutine that stopped without an error has seen
the end of the list; after an error it has stopped), `FoldInv` and `ChainInv` (the chain is looked at when all is folded). That
the pods ahead of the fold, put one after the other, stay the same list when a page moves is what the lemmas on flattened
sequences are for (`FlattenAppend`, `FlattenTail`, `AheadTakePage`, `AheadSendPage`). `AnswersWithSnapshot` then maps the last step to
the one answer of `Snapshot` (`AnswerComplete`, `StepAnswers`).

**Run.** `RunInv` follows what was read from the call that read it to the diagnosis. `SnapshotInv`: unless
`torn`, the nodes, totals and placed pods are those of `truth`. `ClaimsInv` and `VolumesInv` say the same of the
claims and of the volumes looked at so far, but for those given up. With them a diagnosis made on what was read is
that of `truth`, or differs in what could not be read only (`DiagnosisTrue`, `DiagnosisMisses`). `StillInv`: while nothing has
changed the cluster, the cache and the list are one, from which `OutcomeTrue` follows. `ListsInv`, `GatheredInv`, `TurnInv` and `ResultsInv`
carry the types and the indices, and that each Input is well formed.

`CountedOnlyIfMoved` has an invariant of its own: it is about one moment, the stream of the pods, and
what must be carried to it is how three views are related. `PodsInv` says that the pods of the cluster
are told apart by their ids (`Identified`), that the cache shows the same pods, on a node that the cluster's
has left only if it was replaced (`CacheBehind`), that a listed pod is on no node unless it was bound since
(`ListedStands`), and that nothing is streamed before its time (`NotYetSeen`). The proof
shows once what moving one pod does to all of it (`InvMoves`) and uses that for each kind of change.

**Command.** `CommandInv` has two parts. `ReadInv` says that after `i - 1` words the options are those that these words say (`ReadsTo`: the last value of
each flag, the only pod name), and at which points of `main` which of them are settled. `EndInv`
relates `ending` and `asked` to the step and to the code that a finished process left; together they give the code of
each way to end. `FirstBrokenIsFirst` is shown with the links the
loop has passed, `SelectorsAgree` with the requirement that was chosen staying the same.

### Sums and lists

The references of `Totals`, `Analyze` and `Run` that go over a list are recursive functions on the lengths of its prefixes.
`Totals_proofs` shows from the well-foundedness of the natural numbers (`Least`, `Induct`) that such
a function exists and unrolls (`Recursion`); `UsedRecursion`, `SelectedRecursion`, `FreeRecursion`, `LatestRecursion` and
`ReadingRecursion` apply it. One step of a loop is then one unrolling.

### What is only model-checked

Liveness (that the pass, the gathering, the run and the command end: `Returns`, `Exits`, and the fairness in `KeepsPromise` and
`GathersSnapshot`): fairness and ENABLED are out of the prover's reach. What `PodRequests` computes
by its folds over containers: that a request is a natural number is part of what is assumed of pods. TLC also
agreed to each inductive invariant on the inputs of the runs before it was proved.

## 6. Not modelled

- Wording: titles, details, fixes, number formats, the terminal report, JSON and YAML.
- The width of integers: requests and capacities are unbounded.
- The aggregate `sumFree` of extended.go, which only chooses a sentence.
- `report.go`, `serialize.go`: pure output. That writing structured output may fail is part of `Report`.
- `newClient`: client-go's configuration loading. `Command` tries both of its outcomes.
- Substring matching of chain pods' names (operator.go:99-110): the constant `StepsOf`.
- The inside of a call: `Run` reads each object at one moment. For the list of all pods that is what
  `Gather` and the continue token justify; the other calls are single requests.
- Pods that are created, or deleted without a successor, during a run: what they change for the
  pods that are diagnosed is what binding and ending others change.

## 7. Plan

What would come next, in order of importance:

1. Proofs: that the `Requests` of a pod bound each of its containers' requests from above, so that
   `WellFormedPod` need not assume that they are natural numbers; that `Run`'s one-step `StreamPods` is implemented by
   `Gather`, as a composition of the two modules instead of an argument between them.
2. `Remedies`: an administrator who follows the first fix (uncordon, untaint, label, bind, free); each step
   removes its cause, and a blocked pod is eventually not blocked.
3. The width of integers in `Resources`.
