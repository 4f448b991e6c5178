# TLA+ models and proofs of gpu-budget-operator

The operator watches `GpuBudget` objects, asks Prometheus how many GPU-hours a
namespace has used in the running billing period, stops the namespace's GPU
workloads when a limit is exceeded, and gives them back only when a human sets
the annotation `gpubudget.io/reset`. This directory models that behaviour,
model-checks it on small instances with TLC, and proves the most important
invariants for every instance with TLAPS.

Run a check with `tlc -config <cfg> <MC module>.tla`, a proof with
`tlapm <module>.tla`. `PROJECT.json` lists the runs, the source lines each
definition stands for, the mutants that show each property can fail, the
hazards of the code and the theorems.

## Inventory of the system

| Part | State it keeps | Operations | What is hard |
|---|---|---|---|
| `enforce/enforce.go`, `EnforceNamespace` | none of its own; writes workloads and their `gpubudget.io/original-*` annotations | List of each of seven kinds, then an Update or Delete per item | a chain of calls without a transaction; a failing item, a failing kind; items that move on after the List; names that are used again |
| `enforce/enforce.go`, `RestoreNamespace` | the same | a Get and an Update per entry of `enforcedResources` | one failing entry must not block the rest; entries that are gone; stale reads |
| `controllers/gpubudget-controller.go`, `Reconcile` | `spec`, annotation and `status` of a `GpuBudget` | reset, query, decide, enforce, merge, persist; `markFailed` | reads come from a cache; the status is replaced as a whole; death between two calls; users edit the same object |
| `computeUsage`, the two limits | none | totals by GPU type, prices, strict comparison | maps visited in any order, unpriced types, rounding, non-finite numbers |
| `controllers/period.go` | none | start of the day, week or month in UTC | calendar boundaries |
| `controllers/rates.go`, `gpuRatesFlag` | rate table, fixed at start | longest family prefix | independence of the map's order; names that begin one another |
| `metrics/prometheus.go` | one lazily built client | render a query, run it, sum samples by type | range of at least a minute, evaluated later than computed |
| `main.go` | leader lease | one manager, one worker | overlap of two leaders |
| generated code, CRD, manifests, samples | none | none | not modelled |

**Interactions.** The reconciler calls the enforcer and the metrics client
synchronously; everything else goes through the API server. Reads of
`GpuBudget` and of the typed workload kinds (Deployment, StatefulSet,
ReplicaSet, Job, Pod) are served by informer caches of the manager's client,
reads of the unstructured kinds (JobSet, InferenceService) go to the API
server. Updates are guarded by `resourceVersion`; the Delete of a Pod is not.
One worker takes one `GpuBudget` at a time; several of them may live in one
namespace and then work on the same workloads.

**What makes each part correct.**
*EnforceNamespace*: every kind is attempted; only eligible objects change; the
recorded original is always worth restoring; every action is reported.
*RestoreNamespace*: every entry is attempted; a success means all is back.
*Reconcile*: what is held down is listed (or a reset will never find it); what
is listed is held down; nothing leaves the list without a reset; the phase does
not deny what is enforced; over the limit everything stops in the end; a reset
is served in the end and gives everything back.
*The evaluation*: what is charged is what the current period holds, at the
rate of the most specific family, and the verdict is the one the exact totals
call for, by either limit.
*InferenceServices*: the original on record is the owner's and never the zero
of the operator, in whatever shape KServe has left it; a restore gives back
what was asked for, unset bounds included.

## Modules

| Module | What it is |
|---|---|
| `Workloads` | one workload object as the enforcement sees it: pure operators, no state |
| `Enforcer` | `EnforceNamespace` and `RestoreNamespace` call by call, with owners, kubelet, cache and failures around them |
| `EnforcementPass` | `Enforcer` plus a history variable: which objects their owners touched during the call |
| `Reconciler` | `Reconcile` call by call, composed with `Enforcer` |
| `EnforcementContract` | the abstract specification of the operator; `Reconciler` and `Inference` implement it |
| `Inference` | `enforceInferenceServices` and `restoreInferenceService` in detail: components, unset bounds, KServe, unreadable annotations, the order of the List |
| `Period`, `Rates` | the calendar and the range of the query; the rate table: pure operators |
| `Evaluation` | how `Reconcile` comes to its verdict: period, query, prices, limits, while time passes |
| `Judgement` | the abstract specification of an evaluation; `Evaluation` implements it |
| `EnforcerProofs`, `EnforcementPassProofs`, `InferenceProofs`, `PeriodProofs`, `EvaluationProofs`, `ReconcilerProofs`, `EnforcementContractProofs` | theorems about each of them |
| `RefinementProofs` | theorem: `Reconciler` implements `EnforcementContract` |
| `MCEnforcementPass`, `MCEnforcer`, `MCReconciler`, `MCInference`, `MCEvaluation` | the instances for TLC |

### Workloads

All seven kinds have one shape: an object is alive or not, requests GPUs or
not, has an owner reference or not, has a `level` (the one field enforcement
turns down) and `saved` (the annotation with the original). The kinds differ in
five ways, each an operator: `LevelsOf` (replicas or a switch), `OwnerChecked`
(owned objects are skipped), `Reversible` (a Pod is deleted), `Captures` (an
InferenceService keeps the first original, the others overwrite) and `Reported`
(an InferenceService that is only re-affirmed yields no entry). Parsing and
formatting of the annotation are the round trip of a number; that restoring a
freshly stopped object gives the same object is the lemma `RoundTrip`.

### Enforcer

`call`, `pending`, `list`, `acted`, `errs` are the locals of
`EnforceNamespace`: the call in progress, the kinds to come, the listed items
still to act on, the slice of entries, the joined errors. `given`, `left`,
`errs` are those of `RestoreNamespace`. `wl` is what the API server stores,
`seen` what the cache has, `want` a history variable with the level each owner
last asked for.

| Action | Code |
|---|---|
| `BeginEnforce`, `ListKind`, `ListFails`, `EnforceReturns` | the loop of `EnforceNamespace` (95-116) and the List and the skipping checks of each `enforce*` function |
| `ActOn` | the Update of a listed item and the append of its entry |
| `DeletePod` | the Delete of `enforcePods`, its not-found branch included |
| `ActFails` | the early return of an `enforce*` function with the entries so far |
| `BeginRestore`, `SkipEntry`, `RestoreEntry`, `RestoreFails`, `RestoreReturns` | the loop of `RestoreNamespace` (133-160) and the `restore*` functions |
| `Create`, `Remove`, `Scale`, `PodGone`, `Deliver`, `OperatorDies` | not the operator: owners, kubelet, watch, process |

`Stuck` names the objects whose restore an admission webhook never lets pass:
a failure that does not cease, where all others cease with `calm`.

An Update succeeds when the stored object equals the one that was read. The
API server compares `resourceVersion`s; the two differ when an object was
changed and changed back between read and write. Then the model's Update
succeeds where the real one conflicts; for workloads such a conflict is among
the outcomes of `enforceErr` and `restoreErr`, for a `GpuBudget` among those of
`MaxEdits` edits that do not cancel out.

A call that fails leaves the object as it was (`ActFails`, `RestoreFails` here,
`ItemFails` in `Inference`, the failing writes of a `GpuBudget`). An Update that
is applied and whose reply is lost is not modelled: the pass returns an error
and no entry for an object that is down by then, the next pass finds it at zero,
and it stays off every list, as after the death that the run `crash` shows. The
theorems that say that what is held is listed (`NothingOrphaned`,
`OrphansComeFromTheHand`, `ContractImplemented`, `ContractKept`) hold of
calls whose errors tell the truth.

`RestoreEntry` sets `want` back to the level on record, for that is what the
operator promises to give back. If the owner of an enforced workload scales it
to another level and the reset comes before the next pass records that, the
restore overwrites it (219); `Recoverable` does not speak of this.

### Reconciler

`pc` is the point `Reconcile` has reached between two calls; `base` is the copy
of the `GpuBudget` whose version the next write carries; `st` is `gb.Status` in
memory. `gb` is what is stored, `cached` what the cache has, `usage` what the
query would answer now.

| `pc` | Next call | Actions |
|---|---|---|
| `idle` | Get of the `GpuBudget`, test of the annotation | `Start` |
| `restore` | calls of `RestoreNamespace`, then the Update without the annotation | `Restoring`, `ResetRefused`, `ResetCleared`, `ResetNotCleared` |
| `query` | the query and the decision | `QueryFails`, `UsageCompliant`, `StartEnforcing` |
| `failed` | `markFailed`'s one status write | `FailureMarked`, `FailureNotMarked` |
| `enforce` | calls of `EnforceNamespace`, then `mergeEnforced` | `Enforcing`, `Merge` |
| `get`, `put` | `persistStatus`: Get, Status().Update, again on conflict | `PersistGet`, `PersistPut`, `PersistAgain`, `PersistFails` |

`Crash` can happen at each of them. An error or a success of `Reconcile` both
lead back to `idle`: either way the queue brings the object back. The usage is
one number against one limit, with the strict comparison of the code; the
several causes of a failed evaluation are `QueryFails`.

### EnforcementContract

Four sets: which workloads are `there`, who is `held` down, what each
`GpuBudget` has `listed`, whose reset is `asked` for. Only what is there is
taken down, a Pod (`Perishable`) never becomes held, and what is held and not
given back can stop being held only by going away: an implementation cannot
pass off a restore that nobody asked for as the owner deleting the object.

It has two implementations. The refinement mapping of `Reconciler` takes as
listed the stored list, except for the `GpuBudget` in progress, where it is the
list in memory together with what the running pass has acted on.
`ImplementsContract` then says that every take-down is recorded in the same
step, that nothing is given back that no pending reset lists, and that a reset
closes only when nothing it lists is held. `KeepsContract` says the same of
`Inference`: one budget, no Pods, held is what bears originals, the reset is
asked for while a restore is under way.

### Inference

In `Workloads` an InferenceService has one component and one number. The code
treats it unlike the other kinds: the annotation holds an original for each
component, either bound may be unset in it, capture is decided by the
annotation and not by the spec, every component on record is zeroed again in
every pass, and KServe removes an upper bound of zero from the spec. This
module has that, with the same owners, failures and resets around it.

| Action | Code |
|---|---|
| `BeginPass`, `SkipItem`, `EndPass` | the List, by name from the API server, and the items without a GPU request or with nothing to do |
| `ZeroItem` (`ToCapture`, `Zeroed`) | capture of what is not yet on record, zero for all on record, one Update, an entry only if something was captured |
| `ItemFails` | the early returns 523-525 and 580-582: the items after this one are dropped |
| `BeginReset`, `SkipEntry`, `RestoreEntry` (`GivenBack`), `RestoreFails`, `EndReset` | `restoreInferenceService` for the entries of a reset, and the list `handleManualReset` clears if all succeeded |
| `KServeStrips` | not the operator: an upper bound of zero is removed |
| `Deploy`, `Undeploy`, `EditComponent`, `EditGPU`, `Garble` | not the operator: owners, and whoever writes to the annotation |

`listed` is updated in the step of the Update, not at the end of a reconcile:
what can go wrong in between is the subject of `Reconciler`. An InferenceService
without the annotation is left at zero by nobody but its owner, so a
component its owner pinned to zero in both bounds is not captured. A component on
record that was removed from the spec comes back, as a stub with both bounds
zero (`SetNestedField` makes it anew); no property forbids it, although the
repository's README speaks of every present component. What an owner writes
to a captured component is discarded at the restore; the properties except
these components (`edited`).

### Period, Rates, Evaluation

| Action or operator | Code |
|---|---|
| `PeriodStart`, `DaysSinceMonday`, `MonthOf` | `periodStart`; `MonthStart` stands for the calendar of package `time` |
| `Window`, `Sampled` | the clamp of `BuildGPUHoursQuery`; the five-minute subquery of the default template, whose range is open at its earlier end |
| `LastFlag`, `GPURates` | `gpuRatesFlag.Set`: a family given twice counts as given last |
| `Matches`, `Better` | one turn of the loop of `RateFor` |
| `Begin` | `now`, `periodStart`, the range of the query (85-88) |
| `QueryFails`, `QueryAnswers` | `GPUHoursByType`: evaluated at a second, later reading of the clock, summed by `gpuType`, samples without one skipped |
| `TakeType`, `TryFamily`, `RateFound`, `Unpriced` | the loops of `computeUsage` and `RateFor`, over their maps in any order |
| `Decide`, `Return` | the unrounded comparison with the two limits (113-114), the end of the reconcile |
| `Tick` | not the operator: time, and the samples of reservations on record |

A name is the sequence of the pieces that tell the names of an instance apart,
so that one being the beginning of another is `IsPrefix`. Hours are
counted in samples, costs in twelfths of a cent, both exact; the code's floats
are not modelled. In `Reconciler` all of this module is one step: a usage that
moves and a limit (`Exceeded`), or `QueryFails`. `JudgedAtOnce` is what
justifies that.

### Judgement

The evaluation without its query, loops and tables. A reconcile reads the time
(`Ask`) and later, in one step (`Judge`), takes what is on record of the period
that time is in and says "within" or "over"; it does so only of what it can
charge. Or it gives up (`GiveUp`): Prometheus does not answer, or something in
the answer has no price under a `dollarsLimit`. What is judged is judged right;
that a limit which is exceeded is judged at all is not part of this promise (see
`HoursLimitEnforced`). `Judge` may
miss the beginning of the period, for as long as it was on the way: the range
of the query is computed from the first reading of the clock and laid back from
the second.

The refinement mapping shows `asked` while a reconcile is under way, and as the
verdict, from the answer of the query on, the one the loops will come to
(`Outcome`, defined with the folds of the whole answer and not with the loops'
totals; it predicts the code and says nothing of what would be right). So
`JudgedAtOnce` says that the moment of judgement is the evaluation of the
query: whatever time passes, whatever is sampled and in whatever order the maps
are visited afterwards, the verdict `Decide` reaches is the one of that moment.
Unlike `Judged`, which compares the verdict with the answer, it compares it
with the samples on record.

A type without a price is where the repository disagrees with itself. The API
type and its README say that of two limits whichever is exceeded first triggers
enforcement; the README also says that such a type under a `dollarsLimit` makes
the phase `Unknown` rather than undercount the cost, and the code does that for
both limits. So `Judged` claims of this case only what both sentences ask for,
that it does not pass as within the budget, and `HoursLimitEnforced` states the
first sentence, which the code violates (run `unpriced`).

## Runs

`Moves` and `Faults` choose what users and failures do in an instance, so that
each question is asked under the weakest assumptions it survives.

| Run | Question | Result |
|---|---|---|
| `enforcement_pass` | does a pass attempt every kind and a restore every entry; is an original ever lost or wrong; is an ineligible object updated? | holds with failing Lists, Updates, Deletes and restores, a process that dies, and busy owners, for an InferenceService, two ReplicaSets and a Pod |
| `reconciler_contract` | does the reconciler implement the contract; is everything held listed; does an entry leave a list without a reset? | yes, with two budgets, failing calls of the enforcer, and users who force conflicts |
| `reconciler_books` | is everything held listed and everything listed held; what does a reset give back when one restore never succeeds? | holds, with failing queries too, while nobody edits the `GpuBudget` during its reconcile; all but that one object is given back, and the list is empty in the end unless that object is held (`GivesBack`) |
| `reconciler_stops` | over the limit, does everything stop for good; is a reset served; does every reconcile come to its end; does the phase deny a list? | yes, from every state that all faults and lags leave behind |
| `evaluation` | is the usage charged that of the current period, all of it and nothing earlier; is it priced right, and judged right where everything has a price; is the verdict a judgement at one moment (`Judgement`)? | yes, in every order of the maps, with the query evaluated later than its range was computed, and with a period beginning in between |
| `inference` | are originals the owner's; is a service without them as its owner asked; do the calls keep the contract; does it come down for good? | yes, against edits, KServe, failures and an annotation that becomes unreadable, for a service of two components |

Six runs end in a counterexample, each against a sentence of the repository:

| Run | What happens |
|---|---|
| `crash` | a Deployment is stopped, the process dies before the status write, no `GpuBudget` ever lists it |
| `stale_budget` | a reconcile that starts from a cached `GpuBudget` older than the last status write (an immediate retry after an error does) replaces the list it does not know; `persistStatus` replays the stale list, contrary to its comment |
| `stuck_reset` | one restore is rejected for good while a reset is asked for: the other workloads run again and every reconcile returns before the query, so nothing is enforced however high the usage is |
| `pod_reused` | a Pod without GPUs, created under the name of one that was listed, is deleted |
| `unpriced` | the hours are over the `gpuHoursLimit` and one type in use has no rate under the `dollarsLimit`: the evaluation ends in `Unknown` and neither limit is enforced |
| `head_of_line` | the first InferenceService has an unreadable annotation: every pass returns there, and a second one that its owner has turned up again is never zeroed |

`NoOrphan` and `NoPhantom` are stated for states in which no reconcile runs:
during one, what was done is ahead of what is stored by construction. What `crash`
shows is lasting: no later reconcile lists the Deployment. A lagging workload
cache breaks `NoOrphan` as a crash does: a reset that reads a Deployment
without its new annotation takes it for restored and drops the entry. No run
repeats that; `NothingOrphaned` and `OrphansComeFromTheHand` assume that the
caches keep up. `NoPhantom`
needs that nobody edits the `GpuBudget` during its reconcile (`MaxEdits` is 0
in `reconciler_books`): a reset that has restored and removed its annotation,
a query that fails and an edit that makes the one write of `markFailed`
conflict leave the old list stored, and the next reconcile enforces it again;
TLC finds this when `MaxEdits` is 1. It also needs that there is one
`GpuBudget`: the reset of one gives back what another lists, until that one's
next reconcile stops it again; TLC finds this with two. The phase is not sticky as the list is:
`Enforced` with an empty list becomes `Compliant` when the usage falls.
`ServicesComeDown` speaks of the services nothing before them blocks;
`head_of_line` is the same without that condition. `OnlyEligibleUpdated` and `OnlyEligibleDeleted` are one
sentence of the documentation split in two, because the Update keeps it and the
Delete does not.

### Bounds, and why they are enough

* Two objects cover one enforced before and one after a failing call; four
  (`enforcement_pass`) cover two of one kind with other kinds after it.
  Kinds with the same operators in `Workloads` behave alike, so each
  instance takes one per class it needs. The two of one kind are a symmetry
  set: nothing in the specification or in the properties of that run, all of
  them invariants or properties of single steps, tells them apart.
* `MaxReplicas` is 1: a wrong original is then 0 or missing. That it is not a
  wrong positive number is `AlwaysRecoverable`, for every `MaxReplicas`.
* Two `GpuBudgets` where they can disturb each other (`reconciler_contract`),
  one where the question is about one.
* Two usages and two limits: below, above, and a limit that moves past a usage.
* `Steps` is 2 in the runs and 5 in the code; with `MaxEdits` 1 the first try
  can conflict and the second succeeds, which is the relation the code counts
  on (fewer edits during a reconcile than tries). `MaxEdits` 0 is used where an
  edit in the middle is the cause described above.
* `evaluation`: a run begins on Friday, 1 January 2027, shortly after midnight,
  in a month of this year and a week of the last. The other instants lie around
  the midnight of Monday, 1 March 2027, where a day, a week and a month begin:
  five minutes before it, midnight itself, 30 seconds after it (within the
  minute of the clamp) and five minutes after it.
  Samples fall on three of them. A reconcile may begin and its query be answered
  at any two of them. Three products: one with two candidate families,
  one whose only family has the rate zero, one without a label. The limits of
  8 and 25 hundredths of an hour are just below one sample (8.33) and exactly
  three; the limit of a cent is exactly the price of one sample of
  the A100. `unpriced` is the same with the limits of 8 and of one cent. Other
  days of the calendar are not in these runs.
* `inference`: one service with two components is what it takes to have one on
  record and one not; the three wishes leave either bound unset or pin both to
  zero. Order needs two services, one component each (`head_of_line`).

### Fairness

`FairSpec` assumes weak fairness of the reconcile in progress (`Reconcile`,
`Call`: it is one goroutine that does not block for ever), strong fairness of
`Start(b)` for each `GpuBudget` (one worker and a queue; every return of
`Reconcile` requeues, after an interval or a back-off, so it is idle and taken
again for ever) and weak fairness of the watch events. Nothing is assumed of
users or failures. In `Inference`, weak fairness of a pass and of a restore:
a namespace that stays over its limit is enforced again in every reconcile.
KServe and the owners are not assumed to do anything. Liveness is claimed from the point on where they cease
(`calm`): `Calm` is an action that may happen at any point, so the claims hold
from every state that earlier failures, crashes and edits can reach.

### Mutants

Every property of a run that holds has a mutant: a definition of the model
changed as a plausible bug would change the code, under which TLC finds the
property violated in the same instance. They stand in the modules as operators
of their own, next to what they change (`ActFailsAndStops`: the early return of
an earlier version that `EnforceNamespace`'s comment describes;
`MergeUnlessFailed`, `MustEnforceByPhase`, `ResetClearedStatusKept`,
`CapturesAlways`, `ToCaptureByLiveSpec`, `ExceedsRounded`: the mistakes the code's comments warn of).

## Theorems

All are proved by tlapm without any assumption but the named `ASSUME`s of the
modules (sizes and types of the constants) and those in the statement. Of an
assumption about failures it is said below which run, or which variant of a
run, shows that it is needed.

### The two operations, for any caller (`EnforcerProofs`, `EnforcementPassProofs`)

* `EnforcerTypeCorrect`, `AlwaysRecoverable`. `Recoverable`
  is not inductive: that a stopped object carries its owner's level needs that
  a running one runs at that level, that a recorded original is never zero, and
  that whatever waits in `list` passed the checks of its kind when it was read.
  The inductive invariant is `EnforcerTypeOK`, `ObjectsSound` (those two facts
  about one object, the predicate `Sound`) and `ListedActionable`. An Update
  succeeds only on the object that was listed, which carries the checks of the
  read over to the write; this is why lag and failures do no harm.
* `OnlyEligibleEverUpdated`, from the same invariant: what is updated equals
  what was listed, and what was listed was eligible. It holds with a cache that
  lags and names that are used again, which no run combines.
* `OnlyEligibleEverDeleted` is the other half of that sentence of the
  documentation, which the run `pod_reused` refutes. It holds under
  `FreshPodNames`: a Pod comes under a name only when neither the cache nor
  the pass in progress has an earlier one of that name. Then what the operator
  has read of a Pod that is there is about that Pod (`PodsKnown`), and a
  Pod does not change what it requests or whose it is. Names that Kubernetes
  generates are such names; one that a user gives need not be. TLC finds the
  violation again when either half of the condition is dropped.
* `RestoreAlwaysAttemptsAll`: a visited entry without an error is given back
  (`GoneBack`); a Pod has nothing to give back (`PodsPlain`).
* `EveryKindAlwaysAttempted`: what a pass has not stopped is still in
  `pending` or `list`, or its kind is in `errs` (`Attended`); that one failing
  item drops only items of its own kind is `SameKind`. This one and the one
  before claim nothing for a cache that lags (`Synced`).

### The reconciler (`ReconcilerProofs`)

* `TypeCorrect`, `PhaseAlwaysTrue`, under every fault. The
  control invariant ties `pc` to `call`, `cur` and `base`; the phase needs in
  addition that whatever is cached, was read as the base of a write, or is
  about to be stored, never pairs a non-empty list with `Compliant`.
* `CallsTheEnforcer`: `Spec => EnforcerSpec`. Every step of the reconciler is a
  step of `Enforcer` with its arbitrary caller or leaves its variables alone;
  the only thing to show is that it calls when no call is under way and that
  nothing of a call is left when it is over (`Returned`). Through it the theorems
  of the last section hold of the whole operator: `OperatorAlwaysRecoverable`,
  `OperatorUpdatesOnlyEligible`, `OperatorAlwaysAttemptsAll`.
* `ClearedWhenBack`, if `lagObjects` is not among the faults: the step that
  removes the reset annotation finds nothing held that the stored list
  names, through crashes, conflicts, failing calls and a lagging cache of
  `GpuBudgets`. What is restored is what was listed in the copy that was read
  (`Given`), and the Update succeeds only if that copy is what is stored. With
  `lagObjects` TLC finds it violated in the instance of `reconciler_stops`.
* `EnforcementIsSticky`, if `lagBudgets` is not among the faults. The invariant:
  the cache is the store, and the list in memory contains what is stored for
  the `GpuBudget` in progress unless this reconcile removed the annotation. The run
  `stale_budget` shows that the assumption is needed.
* `NothingOrphaned`, assuming `NoLoss`: no crash, no failing write of a
  `GpuBudget`, no lag, and fewer edits than tries. The invariant follows an
  entry from the running pass (`acted`) to the status in memory to the stored
  list, backwards through a reset (`Visited`: an entry that was passed over
  without an error is given back), and bounds the tries by the edits. The run
  `crash` shows that the first of the assumptions is needed.
  `HeldAlwaysOnRecord` is what the same invariant says in the middle of a
  reconcile: `Recorded` of the contract, under the refinement mapping.
* `OrphansComeFromTheHand` says what is left of that when things are lost after
  all, assuming only that neither cache lags: crashes, failing writes and any
  number of edits are admitted. A workload that is held loses its last record
  only in a `Crash` or in `PersistFails`, and only if its entry was nowhere but
  in the status in memory or in the running pass. So what a `GpuBudget` has once
  stored is never orphaned, and each failure costs at most what one reconcile
  has done. The invariant (`Carrying`): between the Get of a `GpuBudget` and its
  write, whatever its stored list names and is held is in hand as well; the
  update of a reset drops entries, and by `Given` and `RestoreAttemptsAll` these
  are not held. TLC finds no violation in the instance of `reconciler_contract`
  with failing writes and crashes added, and finds one as soon as either lag is
  (a reset that reads stale workloads; a status write on top of a stale list).
* `ReconcilesEnd`, for a finite set of workloads and under every fault and lag.
  `Ahead` bounds the calls that a reconcile has before it, from `pc`, the kinds
  and items of the pass, the entries of the reset and the tries of
  `persistStatus`. Each step of the reconcile, failed ones included, makes it
  smaller, and no step of owners, users, failures or caches makes it larger. So
  neither owners who go on creating workloads nor a writer that always comes
  first keeps the one worker from the other `GpuBudgets`. It needs of the
  invariant that no call leaves anything behind (`Returned`), that the kinds to
  come are kinds of the namespace and that every try is counted (`Working`).
* `NothingPhantom`, assuming `Undisturbed`: `NoLoss`, one `GpuBudget`, no edit
  of it under a reconcile, no reset withdrawn halfway, no object deleted. The
  invariant says of each point of a reconcile which list must be held down: the
  stored one between reconciles, the one in memory together with `acted` from
  the query on; during a restore it need not be, and then the base of the next
  write is still the stored object. Each assumption is a way a list comes to
  name what runs, see above for the edit.

### The contract (`EnforcementContractProofs`, `RefinementProofs`, `InferenceProofs`)

* `HeldIsRecorded`: whatever the contract lets be held is there, is no Pod, and
  is on somebody's record.
* `ContractImplemented`, assuming `Lossless`: `NoLoss`, and either queries that
  answer or nobody who edits a `GpuBudget` while it is reconciled. On the
  invariants of `NothingOrphaned` it needs `Answering`: while a restore is under
  way, the list in memory is the stored one, so that what `RestoreNamespace`
  visits is all that the contract has listed; and the one write of `markFailed`
  meets the object that was read. The proof has a lemma for each group of
  actions, which names the step of the contract it maps to. With both at once
  it is false: after a reset, a query that fails and an edit that makes
  `markFailed` conflict leave the old list stored although the annotation is
  gone. TLC finds that in the instance of `reconciler_books` with `MaxEdits` 1,
  and no violation with `MaxEdits` 0.
* `ContractKept`: `Inference` implements the contract without any assumption,
  with originals of many fields and annotations that become unreadable. An
  object that bears originals can stop bearing them only in a restore or by
  being deleted; that no entry is left out of a reset that succeeds is `ToVisit`.

### InferenceServices (`InferenceProofs`)

* `TypeCorrect`, `OriginalAlwaysOwners`, `FreeAlwaysAsAsked`, `EnforcedAlwaysListed`,
  `OriginalEverKept`, for any services and components. The
  inductive invariant adds to the first three: a component that is not on record
  has the bounds its owner wishes, up to what KServe strips (`FreeComponents`);
  one on record is present unless its owner took it away (`StillThere`); a reset
  without an error so far still has to visit whatever bears an original
  (`ToVisit`), which is why clearing the list loses nothing.

### The evaluation (`PeriodProofs`, `EvaluationProofs`)

* `PeriodStartIsLatest`. Days and weeks are arithmetic; for
  months, that `MonthStart` increases, and that month m starts between day 28m and
  day 31m, which bounds the search of `MonthOf`.
* `TypeCorrect`, `PeriodAlwaysCurrent`, `AlwaysPricedByMostSpecific`,
  `NothingEarlierEverCharged`, `NothingEverMissed`. The
  invariant: among the families tried, `best` is a longest match (`Scanned`,
  the loop invariant of `RateFor`); the start belongs to the time that was read, and the query is evaluated
  no earlier (`Dated`); samples are in the past and at multiples of the
  resampling step (`OnRecord`). A start is a midnight and so such a multiple,
  and the clamp is shorter than the step: hence nothing earlier is in the range.
* `AlwaysJudged`: the verdict is that of the exact sums over the whole answer, in
  any order of the two loops, wherever everything in it has a price, and never
  "within" otherwise. The invariants are `Settled`, that a verdict on an answer is
  its `Outcome`, and `Totalled`: `total` and `cost` are
  the sums over the types visited so far, all of them priced. It rests on the
  lemmas about `SumFunctionOnSet` at the head of the module: a sum over a finite
  set is an integer and gains `f[x]` with one more element x, whichever element the
  fold picks. The library's induction cannot be applied here, so they are proved by
  taking a smallest set for which they fail.
* `HoursLimitEnforcedIfPriced`, assuming that every type has a price or no
  `GpuBudget` a `dollarsLimit`: hours over the `gpuHoursLimit` always end in the
  verdict "over". It follows from `Settled`; `unpriced` shows that the assumption
  is needed.
* `AlwaysJudgedAtOnce`: `Evaluation` implements `Judgement`, for every list of
  flags, set of products and instants, and delay. The answer counts exactly the
  samples of the period but for those within the delay of its start
  (`CountedIsOfThePeriod`), so its `Outcome` is a verdict `Judge` may reach
  (`SameCounting`, `OutcomeIsVerdict`) or is that of `GiveUp`; no step of the
  loops or of time changes it (`OutcomeUnchanged`), so they map to steps of `Time` or to none; and
  where the loops end, `Totalled` makes their verdict that one.
* `OwnFamilyIfPriced`, assuming `OwnRates` (the family of every type has a rate):
  two prefixes of one name are prefixes of each other, so the longest match is
  no shorter than the own family and begins with it. Without the assumption it
  is false, and no run is spent on it: with a rate for the A10 only, an A100 is
  charged at that rate, since the prefix rule does not know where the name of a
  family ends, although a comment of `rates.go` says that a type without a rate
  fails loudly.

### Model-checked only

The liveness properties (`OverBudgetStops`, `ResetServed`, `GivesBack`,
`ServicesComeDown`): fairness and ENABLED are beyond the prover. What they
owe to the code of the reconcile alone, that it does not go on for ever, is
`ReconcilesEnd`. Every safety invariant and action property of a run that holds is a
theorem, with the assumptions given above. Of the six runs with a
counterexample, four have a theorem that says when the property holds after all
(`NoOrphan`, `StickyEnforcement`, `OnlyEligibleDeleted`,
`HoursLimitEnforced`); the other
two are liveness.

## Not modelled, and the plan

Left out:

* HTTP, TLS and tokens of the metrics client; a `spec.query` that replaces the
  default; logging, conditions and times of the status; generated code and
  manifests: I/O, wording, or declarative.
* Floats. NaN exceeds no limit and cannot be stored as JSON; a rate given as
  NaN or Inf is accepted by the flag. The model adds exact numbers.
* The scan of an object for `nvidia.com/gpu` (a Boolean here), with its one
  surprise: a quantity that an unstructured object holds as a number and not
  as a string is not counted.
* Time between reconciles: each status write wakes the watch and so the next
  reconcile; in the model every return requeues.
* Deletion of a `GpuBudget`. The code has no finalizer and no action for it:
  Get answers not found, Reconcile returns, and what was at zero stays there.
* A second process around a lost lease. What an old leader can still do is the
  call it has under way. If that is an Update, it carries the version that was
  read, so it comes before the new leader's read or conflicts; if it is the
  Delete of a Pod, it is the case of `pod_reused`; what it would have done
  after the call is `Crash`.

What could follow:

1. Other days of the calendar in TLC; that a start is right on each of them is
   `PeriodStartIsLatest`.
2. That `Inference`, with its components hidden, implements the part of
   `Enforcer` about InferenceServices. Both are shown to keep the same contract,
   which is less: the level of an InferenceService in `Workloads` is one number,
   where here some components may be down and others not.
3. That `Judgement` is what `QueryFails`, `UsageCompliant` and `StartEnforcing`
   of `Reconciler` take it for. Its verdicts are the three outcomes of those
   steps; that two limits over samples act like one number against one limit
   is argued in this text and not checked.

The hazards that no property covers are in `PROJECT.json` with a note.
