# TLA+ models of the MarkLogic operator's interactive upgrade workflow

This directory holds TLA+ specifications of the upgrade workflow in
`src/internal/controller/marklogiccluster_controller.go`, which also contains
the `handler` package sources. It also holds the TLC configurations that check
them, TLAPS proofs about them, and `PROJECT.json`. `PROJECT.json` records the
components, the runs, the mutants, the map from each definition to source
lines, the findings, the hazards and the theorems.

## The system

One `MarklogicCluster` object drives everything. The parts are these:

| Part | Code | What it does |
|---|---|---|
| Reconcile gate | `MarklogicClusterReconciler.Reconcile` (lines 58-117) | It runs `HandleUpgradeWorkflow`. It returns early on a requeue. It runs the normal reconciliation (`ReconsileMarklogicClusterHandler`, in `pkg/k8sutil`) only when the state annotation is `""`, `Idle`, `UpgradeCompleted`, `UpgradeFailed` or `UpgradeCancelled`. |
| Upgrade state machine | `UpgradeHandler.HandleUpgradeWorkflow` and handlers (lines 225-551) | It keeps the state in the `marklogic.com/upgrade-state` annotation. It reads the `trigger-upgrade`, `proceed-with-upgrade` and `cancel-upgrade` annotations set by the user. It detects image changes against `status.currentImage` and auto-triggers. It cleans up with `cleanupUpgradeAnnotations`. |
| Precheck runner | `PrecheckHandler` (`precheck_handler.go` 61-217) | A mock. It is complete at once. Its eight checks pass, except forest health (WARN unless `skip-forest-check=true`) and backup status (WARN). The summary loop counts them, and `canProceed` is `failed == 0`. The report names `spec.image`. |
| Rolling upgrade executor | `RollingUpgradeHandler` (lines 669-860) | "Start" only logs and sleeps. Completion means every StatefulSet exists with ready replicas equal to the desired ones. |
| Kubernetes | controller-runtime | It supplies an informer cache that lags behind writes. `Update` and `Status().Update` are rejected with a conflict when the resourceVersion is stale. The controller is re-invoked on events, requeues and resync. |

Writers interact through the object. The user edits `spec.image` and the
annotations with kubectl. The controller reads a cached copy and writes the
annotations, then the status, in two calls. Normal reconciliation writes the
StatefulSets. The kubelet makes their pods ready.

The behaviours that make this code hard to get right are these:

- decisions taken on a stale cache;
- a reconcile that stops between its writes (an API error, a conflict or a pod
  restart) and is retried from what was stored;
- user edits at any moment;
- the ordering between the workflow and the normal reconciliation that follows
  it in the same pass.

## Module `UpgradeWorkflow`

The state:

| Variable | Meaning |
|---|---|
| `obj` | The stored object. It holds the state annotation, the three signals and `skip-forest-check`. It holds the precheck report, abstracted to the image it validated and its `canProceed`. It holds `spec.image` and `status.currentImage`. |
| `cache` | The controller's copy of `obj`. |
| `fresh` | Whether the copy has the stored resourceVersion. |
| `sts[g]` | The image of StatefulSet `g`, or `NoImage` when it has not been created. |
| `ready[g]` | Whether the ready replicas of StatefulSet `g` equal the desired ones. |
| `young` | Whether the cluster is less than 5 minutes old. |
| `userOps` | A counter that bounds the user's and the pods' events. |

**Controller actions.** There is one action per path through
`HandleUpgradeWorkflow`:

- `ReconcileNewCluster`
- `ReconcileIdle`
- `HandleIdleState`
- `HandleCancellation`
- `HandlePrecheckStartState`
- `HandlePrecheckDoneState`
- `HandleWaitingUserState`
- `HandleInProgressState`
- `HandleTerminalState`

Each action reads `cache` and is a `Commit` of the writes the code makes, in
order. Three things happen in each action:

- The trigger write comes first when the image changed in Idle
  (`DispatchWrites`).
- Next comes the `Update` of the annotations, then the `Status().Update`.
- With `full`, all the writes succeed, and the normal reconciliation follows
  when the `Gate` lets it through. Otherwise a prefix of the writes persists and
  nothing follows.

A write from a stale copy is refused. `Update` decodes the server's copy into
the object, so the status write in `cleanupUpgradeAnnotations` carries the
stored `currentImage`. For that reason the ignored error of
`updateCurrentImages` is modelled as a choice of `recorded`.

The paths that only requeue change nothing and are stuttering steps. These are:

- Waiting without proceed;
- InProgress before convergence;
- cancel refused in InProgress.

**Environment actions.**

- `InformerSync`: the cache catches up with the stored object.
- `SetImage` and `SetSignal`: the user's edits.
- `PodReadiness`: the pods of a StatefulSet become ready or stop being ready.
- `ClusterAges`: five minutes pass.

**Spec-modelled part.** `ReconcileWorkload` stands for
`ReconsileMarklogicClusterHandler`. That code is not under `src/`, so it is
modelled from the spec: it sets any subset of the StatefulSets to `spec.image`,
because it may fail part way.

**Fairness.** The only fair steps are a fully successful reconcile and the
informer delivering events, both weakly fair (`WF_vars(Reconcile(TRUE))`,
`WF_vars(InformerSync)`). The controller is re-invoked on every watch event,
on every requeue and on the periodic resync, and API errors are transient. The
user and the pods are not fair.

**Deadlock.** Every run says `CHECK_DEADLOCK FALSE`. Once the user's budget is
spent, the real controller idles, for example in `WaitingForUserApproval`
with no proceed annotation. That is a quiet state, not an error.

## Module `PrecheckSummary`

`MockStatuses(skip)` is the sequence of statuses that `generateMockPrecheckResults` appends, in order. `Count` is one iteration of its `switch`. `Tally` is the loop, written as a recursive function over the prefix length. `Summary` is the `PrecheckSummary` it builds. `UpgradeWorkflow` uses `Summary(MockStatuses(c.skip)).canProceed` as the verdict of the stored report.

`MCPrecheckSummary` grows a sequence of statuses one result at a time, up to 5 results. It checks `Summary` against `ReferenceSummary`, which counts each status with `Cardinality` and sets `canProceed` when no result is FAIL.

## Module `UpgradeLifecycle` (abstract)

This module states what the workflow promises a user who drives it with annotations. Its variables are the stored state, the three signals, `spec.image` and `status.currentImage`. Each step is one change of the stored object:

- `Signal`, `ChangeImage`: the user's edits.
- `RecordBaseline`: a cluster in Idle with no current image records `spec.image`.
- `Start`: Idle, no pending cancel, and a trigger or image drift. The state becomes `PrecheckStarted` and the trigger is set.
- `Advance`: one step forward, only without a pending cancel.
- `Approve`: the rollout starts only on `proceed`.
- `RecordImage`: the current image is recorded while the rollout is in progress.
- `Finish`: the attempt completes, with or without the recorded image.
- `Cancel`: any attempt ends, except one whose rollout is in progress.
- `Reset`: a terminal state goes back to Idle.

`Finish`, `Cancel` and `Reset` clear the three signals (`EndAttempt`). The module leaves out the cache, the number of writes a step takes, the report and the StatefulSets.

`UpgradeWorkflow` maps onto it field by field (`Lifecycle == INSTANCE UpgradeLifecycle WITH state <- obj.state, ...`). `ImplementsLifecycle == Lifecycle!Spec` is checked as a `PROPERTY` of the main run. A partial reconcile maps onto the steps in between. The trigger write on an image change is a `Signal`. The `currentImage` write before the cleanup is a `RecordImage`. The normal reconciliation, the informer and the pods are stutters.

## Runs

`MCPrecheckSummary.cfg` (pass, `SummaryCorrect`) checks the summary loop over all 364 status sequences of up to 5 results. All other runs use `MCUpgradeWorkflow` with 2 images and at most 4-5 user or pod
events. Each violation run keeps only the signals its scenario needs.

| Run | Expect | Property | What it shows |
|---|---|---|---|
| `MCUpgradeWorkflow.cfg` | pass | `TypeOK`, `LegalTransitions`, `NoLostSignal`, `ImageChangeReachesApproval`, `ImplementsLifecycle` | Conditions: stale reads, partial writes, user edits at any time, and all signals including `skip-forest-check`. The state follows the transition table of the spec (§4.1). No user signal is removed except by a cleanup that ends the attempt. An image change on a deployed cluster always reaches the approval gate, unless the user reverts it. Every change of the stored object is a step of `UpgradeLifecycle`. 139,080 states. |
| `CancelRollsOut.cfg` | violation | `CancelLeavesWorkloadAlone` | A cancel before approval deploys the new image in the same pass: `UpgradeCancelled` passes the gate. |
| `CompletionNotRecorded.cfg` | violation | `CompletionRecordsImage` | The failure of `updateCurrentImages` is ignored. The upgrade completes with the old `currentImage`, and a second upgrade is then triggered. |
| `ImageChangedAfterPrecheck.cfg` | violation | `CompletedImageWasPrechecked` | The reconcile that completes an upgrade runs the normal reconciliation, which rolls out the spec image. With images i1, i2 and i3: i2 is prechecked, the user edits the spec to i3 before proceeding, and i3 is rolled out onto the StatefulSets although no precheck validated it. The property only counts StatefulSets that the completing step moves to a new image. The cfg has a third image because with two, the shortest counterexample reverts to the baseline, which is already running. |
| `NoBaseline.cfg` | violation | `BaselineRecorded` | A cluster first reconciled more than 5 minutes after creation is "deployed" by age. No baseline is ever recorded, so image changes are never detected. |
| `CancelWedgesRollout.cfg` | violation | `InProgressEventuallyEnds` | A cancel set during `UpgradeInProgress` is refused but never cleared. The handler is never reached again, so the rollout never ends. |

`PROJECT.json` records these five disagreements as findings.

Why the bounds are enough: two images are enough for a change and a change
back. Two groups let a normal reconciliation fail part way. Four user events
cover each of the following sequences:

- trigger or change the image, then proceed, then cancel;
- change the image, revert it, then change it again.

Each passing property has a mutant that the same configuration catches:

- a blind write without the resourceVersion check;
- cancellation accepted in every state;
- an auto-trigger that only reads the stored annotation;
- a report built from `status.currentImage`;
- a rollout started without `proceed`, caught by `ImplementsLifecycle`;
- a `switch` that counts FAIL as WARN, caught by `SummaryCorrect`.

No property is about the approval gate's use of the precheck verdict. `handleWaitingUserState` never reads `canProceed` (line 366). Every report the code builds comes from the mock checks, which never return FAIL. No reachable state tells the missing gate apart from a correct one, so a property about it would hold whatever the handler did. `PROJECT.json` lists this as a hazard without a property. `ReportAlwaysSound` proves why nothing goes wrong today: every stored report allows proceeding.

## Proofs (`UpgradeWorkflowProofs`)

These hold for all sets of images and groups and all bounds (`ConstantsAssumption`):

- `TypeCorrect`: `Spec => []TypeOK`.
- `LegalTransitionsHold`: `Spec => LegalTransitions`.

Both rest on the inductive invariant `IInv == TypeOK /\ CacheCoherent`, where
`CacheCoherent == fresh => cache = obj`. `TypeOK` alone is not inductive for
the transition property. Commit writes only when the copy is fresh, and
`CacheCoherent` turns "fresh" into "computed from the stored object". The
handlers' guards on the cached state then give legal pairs.

The argument has these parts:

- `CommitStep` shows that a Commit of well-typed, legal writes keeps `IInv`.
- `ReconcileStep` shows, with one step per handler, that each handler's write
  sequence is such a sequence.
- `EnvironmentStep` shows that the user, the informer and the pods keep `IInv`
  and never change the state.
- Both theorems end `BY PTL DEF Spec`.

## Proofs (`LifecycleRefinement`)

- `RefinesLifecycle`: `Spec => ImplementsLifecycle`. The initial states map to the initial state of the lifecycle (`InitRefines`). Under `IInv`, every step maps to a lifecycle step or a stutter (`StepRefines`). `CommitRefines` reduces a Commit to its writes: it stores nothing, or one of its writes computed from a fresh copy, and by `CacheCoherent` that copy is the stored object. Then each handler's writes are shown to be one abstract step each (`ReconcileRefines`, one case per path), and so are the environment's (`EnvironmentRefines`).
- `NoLostSignalHolds`: `Spec => NoLostSignal`. It follows from `StepRefines` and `LifecycleKeepsSignals`: in the lifecycle, only `EndAttempt` clears a signal.

## Proofs (`PrecheckSummaryProofs`, `ReportProofs`)

- `MockCanProceed` (a lemma): for either value of `skip-forest-check`, `Summary(MockStatuses(skip)).canProceed` holds. `Tally` is a recursive function, and `tlapm` sees it as a `CHOOSE`. Two facts settle it. An explicit solution of its recursion exists. Every solution counts no failure at position 8: `NoFailUnrolled` unrolls the loop over the eight results, using `CountStep`. `CountRecord` first turns the `EXCEPT` of `Count` into a plain record of the three counters. `Count` is kept as an `EXCEPT` of its argument because TLC, when it evaluates `ENABLED` for the fairness conditions, does not cache an operator's argument: a record built from three reads of `cnt` would re-evaluate the whole loop prefix three times per iteration.
- `ReportAlwaysSound`: `Spec => [](ReportSound(obj))`. A stored report always allows proceeding, and one is stored in `PrecheckCompleted`, `WaitingForUserApproval` and `UpgradeInProgress`. The inductive invariant is `RInv == IInv /\ ReportSound(obj)`; TLC checked it over the main run's 139,080 states before it was proved. The proof uses one case per handler (`ReconcileReport`), as for `LegalTransitions`. `CommitReport` reduces a Commit to its writes. `handlePrecheckStartState` stores a report from `MockCanProceed`. Every other write keeps the report, and it enters the reported states only from one of them (`KeepReport`). It uses one assumption, `NoReportAssumption` (`NoReport \notin Reports`): an absent annotation is not a report.

## Proofs (`MCPrecheckSummaryProofs`)

- `SummaryCorrectHolds`: `Spec => []SummaryCorrect` for every `MaxChecks`. The summary loop counts each status exactly, and `canProceed` is true iff no result is FAIL.
  - The provers cannot do induction over sequences. So the induction runs over the behaviours of `MCPrecheckSummary`, which build every sequence of results one `Append` at a time.
  - The invariant `SInv` has two parts. A solution of `Tally`'s recursion exists for the current results (`TallyExtends` builds the next one). Every solution ends with the counts of each status (`TallyRestricts`, `CountRefCounts`).
  - `OccurrencesAppend` counts the positions of a status with `FS_AddElement` of the library's `FiniteSetTheorems`.

Only TLC checks the liveness property `ImageChangeReachesApproval`: TLAPS does not handle liveness under fairness, nor the `ENABLED` that weak fairness unfolds to. All the other properties of the passing runs are also proved as theorems.

## Not modelled

- **The status fields `UpgradeState`, `UpgradePaused` and the conditions.** They
  are for display only: nothing reads them back.
- **`UpgradeStatePaused`, the unknown-state default branch and the upgrade
  control subresources** (pause, resume, retry, force and rollback in
  `src/docs/UPGRADE_CONTROL.md`). No code under `src/` writes them.
- **The sleeps in `performRollingUpgrade` and `performClusterHealthCheck`, and
  `rollbackUpgrade`.** The sleeps cause no state change, and `rollbackUpgrade`
  is unused.
- **The log-collection e2e test and the demo script.**

## Plan for later work

1. A spec-modelled model of the pause, resume, retry and force controllers
   described in `UPGRADE_CONTROL.md`, composed with the workflow. It would
   reach the `UpgradePaused` and unknown-state branches.
