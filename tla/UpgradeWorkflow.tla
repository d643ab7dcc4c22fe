--------------------------- MODULE UpgradeWorkflow ---------------------------
(***************************************************************************)
(* The interactive upgrade workflow of the MarkLogic operator: one          *)
(* MarklogicCluster object, the controller's Reconcile                     *)
(* (MarklogicClusterReconciler.Reconcile, which first runs                 *)
(* UpgradeHandler.HandleUpgradeWorkflow and then, when the workflow lets   *)
(* it, the normal reconciliation of the StatefulSets), the user who edits  *)
(* the object with kubectl, and the informer cache the controller reads    *)
(* the object from.                                                        *)
(*                                                                         *)
(* The object lives in the API server (obj).  The controller reads a copy  *)
(* of it from its cache (cache), which lags behind every write; every      *)
(* write it makes carries the resourceVersion of that copy, so a write     *)
(* made from a stale copy is refused with a conflict.  A reconcile that    *)
(* makes several writes may stop after any of them (an API error, a        *)
(* conflict, a crash of the operator pod): the writes already made stay.   *)
(*                                                                         *)
(* Data is abstracted to what the workflow tells apart: an image is a      *)
(* model value, the precheck report is the image it validated and the     *)
(* canProceed verdict of its summary (PrecheckSummary), and a             *)
(* StatefulSet is the image of its pod template and whether all its        *)
(* replicas are ready.                                                     *)
(***************************************************************************)
EXTENDS Naturals, Sequences, PrecheckSummary

CONSTANTS
  Images,       \* container images the user may put in spec.image
  Groups,       \* spec.markLogicGroups: one StatefulSet per group
  NoImage,      \* "": status.currentImage not set, StatefulSet not created
  NoReport,     \* precheck-results annotation absent
  UserSignals,  \* the control annotations the user may set to "true"
  InitYoung,    \* whether the cluster may be first reconciled within 5 min of creation
  MaxUserOps    \* bound on the number of user and pod-readiness events

ASSUME ConstantsAssumption ==
  /\ Images # {}
  /\ NoImage \notin Images
  /\ NoReport \notin Images
  /\ UserSignals \subseteq {"trigger", "proceed", "cancel", "skip"}
  /\ InitYoung \subseteq BOOLEAN /\ InitYoung # {}
  /\ MaxUserOps \in Nat

VARIABLES
  obj,      \* the MarklogicCluster object stored in the API server
  cache,    \* the controller's cached copy of obj
  fresh,    \* the cached copy has obj's resourceVersion
  sts,      \* sts[g]: image of StatefulSet g, NoImage when not created
  ready,    \* ready[g]: ReadyReplicas = *group.Replicas for StatefulSet g
  young,    \* time.Since(CreationTimestamp) < 5 minutes
  userOps   \* number of user and pod-readiness events so far

vars == <<obj, cache, fresh, sts, ready, young, userOps>>

-----------------------------------------------------------------------------
(* Values of the marklogic.com/upgrade-state annotation (upgrade_handler). *)
UpgradeStateIdle          == "Idle"
UpgradeStatePrecheckStart == "PrecheckStarted"
UpgradeStatePrecheckDone  == "PrecheckCompleted"
UpgradeStateWaitingUser   == "WaitingForUserApproval"
UpgradeStateInProgress    == "UpgradeInProgress"
UpgradeStateCompleted     == "UpgradeCompleted"
UpgradeStateFailed        == "UpgradeFailed"
UpgradeStateCancelled     == "UpgradeCancelled"
NoState                   == ""

StateValues == {NoState, UpgradeStateIdle, UpgradeStatePrecheckStart,
                UpgradeStatePrecheckDone, UpgradeStateWaitingUser,
                UpgradeStateInProgress, UpgradeStateCompleted,
                UpgradeStateFailed, UpgradeStateCancelled}

(* The precheck-results annotation: the image it validated and its verdict. *)
Reports == [image : Images, canProceed : BOOLEAN]

(* An absent precheck-results annotation is no report. *)
ASSUME NoReportAssumption == NoReport \notin Reports

(* The fields of the object the workflow reads and writes; skip is the     *)
(* skip-forest-check annotation.                                           *)
ClusterObjects ==
  [state : StateValues, trigger : BOOLEAN, proceed : BOOLEAN, cancel : BOOLEAN,
   skip : BOOLEAN, report : Reports \cup {NoReport}, image : Images,
   current : Images \cup {NoImage}]

(* HandleUpgradeWorkflow: an absent state annotation is Idle. *)
CurrentState(c) == IF c.state = NoState THEN UpgradeStateIdle ELSE c.state

(* isClusterDeployed: a recorded current image, or older than 5 minutes. *)
IsClusterDeployed(c) == c.current # NoImage \/ ~young

(* detectImageChanges: spec.image differs from a recorded current image. *)
DetectImageChanges(c) == c.current # NoImage /\ c.current # c.image

(* Seeded fault: only the stored trigger annotation counts, so an image
   change never starts an attempt by itself. *)
TriggeredAnnotationOnly(c) == c.trigger

(* The trigger annotation as HandleUpgradeWorkflow sees it in Idle. *)
Triggered(c) == c.trigger \/ DetectImageChanges(c)

(* The write that sets trigger-upgrade=true on an image change. *)
AutoTrigger(c) == [c EXCEPT !.trigger = TRUE]

(* CheckPrecheckStatus: the mock checks are complete at once; the report  *)
(* validates cluster.Spec.Image, and its verdict is the summary of the    *)
(* mock statuses for the skip-forest-check annotation.                    *)
PrecheckReport(c) ==
  [image |-> c.image, canProceed |-> Summary(MockStatuses(c.skip)).canProceed]

(* The writes of a reconcile that dispatches and ends with the object x  *)
(* (stored by Update, then by Status().Update), preceded by the trigger   *)
(* write HandleUpgradeWorkflow makes on an image change in Idle.          *)
DispatchWrites(c, x) ==
  IF CurrentState(c) = UpgradeStateIdle /\ DetectImageChanges(c)
  THEN <<AutoTrigger(c), x, x>> ELSE <<x, x>>

(* The object as HandleUpgradeWorkflow holds it when it dispatches. *)
Dispatched(c) ==
  IF CurrentState(c) = UpgradeStateIdle /\ DetectImageChanges(c)
  THEN AutoTrigger(c) ELSE c

(* cleanupUpgradeAnnotations: final state set, control annotations removed,
   precheck results kept. *)
Cleanup(c, final) ==
  [c EXCEPT !.state = final, !.trigger = FALSE, !.proceed = FALSE,
            !.cancel = FALSE]

(* Reconcile runs the normal reconciliation only in these states. *)
NormalReconcileStates ==
  {NoState, UpgradeStateIdle, UpgradeStateCompleted, UpgradeStateFailed,
   UpgradeStateCancelled}

(* Reconcile goes on to the normal reconciliation when the workflow did
   not ask for a requeue and the state it left is not an active one. *)
Gate(c) == c.state \in NormalReconcileStates

(* checkStatefulSetUpgradeStatus: the StatefulSet exists and its ready
   replicas equal the desired ones; its image is not looked at. *)
StatefulSetUpdated(g) == sts[g] # NoImage /\ ready[g]

(* checkUpgradeProgress: every StatefulSet is updated (the final health
   check always passes). *)
AllUpdated == \A g \in Groups : StatefulSetUpdated(g)

-----------------------------------------------------------------------------
(* Normal reconciliation (ReconsileMarklogicClusterHandler): each           *)
(* StatefulSet is created or updated with the image of the spec; it may     *)
(* fail part way, leaving some StatefulSets as they were.                   *)
ReconcileWorkload(img) ==
  \E done \in SUBSET Groups :
    sts' = [g \in Groups |-> IF g \in done THEN img ELSE sts[g]]

(* Seeded fault: writes made without the resourceVersion check (a blind
   update from the cached copy). *)
CommitBlind(s, nr, img, full) ==
  /\ \/ /\ full
        /\ obj' = IF s = <<>> THEN obj ELSE s[Len(s)]
        /\ IF nr THEN ReconcileWorkload(img) ELSE UNCHANGED sts
     \/ /\ ~full
        /\ \E k \in 1..(Len(s) - 1) : obj' = s[k]
        /\ UNCHANGED sts
  /\ fresh' = (fresh /\ obj' = obj)
  /\ UNCHANGED <<cache, ready, young, userOps>>

(* The API writes of one reconcile: s[k] is the object stored once the      *)
(* k-th write has succeeded.  With full, all succeed, and the normal        *)
(* reconciliation of the spec image img follows when nr holds; otherwise    *)
(* the (k+1)-th write fails, the reconcile returns its error and nothing    *)
(* follows.  A write from a stale copy fails with a conflict.               *)
Commit(s, nr, img, full) ==
  /\ \/ /\ full
        /\ fresh \/ s = <<>>
        /\ obj' = IF s = <<>> THEN obj ELSE s[Len(s)]
        /\ IF nr THEN ReconcileWorkload(img) ELSE UNCHANGED sts
     \/ /\ ~full
        /\ fresh
        /\ \E k \in 1..(Len(s) - 1) : obj' = s[k]
        /\ UNCHANGED sts
  /\ fresh' = (fresh /\ obj' = obj)
  /\ UNCHANGED <<cache, ready, young, userOps>>

-----------------------------------------------------------------------------
(* Controller actions: one per path of Reconcile through                    *)
(* HandleUpgradeWorkflow.  Each reads the cached copy.  The paths that only *)
(* requeue without writing (WaitingForUserApproval without proceed,         *)
(* UpgradeInProgress not yet converged, cancellation refused in             *)
(* UpgradeInProgress) change nothing and are stuttering steps.              *)

(* New cluster: record spec.image as the current image, then reconcile. *)
ReconcileNewCluster(full) ==
  LET c == cache IN
  /\ CurrentState(c) = UpgradeStateIdle
  /\ ~IsClusterDeployed(c)
  /\ Commit(<<[c EXCEPT !.current = c.image]>>, Gate(c), c.image, full)

(* Idle, deployed, no trigger and no image change: normal reconciliation. *)
ReconcileIdle(full) ==
  LET c == cache IN
  /\ CurrentState(c) = UpgradeStateIdle
  /\ IsClusterDeployed(c)
  /\ ~Triggered(c)
  /\ Commit(<<>>, Gate(c), c.image, full)

(* handleIdleState: trigger set (or just set on an image change), start the
   prechecks and move to PrecheckStarted. *)
HandleIdleState(full) ==
  LET c == cache
      d == Dispatched(c)
      s == [d EXCEPT !.state = UpgradeStatePrecheckStart]
  IN
  /\ CurrentState(c) = UpgradeStateIdle
  /\ IsClusterDeployed(c)
  /\ Triggered(c)
  /\ ~c.cancel
  /\ Commit(DispatchWrites(c, s), Gate(s), c.image, full)

(* Seeded fault: cancellation accepted in every state. *)
HandleCancellationAnyState(full) ==
  LET c == cache
      x == Cleanup(Dispatched(c), UpgradeStateCancelled)
  IN
  /\ c.cancel
  /\ CurrentState(c) = UpgradeStateIdle =>
        IsClusterDeployed(c) /\ Triggered(c)
  /\ Commit(DispatchWrites(c, x), Gate(x), c.image, full)

(* handleCancellation: cancel-upgrade=true in any state but
   UpgradeInProgress (and, in Idle, only once triggered): clean up to
   UpgradeCancelled, after which Reconcile reconciles normally. *)
HandleCancellation(full) ==
  LET c == cache
      x == Cleanup(Dispatched(c), UpgradeStateCancelled)
  IN
  /\ c.cancel
  /\ CurrentState(c) = UpgradeStateIdle =>
        IsClusterDeployed(c) /\ Triggered(c)
  /\ c.state # UpgradeStateInProgress
  /\ Commit(DispatchWrites(c, x), Gate(x), c.image, full)

(* Seeded fault: the report validates status.currentImage instead of
   spec.image. *)
HandlePrecheckStartStateStatusImage(full) ==
  LET c == cache
      s == [c EXCEPT !.state = UpgradeStatePrecheckDone,
                     !.report = [PrecheckReport(c) EXCEPT !.image = c.current]]
  IN
  /\ CurrentState(c) = UpgradeStatePrecheckStart
  /\ ~c.cancel
  /\ Commit(<<s, s>>, Gate(s), c.image, full)

(* handlePrecheckStartState: the mock prechecks are always complete; store
   the report, which validates cluster.Spec.Image. *)
HandlePrecheckStartState(full) ==
  LET c == cache
      s == [c EXCEPT !.state = UpgradeStatePrecheckDone,
                     !.report = PrecheckReport(c)]
  IN
  /\ CurrentState(c) = UpgradeStatePrecheckStart
  /\ ~c.cancel
  /\ Commit(<<s, s>>, Gate(s), c.image, full)

(* handlePrecheckDoneState: present the results, wait for the user. *)
HandlePrecheckDoneState(full) ==
  LET c == cache
      s == [c EXCEPT !.state = UpgradeStateWaitingUser]
  IN
  /\ CurrentState(c) = UpgradeStatePrecheckDone
  /\ ~c.cancel
  /\ Commit(<<s, s>>, Gate(s), c.image, full)

(* Seeded fault: the rollout starts without the user's approval. *)
HandleWaitingUserStateNoProceed(full) ==
  LET c == cache
      s == [c EXCEPT !.state = UpgradeStateInProgress]
  IN
  /\ CurrentState(c) = UpgradeStateWaitingUser
  /\ ~c.cancel
  /\ Commit(<<s, s>>, Gate(s), c.image, full)

(* handleWaitingUserState with proceed-with-upgrade=true: start the
   (simulated) rolling upgrade, move to UpgradeInProgress. *)
HandleWaitingUserState(full) ==
  LET c == cache
      s == [c EXCEPT !.state = UpgradeStateInProgress]
  IN
  /\ CurrentState(c) = UpgradeStateWaitingUser
  /\ ~c.cancel
  /\ c.proceed
  /\ Commit(<<s, s>>, Gate(s), c.image, full)

(* handleInProgressState once every StatefulSet is ready: updateCurrentImages
   (its error is ignored), then clean up to UpgradeCompleted, after which
   Reconcile reconciles normally.  The Update of the annotations decodes the
   server's status into the cluster, so the last status write carries
   status.currentImage as stored. *)
HandleInProgressState(full) ==
  LET c == cache IN
  /\ CurrentState(c) = UpgradeStateInProgress
  /\ ~c.cancel
  /\ AllUpdated
  /\ \E recorded \in BOOLEAN :
       LET withCur == [c EXCEPT !.current = c.image]
           done    == Cleanup(IF recorded THEN withCur ELSE c,
                              UpgradeStateCompleted)
       IN Commit(IF recorded THEN <<withCur, done, done>> ELSE <<done, done>>,
                 Gate(done), c.image, full)

(* Terminal states are cleaned up to Idle, then Reconcile reconciles. *)
HandleTerminalState(full) ==
  LET c == cache
      x == Cleanup(c, UpgradeStateIdle)
  IN
  /\ CurrentState(c) \in {UpgradeStateCompleted, UpgradeStateFailed,
                          UpgradeStateCancelled}
  /\ ~c.cancel
  /\ Commit(<<x, x>>, Gate(x), c.image, full)

Reconcile(full) ==
  \/ ReconcileNewCluster(full)
  \/ ReconcileIdle(full)
  \/ HandleIdleState(full)
  \/ HandleCancellation(full)
  \/ HandlePrecheckStartState(full)
  \/ HandlePrecheckDoneState(full)
  \/ HandleWaitingUserState(full)
  \/ HandleInProgressState(full)
  \/ HandleTerminalState(full)

-----------------------------------------------------------------------------
(* The environment. *)

(* The informer receives the latest version of the object. *)
InformerSync ==
  /\ ~fresh
  /\ cache' = obj
  /\ fresh' = TRUE
  /\ UNCHANGED <<obj, sts, ready, young, userOps>>

(* kubectl patch: the user changes spec.image. *)
SetImage(i) ==
  /\ userOps < MaxUserOps
  /\ i # obj.image
  /\ obj' = [obj EXCEPT !.image = i]
  /\ fresh' = FALSE
  /\ userOps' = userOps + 1
  /\ UNCHANGED <<cache, sts, ready, young>>

(* kubectl annotate <signal>=true. *)
SetSignal(sig) ==
  /\ userOps < MaxUserOps
  /\ ~obj[sig]
  /\ obj' = [obj EXCEPT ![sig] = TRUE]
  /\ fresh' = FALSE
  /\ userOps' = userOps + 1
  /\ UNCHANGED <<cache, sts, ready, young>>

(* The pods of an existing StatefulSet become ready or stop being ready. *)
PodReadiness(g) ==
  /\ userOps < MaxUserOps
  /\ sts[g] # NoImage
  /\ ready' = [ready EXCEPT ![g] = ~@]
  /\ userOps' = userOps + 1
  /\ UNCHANGED <<obj, cache, fresh, sts, young>>

(* Five minutes pass since the creation of the cluster. *)
ClusterAges ==
  /\ young
  /\ young' = FALSE
  /\ UNCHANGED <<obj, cache, fresh, sts, ready, userOps>>

-----------------------------------------------------------------------------
Init ==
  /\ obj \in [state : {NoState}, trigger : {FALSE}, proceed : {FALSE},
              cancel : {FALSE}, skip : {FALSE}, report : {NoReport},
              image : Images,
              current : {NoImage}]
  /\ cache = obj
  /\ fresh = TRUE
  /\ sts = [g \in Groups |-> NoImage]
  /\ ready = [g \in Groups |-> FALSE]
  /\ young \in InitYoung
  /\ userOps = 0

Next ==
  \/ \E full \in BOOLEAN : Reconcile(full)
  \/ InformerSync
  \/ \E i \in Images : SetImage(i)
  \/ \E sig \in UserSignals : SetSignal(sig)
  \/ \E g \in Groups : PodReadiness(g)
  \/ ClusterAges

(* The controller is invoked on every watch event, on requeue and on the    *)
(* periodic resync, and API errors are transient: a reconcile whose writes  *)
(* all succeed eventually happens.  The informer eventually delivers every  *)
(* event.  The user and the pods are not fair.                              *)
Fairness ==
  /\ WF_vars(Reconcile(TRUE))
  /\ WF_vars(InformerSync)

Spec == Init /\ [][Next]_vars /\ Fairness

-----------------------------------------------------------------------------
(***************************************************************************)
(* Properties.                                                             *)
(***************************************************************************)

(* Every variable has the type the code gives it. *)
TypeOK ==
  /\ obj \in ClusterObjects
  /\ cache \in ClusterObjects
  /\ fresh \in BOOLEAN
  /\ sts \in [Groups -> Images \cup {NoImage}]
  /\ ready \in [Groups -> BOOLEAN]
  /\ young \in BOOLEAN
  /\ userOps \in 0..MaxUserOps

(* The transition table of the upgrade state annotation (spec section 4.1). *)
Transitions ==
  {<<NoState, UpgradeStatePrecheckStart>>, <<NoState, UpgradeStateCancelled>>,
   <<UpgradeStateIdle, UpgradeStatePrecheckStart>>,
   <<UpgradeStateIdle, UpgradeStateCancelled>>,
   <<UpgradeStatePrecheckStart, UpgradeStatePrecheckDone>>,
   <<UpgradeStatePrecheckStart, UpgradeStateCancelled>>,
   <<UpgradeStatePrecheckDone, UpgradeStateWaitingUser>>,
   <<UpgradeStatePrecheckDone, UpgradeStateCancelled>>,
   <<UpgradeStateWaitingUser, UpgradeStateInProgress>>,
   <<UpgradeStateWaitingUser, UpgradeStateCancelled>>,
   <<UpgradeStateInProgress, UpgradeStateCompleted>>,
   <<UpgradeStateCompleted, UpgradeStateIdle>>,
   <<UpgradeStateCompleted, UpgradeStateCancelled>>,
   <<UpgradeStateFailed, UpgradeStateIdle>>,
   <<UpgradeStateFailed, UpgradeStateCancelled>>,
   <<UpgradeStateCancelled, UpgradeStateIdle>>}

(* Although the controller decides from a cached copy that may be stale,   *)
(* may stop between its writes, and the user edits the object at any time,  *)
(* the stored upgrade state only ever moves along the transition table: in  *)
(* particular an UpgradeInProgress is never cancelled or reset, and no       *)
(* decision taken on an old version of the object is ever applied to a     *)
(* newer one.  This rests on the resourceVersion check of Update.           *)
LegalTransitions ==
  [][obj'.state # obj.state => <<obj.state, obj'.state>> \in Transitions]_vars

(* The control annotations the workflow consumes. *)
Signals == {"trigger", "proceed", "cancel"}

(* A trigger, proceed or cancel annotation the user has set is never lost:  *)
(* it is only removed by cleanupUpgradeAnnotations ending the attempt, never *)
(* overwritten by a controller write made from a copy read before the user  *)
(* set it.                                                                  *)
NoLostSignal ==
  [][\A sig \in Signals :
       obj[sig] /\ ~obj'[sig] =>
         obj'.state \in {UpgradeStateIdle, UpgradeStateCompleted,
                         UpgradeStateCancelled}]_vars

(* Idle with spec.image different from the recorded current image. *)
ImageDrift == CurrentState(obj) = UpgradeStateIdle /\ DetectImageChanges(obj)

(* An image change on a deployed cluster always leads to the approval gate  *)
(* (WaitingForUserApproval with a fresh report), unless the user puts the   *)
(* old image back: the automatic trigger of HandleUpgradeWorkflow survives  *)
(* stale reads, failed writes and cancellations.                            *)
ImageChangeReachesApproval ==
  ImageDrift ~> (obj.state = UpgradeStateWaitingUser \/ ~DetectImageChanges(obj))

(* Cancelling an upgrade does not roll out its image: the step that moves   *)
(* the state to UpgradeCancelled leaves every StatefulSet as it was         *)
(* (spec 4.1: cancellation clears the signals; UPGRADE_CONTROL.md: cancel   *)
(* an upgrade).                                                             *)
CancelLeavesWorkloadAlone ==
  [][obj'.state = UpgradeStateCancelled /\ obj.state # UpgradeStateCancelled
       => UNCHANGED sts]_vars

(* A completed upgrade records its image as the current image (spec 4.1:    *)
(* InProgress, rollout converged: update recorded current image, Completed). *)
CompletionRecordsImage ==
  [][obj.state = UpgradeStateInProgress /\ obj'.state = UpgradeStateCompleted
       => obj'.current = obj'.image]_vars

(* The reconcile that completes an upgrade goes on to the normal          *)
(* reconciliation, which rolls the spec image out: every StatefulSet it   *)
(* moves to a new image gets the image the precheck report validated,     *)
(* the one the user reviewed before approving (spec 3: the report is the  *)
(* durable record reviewed during the approval gate).                     *)
CompletedImageWasPrechecked ==
  [][obj.state = UpgradeStateInProgress /\ obj'.state = UpgradeStateCompleted
       => \A g \in Groups :
            sts'[g] # sts[g] => obj'.report # NoReport /\ sts'[g] = obj'.report.image]_vars

(* The stored object seen through the annotation protocol of the workflow. *)
Lifecycle == INSTANCE UpgradeLifecycle
  WITH state <- obj.state, trigger <- obj.trigger, proceed <- obj.proceed,
       cancel <- obj.cancel, image <- obj.image, current <- obj.current

(* The controller, for all its stale reads, partial writes and the user's  *)
(* concurrent edits, changes the stored object only as UpgradeLifecycle     *)
(* allows: every write of every Reconcile path is a step of the abstract    *)
(* attempt (a start, a check, an approval on proceed, a recorded image, a   *)
(* completion, a cancel, a reset) or leaves it unchanged.                   *)
ImplementsLifecycle == Lifecycle!Spec

(* Once StatefulSets exist, a baseline current image is recorded (spec 8,   *)
(* scenario A: a fresh cluster records its image as the baseline), so that  *)
(* later image changes are detected.                                        *)
BaselineRecorded ==
  (\E g \in Groups : sts[g] # NoImage) => obj.current # NoImage

(* An in-flight rollout is never abandoned: once every StatefulSet stays    *)
(* ready, an UpgradeInProgress ends (spec 3: must complete or fail).        *)
InProgressEventuallyEnds ==
  <>[]AllUpdated =>
    [](obj.state = UpgradeStateInProgress => <>(obj.state # UpgradeStateInProgress))

=============================================================================
