------------------------- MODULE LifecycleRefinement -------------------------
(***************************************************************************)
(* Proof that UpgradeWorkflow implements UpgradeLifecycle under the        *)
(* mapping Lifecycle of UpgradeWorkflow (the fields of the stored object). *)
(*                                                                         *)
(* The argument: a Commit stores either nothing or one of the objects its *)
(* writes compute, and only from a fresh copy, which by CacheCoherent is   *)
(* the stored object.  So it suffices that each object a handler writes,   *)
(* computed from the stored object, is one abstract step from it (or      *)
(* leaves the abstract fields alone).  The environment steps are a         *)
(* ChangeImage, a Signal or a stutter.                                     *)
(***************************************************************************)
EXTENDS UpgradeWorkflowProofs

USE DEF NoState, UpgradeStateIdle, UpgradeStatePrecheckStart,
        UpgradeStatePrecheckDone, UpgradeStateWaitingUser,
        UpgradeStateInProgress, UpgradeStateCompleted, UpgradeStateFailed,
        UpgradeStateCancelled

(* A step of the abstract lifecycle, or a step it does not see. *)
ANext == [Lifecycle!Next]_(Lifecycle!avars)

-----------------------------------------------------------------------------
(* A Commit refines the lifecycle when every object it may store, computed *)
(* from the stored object, is an abstract step from it.                   *)
LEMMA CommitRefines ==
  ASSUME CacheCoherent, NEW S, NEW s \in Seq(S), NEW nr, NEW img, NEW full,
         Commit(s, nr, img, full),
         \A k \in 1..Len(s) : cache = obj /\ obj' = s[k] => ANext
  PROVE  ANext
<1>1. CASE obj' = obj
  BY <1>1 DEF ANext, Lifecycle!avars
<1>2. CASE obj' # obj
  <2>1. fresh /\ s # <<>>
    BY <1>2 DEF Commit
  <2>2. cache = obj
    BY <2>1 DEF CacheCoherent
  <2>3. \E k \in 1..Len(s) : obj' = s[k]
    BY <2>1 DEF Commit
  <2>. QED
    BY <2>2, <2>3
<1>. QED
  BY <1>1, <1>2

(* The write that sets the trigger annotation on an image change is a     *)
(* Signal of the lifecycle.                                                *)
LEMMA AutoTriggerSignal ==
  ASSUME NEW c \in ClusterObjects, obj' = AutoTrigger(c), cache = obj, cache = c
  PROVE  ANext
BY DEF AutoTrigger, ANext, Lifecycle!Next, Lifecycle!Signal, ClusterObjects

(* The writes of a dispatched reconcile are the trigger write and x. *)
LEMMA DispatchWritesSeq ==
  ASSUME NEW c, NEW x
  PROVE  DispatchWrites(c, x) \in Seq({AutoTrigger(c), x})
<1>1. <<AutoTrigger(c), x, x>> \in Seq({AutoTrigger(c), x})
  OBVIOUS
<1>2. <<x, x>> \in Seq({AutoTrigger(c), x})
  OBVIOUS
<1>. QED
  BY <1>1, <1>2 DEF DispatchWrites

(* Two writes of the same object. *)
LEMMA PairSeq ==
  ASSUME NEW x
  PROVE  <<x, x>> \in Seq({x})
OBVIOUS

(* A Commit of an object written twice (Update, then Status().Update). *)
LEMMA PairCommitRefines ==
  ASSUME CacheCoherent, NEW x, NEW nr, NEW img, NEW full,
         Commit(<<x, x>>, nr, img, full),
         cache = obj /\ obj' = x => ANext
  PROVE  ANext
<1>1. \A k \in 1..Len(<<x, x>>) : cache = obj /\ obj' = <<x, x>>[k] => ANext
  OBVIOUS
<1>. QED
  BY <1>1, PairSeq, CommitRefines

(* A Commit of an object y followed by an object x written twice. *)
LEMMA TripleCommitRefines ==
  ASSUME CacheCoherent, NEW x, NEW y, NEW nr, NEW img, NEW full,
         Commit(<<y, x, x>>, nr, img, full),
         cache = obj /\ obj' = x => ANext,
         cache = obj /\ obj' = y => ANext
  PROVE  ANext
<1>1. \A k \in 1..Len(<<y, x, x>>) : cache = obj /\ obj' = <<y, x, x>>[k] => ANext
  OBVIOUS
<1>2. <<y, x, x>> \in Seq({x, y})
  OBVIOUS
<1>. QED
  BY <1>1, <1>2, CommitRefines

-----------------------------------------------------------------------------
(* Every reconcile is a step of the lifecycle or invisible to it. *)
LEMMA ReconcileRefines ==
  ASSUME IInv, NEW full, Reconcile(full)
  PROVE  ANext
<1>. DEFINE c == cache
<1>0. c \in ClusterObjects /\ CacheCoherent
  BY DEF IInv, TypeOK
<1>1. CASE ReconcileNewCluster(full)
  <2>. DEFINE x == [c EXCEPT !.current = c.image]
  <2>1. \A k \in 1..Len(<<x>>) : cache = obj /\ obj' = <<x>>[k] => ANext
    <3>1. SUFFICES ASSUME cache = obj, obj' = x
                   PROVE  Lifecycle!RecordBaseline
      BY DEF ANext, Lifecycle!Next
    <3>. QED
      BY <1>0, <1>1, <3>1 DEF ReconcileNewCluster, CurrentState,
         IsClusterDeployed, Lifecycle!RecordBaseline, Lifecycle!Idle,
         ClusterObjects
  <2>2. Commit(<<x>>, Gate(c), c.image, full)
    BY <1>1 DEF ReconcileNewCluster
  <2>3. <<x>> \in Seq({x})
    OBVIOUS
  <2>. QED
    BY <1>0, <2>1, <2>2, <2>3, CommitRefines
<1>2. CASE ReconcileIdle(full)
  <2>1. Commit(<<>>, Gate(c), c.image, full)
    BY <1>2 DEF ReconcileIdle
  <2>. QED
    BY <2>1 DEF Commit, ANext, Lifecycle!avars
<1>3. CASE HandleIdleState(full)
  <2>. DEFINE x == [Dispatched(c) EXCEPT !.state = UpgradeStatePrecheckStart]
  <2>1. ASSUME cache = obj, obj' = x PROVE ANext
    <3>1. Lifecycle!Start
      BY <1>0, <1>3, <2>1 DEF HandleIdleState, CurrentState, Triggered,
         DetectImageChanges, Dispatched, AutoTrigger, Lifecycle!Start,
         Lifecycle!Idle, Lifecycle!Drift, ClusterObjects
    <3>. QED
      BY <3>1 DEF ANext, Lifecycle!Next
  <2>2. \A k \in 1..Len(DispatchWrites(c, x)) :
          cache = obj /\ obj' = DispatchWrites(c, x)[k] => ANext
    BY <1>0, <2>1, AutoTriggerSignal DEF DispatchWrites
  <2>3. DispatchWrites(c, x) \in Seq({AutoTrigger(c), x})
    BY DispatchWritesSeq
  <2>4. Commit(DispatchWrites(c, x), Gate(x), c.image, full)
    BY <1>3 DEF HandleIdleState
  <2>. QED
    BY <1>0, <2>2, <2>3, <2>4, CommitRefines
<1>4. CASE HandleCancellation(full)
  <2>. DEFINE x == Cleanup(Dispatched(c), UpgradeStateCancelled)
  <2>1. ASSUME cache = obj, obj' = x PROVE ANext
    <3>1. Lifecycle!Cancel
      BY <1>0, <1>4, <2>1 DEF HandleCancellation, CurrentState, Triggered,
         DetectImageChanges, IsClusterDeployed, Dispatched, AutoTrigger,
         Cleanup, Lifecycle!Cancel, Lifecycle!EndAttempt, Lifecycle!Idle,
         Lifecycle!Drift, ClusterObjects
    <3>. QED
      BY <3>1 DEF ANext, Lifecycle!Next
  <2>2. \A k \in 1..Len(DispatchWrites(c, x)) :
          cache = obj /\ obj' = DispatchWrites(c, x)[k] => ANext
    BY <1>0, <2>1, AutoTriggerSignal DEF DispatchWrites
  <2>3. DispatchWrites(c, x) \in Seq({AutoTrigger(c), x})
    BY DispatchWritesSeq
  <2>4. Commit(DispatchWrites(c, x), Gate(x), c.image, full)
    BY <1>4 DEF HandleCancellation
  <2>. QED
    BY <1>0, <2>2, <2>3, <2>4, CommitRefines
<1>5. CASE HandlePrecheckStartState(full)
  <2>. DEFINE x == [c EXCEPT !.state = UpgradeStatePrecheckDone,
                             !.report = PrecheckReport(c)]
  <2>1. ASSUME cache = obj, obj' = x PROVE ANext
    <3>1. Lifecycle!Advance("PrecheckStarted", "PrecheckCompleted")
      BY <1>0, <1>5, <2>1 DEF HandlePrecheckStartState, CurrentState,
         Lifecycle!Advance, ClusterObjects
    <3>. QED
      BY <3>1 DEF ANext, Lifecycle!Next
  <2>2. Commit(<<x, x>>, Gate(x), c.image, full)
    BY <1>5 DEF HandlePrecheckStartState
  <2>. QED
    BY <1>0, <2>1, <2>2, PairCommitRefines
<1>6. CASE HandlePrecheckDoneState(full)
  <2>. DEFINE x == [c EXCEPT !.state = UpgradeStateWaitingUser]
  <2>1. ASSUME cache = obj, obj' = x PROVE ANext
    <3>1. Lifecycle!Advance("PrecheckCompleted", "WaitingForUserApproval")
      BY <1>0, <1>6, <2>1 DEF HandlePrecheckDoneState, CurrentState,
         Lifecycle!Advance, ClusterObjects
    <3>. QED
      BY <3>1 DEF ANext, Lifecycle!Next
  <2>2. Commit(<<x, x>>, Gate(x), c.image, full)
    BY <1>6 DEF HandlePrecheckDoneState
  <2>. QED
    BY <1>0, <2>1, <2>2, PairCommitRefines
<1>7. CASE HandleWaitingUserState(full)
  <2>. DEFINE x == [c EXCEPT !.state = UpgradeStateInProgress]
  <2>1. ASSUME cache = obj, obj' = x PROVE ANext
    <3>1. Lifecycle!Approve
      BY <1>0, <1>7, <2>1 DEF HandleWaitingUserState, CurrentState,
         Lifecycle!Approve, Lifecycle!Advance, ClusterObjects
    <3>. QED
      BY <3>1 DEF ANext, Lifecycle!Next
  <2>2. Commit(<<x, x>>, Gate(x), c.image, full)
    BY <1>7 DEF HandleWaitingUserState
  <2>. QED
    BY <1>0, <2>1, <2>2, PairCommitRefines
<1>8. CASE HandleInProgressState(full)
  <2>. DEFINE withCur == [c EXCEPT !.current = c.image]
              done(r) == Cleanup(IF r THEN withCur ELSE c, UpgradeStateCompleted)
  <2>1. PICK r \in BOOLEAN :
          Commit(IF r THEN <<withCur, done(r), done(r)>>
                      ELSE <<done(r), done(r)>>,
                 Gate(done(r)), c.image, full)
    BY <1>8 DEF HandleInProgressState
  <2>2. c.state = UpgradeStateInProgress /\ ~c.cancel
    BY <1>8 DEF HandleInProgressState, CurrentState
  <2>3. ASSUME cache = obj, obj' = withCur PROVE ANext
    <3>1. Lifecycle!RecordImage
      BY <1>0, <2>2, <2>3 DEF Lifecycle!RecordImage, ClusterObjects
    <3>. QED
      BY <3>1 DEF ANext, Lifecycle!Next
  <2>4. ASSUME cache = obj, obj' = done(r) PROVE ANext
    <3>1. Lifecycle!Finish
      BY <1>0, <2>2, <2>4 DEF Cleanup, Lifecycle!Finish, Lifecycle!EndAttempt,
         ClusterObjects
    <3>. QED
      BY <3>1 DEF ANext, Lifecycle!Next
  <2>5. CASE r
    BY <1>0, <2>1, <2>3, <2>4, <2>5, TripleCommitRefines
  <2>6. CASE ~r
    BY <1>0, <2>1, <2>4, <2>6, PairCommitRefines
  <2>. QED
    BY <2>5, <2>6
<1>9. CASE HandleTerminalState(full)
  <2>. DEFINE x == Cleanup(c, UpgradeStateIdle)
  <2>1. ASSUME cache = obj, obj' = x PROVE ANext
    <3>1. Lifecycle!Reset
      BY <1>0, <1>9, <2>1 DEF HandleTerminalState, CurrentState, Cleanup,
         Lifecycle!Reset, Lifecycle!EndAttempt, Lifecycle!Terminal,
         ClusterObjects
    <3>. QED
      BY <3>1 DEF ANext, Lifecycle!Next
  <2>2. Commit(<<x, x>>, Gate(x), c.image, full)
    BY <1>9 DEF HandleTerminalState
  <2>. QED
    BY <1>0, <2>1, <2>2, PairCommitRefines
<1>. QED
  BY <1>1, <1>2, <1>3, <1>4, <1>5, <1>6, <1>7, <1>8, <1>9 DEF Reconcile

(* The informer, the user and the pods: an image change or a signal of the *)
(* lifecycle, or no change to the abstract fields.                         *)
LEMMA EnvironmentRefines ==
  ASSUME IInv,
         \/ InformerSync
         \/ \E i \in Images : SetImage(i)
         \/ \E sig \in UserSignals : SetSignal(sig)
         \/ \E g \in Groups : PodReadiness(g)
         \/ ClusterAges
  PROVE  ANext
<1>0. obj \in ClusterObjects
  BY DEF IInv, TypeOK
<1>1. CASE InformerSync \/ (\E g \in Groups : PodReadiness(g)) \/ ClusterAges
  <2>1. obj' = obj
    BY <1>1 DEF InformerSync, PodReadiness, ClusterAges
  <2>. QED
    BY <2>1 DEF ANext, Lifecycle!avars
<1>2. CASE \E i \in Images : SetImage(i)
  <2>1. PICK i \in Images : SetImage(i)
    BY <1>2
  <2>2. Lifecycle!ChangeImage
    BY <1>0, <2>1 DEF SetImage, Lifecycle!ChangeImage, ClusterObjects
  <2>. QED
    BY <2>2 DEF ANext, Lifecycle!Next
<1>3. CASE \E sig \in UserSignals : SetSignal(sig)
  <2>1. PICK sig \in UserSignals : SetSignal(sig)
    BY <1>3
  <2>2. sig \in {"trigger", "proceed", "cancel", "skip"}
    BY <2>1, ConstantsAssumption
  <2>3. CASE sig \in {"trigger", "proceed", "cancel"}
    <3>1. Lifecycle!Signal
      BY <1>0, <2>1, <2>3 DEF SetSignal, Lifecycle!Signal, ClusterObjects
    <3>. QED
      BY <3>1 DEF ANext, Lifecycle!Next
  <2>4. CASE sig = "skip"
    BY <1>0, <2>1, <2>4 DEF SetSignal, ANext, Lifecycle!avars, ClusterObjects
  <2>. QED
    BY <2>2, <2>3, <2>4
<1>. QED
  BY <1>1, <1>2, <1>3

(* The initial object is an initial state of the lifecycle. *)
LEMMA InitRefines == Init => Lifecycle!Init
BY DEF Init, Lifecycle!Init

(* Every step of the workflow is a step of the lifecycle or a stutter. *)
LEMMA StepRefines == IInv /\ [Next]_vars => ANext
<1>. SUFFICES ASSUME IInv, [Next]_vars PROVE ANext
  OBVIOUS
<1>1. CASE \E full \in BOOLEAN : Reconcile(full)
  BY <1>1, ReconcileRefines
<1>2. CASE UNCHANGED vars
  BY <1>2 DEF vars, ANext, Lifecycle!avars
<1>. QED
  BY <1>1, <1>2, EnvironmentRefines DEF Next

(* The lifecycle removes a signal only where an attempt ends. *)
LEMMA LifecycleKeepsSignals ==
  ANext => \A sig \in Signals :
             obj[sig] /\ ~obj'[sig] =>
               obj'.state \in {UpgradeStateIdle, UpgradeStateCompleted,
                               UpgradeStateCancelled}
<1>. SUFFICES ASSUME ANext, NEW sig \in Signals, obj[sig], ~obj'[sig]
              PROVE  obj'.state \in {UpgradeStateIdle, UpgradeStateCompleted,
                                     UpgradeStateCancelled}
  OBVIOUS
<1>1. sig \in {"trigger", "proceed", "cancel"}
  BY DEF Signals
<1>2. obj'.trigger # obj.trigger \/ obj'.proceed # obj.proceed
        \/ obj'.cancel # obj.cancel
  BY <1>1
<1>3. ~UNCHANGED Lifecycle!avars
  BY <1>2 DEF Lifecycle!avars
<1>4. CASE Lifecycle!Signal
  BY <1>1, <1>4 DEF Lifecycle!Signal
<1>5. CASE Lifecycle!Finish \/ Lifecycle!Cancel \/ Lifecycle!Reset
  BY <1>5 DEF Lifecycle!Finish, Lifecycle!Cancel, Lifecycle!Reset,
              Lifecycle!EndAttempt
<1>6. CASE \/ Lifecycle!ChangeImage \/ Lifecycle!RecordBaseline
           \/ Lifecycle!Start \/ Lifecycle!Approve \/ Lifecycle!RecordImage
           \/ Lifecycle!Advance("PrecheckStarted", "PrecheckCompleted")
           \/ Lifecycle!Advance("PrecheckCompleted", "WaitingForUserApproval")
  BY <1>1, <1>6 DEF Lifecycle!ChangeImage, Lifecycle!RecordBaseline,
                    Lifecycle!Start, Lifecycle!Approve, Lifecycle!RecordImage,
                    Lifecycle!Advance
<1>. QED
  BY <1>3, <1>4, <1>5, <1>6 DEF ANext, Lifecycle!Next

-----------------------------------------------------------------------------
(* The workflow implements the lifecycle: however stale the controller's   *)
(* cache, wherever a reconcile stops between its writes, and whatever the   *)
(* user edits meanwhile, every change HandleUpgradeWorkflow and its         *)
(* handlers make to the stored annotations, spec.image and                  *)
(* status.currentImage is one step of UpgradeLifecycle: a start on a        *)
(* trigger or an image change, a check, an approval on proceed, a recorded  *)
(* image, a completion, a cancel or a reset.                                *)
THEOREM RefinesLifecycle == Spec => ImplementsLifecycle
<1>1. Init => IInv /\ Lifecycle!Init
  BY InitIInv, InitRefines
<1>2. IInv /\ [Next]_vars => IInv'
  BY NextStep
<1>3. IInv /\ [Next]_vars => ANext
  BY StepRefines
<1>. QED
  BY <1>1, <1>2, <1>3, PTL DEF Spec, ImplementsLifecycle, Lifecycle!Spec, ANext

(* No trigger, proceed or cancel annotation the user sets is lost: a write *)
(* of HandleUpgradeWorkflow computed from a cached copy read before the     *)
(* user set it is refused, and only cleanupUpgradeAnnotations, ending the   *)
(* attempt in Idle, UpgradeCompleted or UpgradeCancelled, removes one.       *)
THEOREM NoLostSignalHolds == Spec => NoLostSignal
<1>1. Init => IInv
  BY InitIInv
<1>2. IInv /\ [Next]_vars => IInv'
  BY NextStep
<1>3. IInv /\ [Next]_vars =>
        [\A sig \in Signals :
           obj[sig] /\ ~obj'[sig] =>
             obj'.state \in {UpgradeStateIdle, UpgradeStateCompleted,
                             UpgradeStateCancelled}]_vars
  BY StepRefines, LifecycleKeepsSignals
<1>. QED
  BY <1>1, <1>2, <1>3, PTL DEF Spec, NoLostSignal

=============================================================================
