----------------------------- MODULE ReportProofs -----------------------------
(***************************************************************************)
(* Proof that every stored precheck report allows proceeding, and that     *)
(* one is stored from PrecheckCompleted to UpgradeInProgress.              *)
(*                                                                         *)
(* handleWaitingUserState reads only the proceed annotation, never the     *)
(* report.  The report is sound because of two facts: every report         *)
(* CheckPrecheckStatus builds allows proceeding (MockCanProceed), and a     *)
(* report is stored before the state reaches PrecheckCompleted and never   *)
(* removed (cleanupUpgradeAnnotations keeps it).                           *)
(***************************************************************************)
EXTENDS LifecycleRefinement, PrecheckSummaryProofs

USE DEF NoState, UpgradeStateIdle, UpgradeStatePrecheckStart,
        UpgradeStatePrecheckDone, UpgradeStateWaitingUser,
        UpgradeStateInProgress, UpgradeStateCompleted, UpgradeStateFailed,
        UpgradeStateCancelled

(* The states from PrecheckCompleted up to the rollout. *)
ReportedStates ==
  {UpgradeStatePrecheckDone, UpgradeStateWaitingUser, UpgradeStateInProgress}

(* What a stored object says of its report: a report present allows        *)
(* proceeding, and one is present once the prechecks have completed.       *)
ReportSound(o) ==
  /\ o.report # NoReport => o.report.canProceed
  /\ o.state \in ReportedStates => o.report # NoReport

(* The inductive invariant: IInv and a sound stored report. *)
RInv == IInv /\ ReportSound(obj)

-----------------------------------------------------------------------------
(* A write that keeps the report, and enters the reported states only from *)
(* one of them, keeps the report sound.                                     *)
LEMMA KeepReport ==
  ASSUME NEW c, NEW x, ReportSound(c), x.report = c.report,
         x.state \in ReportedStates => c.state \in ReportedStates
  PROVE  ReportSound(x)
BY DEF ReportSound

(* A Commit stores a sound report when every object it may store,         *)
(* computed from the stored object, has one.                               *)
LEMMA CommitReport ==
  ASSUME CacheCoherent, ReportSound(obj), NEW S, NEW s \in Seq(S), NEW nr,
         NEW img, NEW full, Commit(s, nr, img, full),
         cache = obj => \A k \in 1..Len(s) : ReportSound(s[k])
  PROVE  ReportSound(obj')
<1>1. CASE obj' = obj
  BY <1>1
<1>2. CASE obj' # obj
  <2>1. fresh /\ s # <<>>
    BY <1>2 DEF Commit
  <2>2. cache = obj
    BY <2>1 DEF CacheCoherent
  <2>3. \E k \in 1..Len(s) : obj' = s[k]
    BY <2>1 DEF Commit
  <2>. QED
    BY <2>2, <2>3
<1>. QED
  BY <1>1, <1>2

(* The same for the write sequences of one, two and three objects. *)
LEMMA SingleCommitReport ==
  ASSUME CacheCoherent, ReportSound(obj), NEW x, NEW nr, NEW img, NEW full,
         Commit(<<x>>, nr, img, full), cache = obj => ReportSound(x)
  PROVE  ReportSound(obj')
<1>1. cache = obj => \A k \in 1..Len(<<x>>) : ReportSound(<<x>>[k])
  OBVIOUS
<1>2. <<x>> \in Seq({x})
  OBVIOUS
<1>. QED
  BY <1>1, <1>2, CommitReport

LEMMA PairCommitReport ==
  ASSUME CacheCoherent, ReportSound(obj), NEW x, NEW nr, NEW img, NEW full,
         Commit(<<x, x>>, nr, img, full), cache = obj => ReportSound(x)
  PROVE  ReportSound(obj')
<1>1. cache = obj => \A k \in 1..Len(<<x, x>>) : ReportSound(<<x, x>>[k])
  OBVIOUS
<1>. QED
  BY <1>1, PairSeq, CommitReport

LEMMA TripleCommitReport ==
  ASSUME CacheCoherent, ReportSound(obj), NEW x, NEW y, NEW nr, NEW img,
         NEW full, Commit(<<y, x, x>>, nr, img, full),
         cache = obj => ReportSound(x) /\ ReportSound(y)
  PROVE  ReportSound(obj')
<1>1. cache = obj => \A k \in 1..Len(<<y, x, x>>) : ReportSound(<<y, x, x>>[k])
  OBVIOUS
<1>2. <<y, x, x>> \in Seq({x, y})
  OBVIOUS
<1>. QED
  BY <1>1, <1>2, CommitReport

(* The writes of a dispatched reconcile keep the report when x does. *)
LEMMA DispatchReport ==
  ASSUME NEW c \in ClusterObjects, NEW x, ReportSound(c), ReportSound(x)
  PROVE  \A k \in 1..Len(DispatchWrites(c, x)) : ReportSound(DispatchWrites(c, x)[k])
<1>1. ReportSound(AutoTrigger(c))
  BY KeepReport DEF AutoTrigger, ClusterObjects
<1>. QED
  BY <1>1 DEF DispatchWrites

-----------------------------------------------------------------------------
(* Every reconcile keeps the stored report sound. *)
LEMMA ReconcileReport ==
  ASSUME IInv, ReportSound(obj), NEW full, Reconcile(full)
  PROVE  ReportSound(obj')
<1>. DEFINE c == cache
<1>0. c \in ClusterObjects /\ CacheCoherent /\ (c = obj => ReportSound(c))
  BY DEF IInv, TypeOK
<1>1. CASE ReconcileNewCluster(full)
  <2>. DEFINE x == [c EXCEPT !.current = c.image]
  <2>1. c = obj => ReportSound(x)
    BY <1>0, KeepReport DEF ClusterObjects
  <2>2. Commit(<<x>>, Gate(c), c.image, full)
    BY <1>1 DEF ReconcileNewCluster
  <2>. QED
    BY <1>0, <2>1, <2>2, SingleCommitReport
<1>2. CASE ReconcileIdle(full)
  BY <1>2 DEF ReconcileIdle, Commit
<1>3. CASE HandleIdleState(full)
  <2>. DEFINE x == [Dispatched(c) EXCEPT !.state = UpgradeStatePrecheckStart]
  <2>1. c = obj => ReportSound(x)
    BY <1>0, KeepReport, DispatchedType DEF ReportedStates, ClusterObjects,
       Dispatched, AutoTrigger
  <2>2. Commit(DispatchWrites(c, x), Gate(x), c.image, full)
    BY <1>3 DEF HandleIdleState
  <2>. QED
    BY <1>0, <2>1, <2>2, DispatchReport, DispatchWritesSeq, CommitReport
<1>4. CASE HandleCancellation(full)
  <2>. DEFINE x == Cleanup(Dispatched(c), UpgradeStateCancelled)
  <2>1. c = obj => ReportSound(x)
    BY <1>0, KeepReport DEF ReportedStates, ClusterObjects, Cleanup,
       Dispatched, AutoTrigger
  <2>2. Commit(DispatchWrites(c, x), Gate(x), c.image, full)
    BY <1>4 DEF HandleCancellation
  <2>. QED
    BY <1>0, <2>1, <2>2, DispatchReport, DispatchWritesSeq, CommitReport
<1>5. CASE HandlePrecheckStartState(full)
  <2>. DEFINE x == [c EXCEPT !.state = UpgradeStatePrecheckDone,
                             !.report = PrecheckReport(c)]
  <2>1. c.skip \in BOOLEAN /\ c.image \in Images
    BY <1>0 DEF ClusterObjects
  <2>2. PrecheckReport(c) \in Reports /\ PrecheckReport(c).canProceed
    BY <2>1, MockCanProceed DEF PrecheckReport, Reports, Summary
  <2>3. ReportSound(x)
    BY <1>0, <2>2, NoReportAssumption DEF ReportSound, ClusterObjects
  <2>4. Commit(<<x, x>>, Gate(x), c.image, full)
    BY <1>5 DEF HandlePrecheckStartState
  <2>. QED
    BY <1>0, <2>3, <2>4, PairCommitReport
<1>6. CASE HandlePrecheckDoneState(full)
  <2>. DEFINE x == [c EXCEPT !.state = UpgradeStateWaitingUser]
  <2>1. c = obj => ReportSound(x)
    BY <1>0, <1>6, KeepReport DEF HandlePrecheckDoneState, CurrentState,
       ReportedStates, ClusterObjects
  <2>2. Commit(<<x, x>>, Gate(x), c.image, full)
    BY <1>6 DEF HandlePrecheckDoneState
  <2>. QED
    BY <1>0, <2>1, <2>2, PairCommitReport
<1>7. CASE HandleWaitingUserState(full)
  <2>. DEFINE x == [c EXCEPT !.state = UpgradeStateInProgress]
  <2>1. c = obj => ReportSound(x)
    BY <1>0, <1>7, KeepReport DEF HandleWaitingUserState, CurrentState,
       ReportedStates, ClusterObjects
  <2>2. Commit(<<x, x>>, Gate(x), c.image, full)
    BY <1>7 DEF HandleWaitingUserState
  <2>. QED
    BY <1>0, <2>1, <2>2, PairCommitReport
<1>8. CASE HandleInProgressState(full)
  <2>. DEFINE withCur == [c EXCEPT !.current = c.image]
              done(r) == Cleanup(IF r THEN withCur ELSE c, UpgradeStateCompleted)
  <2>1. PICK r \in BOOLEAN :
          Commit(IF r THEN <<withCur, done(r), done(r)>>
                      ELSE <<done(r), done(r)>>,
                 Gate(done(r)), c.image, full)
    BY <1>8 DEF HandleInProgressState
  <2>2. c = obj => ReportSound(withCur) /\ ReportSound(done(r))
    BY <1>0, KeepReport DEF ReportedStates, ClusterObjects, Cleanup
  <2>3. CASE r
    BY <1>0, <2>1, <2>2, <2>3, TripleCommitReport
  <2>4. CASE ~r
    BY <1>0, <2>1, <2>2, <2>4, PairCommitReport
  <2>. QED
    BY <2>3, <2>4
<1>9. CASE HandleTerminalState(full)
  <2>. DEFINE x == Cleanup(c, UpgradeStateIdle)
  <2>1. c = obj => ReportSound(x)
    BY <1>0, KeepReport DEF ReportedStates, ClusterObjects, Cleanup
  <2>2. Commit(<<x, x>>, Gate(x), c.image, full)
    BY <1>9 DEF HandleTerminalState
  <2>. QED
    BY <1>0, <2>1, <2>2, PairCommitReport
<1>. QED
  BY <1>1, <1>2, <1>3, <1>4, <1>5, <1>6, <1>7, <1>8, <1>9 DEF Reconcile

(* The informer, the user and the pods leave the report and the state. *)
LEMMA EnvironmentReport ==
  ASSUME IInv, ReportSound(obj),
         \/ InformerSync
         \/ \E i \in Images : SetImage(i)
         \/ \E sig \in UserSignals : SetSignal(sig)
         \/ \E g \in Groups : PodReadiness(g)
         \/ ClusterAges
  PROVE  ReportSound(obj')
<1>0. obj \in ClusterObjects
  BY DEF IInv, TypeOK
<1>1. CASE InformerSync \/ (\E g \in Groups : PodReadiness(g)) \/ ClusterAges
  BY <1>1 DEF InformerSync, PodReadiness, ClusterAges
<1>2. CASE \E i \in Images : SetImage(i)
  BY <1>0, <1>2, KeepReport DEF SetImage, ClusterObjects
<1>3. CASE \E sig \in UserSignals : SetSignal(sig)
  <2>1. PICK sig \in UserSignals : SetSignal(sig)
    BY <1>3
  <2>2. sig \in {"trigger", "proceed", "cancel", "skip"}
    BY <2>1, ConstantsAssumption
  <2>. QED
    BY <1>0, <2>1, <2>2, KeepReport DEF SetSignal, ClusterObjects
<1>. QED
  BY <1>1, <1>2, <1>3

(* RInv is inductive. *)
LEMMA RNextStep == RInv /\ [Next]_vars => RInv'
<1>. SUFFICES ASSUME RInv, [Next]_vars PROVE RInv'
  OBVIOUS
<1>1. IInv'
  BY NextStep DEF RInv
<1>2. CASE \E full \in BOOLEAN : Reconcile(full)
  BY <1>1, <1>2, ReconcileReport DEF RInv
<1>3. CASE UNCHANGED vars
  BY <1>1, <1>3 DEF RInv, vars
<1>. QED
  BY <1>1, <1>2, <1>3, EnvironmentReport DEF Next, RInv

(* The initial object has no report and the empty state. *)
LEMMA InitRInv == Init => RInv
BY InitIInv DEF Init, RInv, ReportSound, ReportedStates

-----------------------------------------------------------------------------
(* Every stored precheck report allows proceeding, and from                *)
(* PrecheckCompleted to UpgradeInProgress one is stored: the report        *)
(* handlePrecheckStartState stores is built by CheckPrecheckStatus, whose  *)
(* mock checks never fail, and cleanupUpgradeAnnotations keeps it.         *)
THEOREM ReportAlwaysSound == Spec => [](ReportSound(obj))
<1>1. Init => RInv
  BY InitRInv
<1>2. RInv /\ [Next]_vars => RInv'
  BY RNextStep
<1>3. RInv => ReportSound(obj)
  BY DEF RInv
<1>. QED
  BY <1>1, <1>2, <1>3, PTL DEF Spec

=============================================================================
