------------------------- MODULE UpgradeWorkflowProofs -------------------------
(***************************************************************************)
(* Proofs about the upgrade workflow of UpgradeWorkflow, for every set of  *)
(* images and groups and every bound on the user's edits.                  *)
(*                                                                         *)
(* The argument: every write the controller makes goes through Commit,    *)
(* which changes the stored object only from a cached copy that has the    *)
(* stored resourceVersion (fresh).  CacheCoherent says a fresh copy is the *)
(* stored object, so every write is computed from the object it replaces;  *)
(* the guards of each handler then put the old and the new state in the   *)
(* transition table.                                                       *)
(***************************************************************************)
EXTENDS UpgradeWorkflow, TLAPS

(* The upgrade states are distinct strings. *)
USE DEF NoState, UpgradeStateIdle, UpgradeStatePrecheckStart,
        UpgradeStatePrecheckDone, UpgradeStateWaitingUser,
        UpgradeStateInProgress, UpgradeStateCompleted, UpgradeStateFailed,
        UpgradeStateCancelled

-----------------------------------------------------------------------------
(* Writes of a reconcile: a sequence of well-typed objects. *)
WellTyped(s) == \A k \in 1..Len(s) : s[k] \in ClusterObjects

(* Writes of a reconcile that only move the state along the table, from    *)
(* the state of the copy c they were computed from.                        *)
LegalWrites(s, c) ==
  \A k \in 1..Len(s) :
     s[k].state = c.state \/ <<c.state, s[k].state>> \in Transitions

(* A cached copy with the stored resourceVersion is the stored object. *)
CacheCoherent == fresh => cache = obj

(* The inductive invariant. *)
IInv == TypeOK /\ CacheCoherent

-----------------------------------------------------------------------------
(* Commit keeps the types when its writes are well typed. *)
LEMMA CommitTypeOK ==
  ASSUME TypeOK, NEW s, NEW nr, NEW img \in Images, NEW full,
         s \in Seq(ClusterObjects), Commit(s, nr, img, full)
  PROVE  TypeOK'
<1>1. obj' \in ClusterObjects
  BY DEF Commit, TypeOK
<1>2. sts' \in [Groups -> Images \cup {NoImage}]
  BY DEF Commit, ReconcileWorkload, TypeOK
<1>3. fresh' \in BOOLEAN
  BY DEF Commit
<1>4. UNCHANGED <<cache, ready, young, userOps>>
  BY DEF Commit
<1>. QED
  BY <1>1, <1>2, <1>3, <1>4 DEF TypeOK

(* Commit keeps the cache coherent: a write made leaves the copy stale. *)
LEMMA CommitCoherent ==
  ASSUME CacheCoherent, NEW s, NEW nr, NEW img, NEW full,
         Commit(s, nr, img, full)
  PROVE  CacheCoherent'
BY DEF Commit, CacheCoherent

(* A Commit that changes the stored state was made from a fresh copy, and *)
(* so from the stored object itself.                                       *)
LEMMA CommitLegal ==
  ASSUME CacheCoherent, NEW s, NEW nr, NEW img, NEW full,
         s \in Seq(ClusterObjects), LegalWrites(s, cache),
         Commit(s, nr, img, full)
  PROVE  obj'.state # obj.state => <<obj.state, obj'.state>> \in Transitions
<1>. SUFFICES ASSUME obj'.state # obj.state
             PROVE  <<obj.state, obj'.state>> \in Transitions
  OBVIOUS
<1>1. fresh /\ s # <<>>
  BY DEF Commit
<1>2. cache = obj
  BY <1>1 DEF CacheCoherent
<1>3. \E k \in 1..Len(s) : obj' = s[k]
  BY <1>1 DEF Commit
<1>. QED
  BY <1>2, <1>3 DEF LegalWrites

-----------------------------------------------------------------------------
(* A step that changes the stored state moves it along the table. *)
LegalStep == obj'.state # obj.state => <<obj.state, obj'.state>> \in Transitions

(* What every reconcile preserves and guarantees, from what its writes are. *)
LEMMA CommitStep ==
  ASSUME IInv, NEW s \in Seq(ClusterObjects), NEW nr, NEW img \in Images,
         NEW full, LegalWrites(s, cache), Commit(s, nr, img, full)
  PROVE  IInv' /\ LegalStep
BY CommitTypeOK, CommitCoherent, CommitLegal DEF IInv, LegalStep

(* Write sequences of two and three well-typed objects. *)
LEMMA PairWrites ==
  ASSUME NEW x \in ClusterObjects, NEW c,
         x.state = c.state \/ <<c.state, x.state>> \in Transitions
  PROVE  /\ <<x, x>> \in Seq(ClusterObjects) /\ LegalWrites(<<x, x>>, c)
         /\ <<x>> \in Seq(ClusterObjects) /\ LegalWrites(<<x>>, c)
BY DEF LegalWrites

LEMMA TripleWrites ==
  ASSUME NEW x \in ClusterObjects, NEW y \in ClusterObjects, NEW c,
         x.state = c.state \/ <<c.state, x.state>> \in Transitions,
         y.state = c.state
  PROVE  <<y, x, x>> \in Seq(ClusterObjects) /\ LegalWrites(<<y, x, x>>, c)
BY DEF LegalWrites

(* The writes of a dispatched reconcile, with or without the trigger write. *)
LEMMA DispatchWritesLegal ==
  ASSUME NEW c \in ClusterObjects, NEW x \in ClusterObjects,
         x.state = c.state \/ <<c.state, x.state>> \in Transitions
  PROVE  DispatchWrites(c, x) \in Seq(ClusterObjects)
         /\ LegalWrites(DispatchWrites(c, x), c)
<1>1. AutoTrigger(c) \in ClusterObjects /\ AutoTrigger(c).state = c.state
  BY DEF AutoTrigger, ClusterObjects
<1>. QED
  BY <1>1, PairWrites, TripleWrites DEF DispatchWrites

(* The object HandleUpgradeWorkflow dispatches on has the cached state. *)
LEMMA DispatchedType ==
  ASSUME NEW c \in ClusterObjects
  PROVE  Dispatched(c) \in ClusterObjects /\ Dispatched(c).state = c.state
BY DEF Dispatched, AutoTrigger, ClusterObjects

-----------------------------------------------------------------------------
(* Every reconcile keeps the invariant and moves the state along the table. *)
LEMMA ReconcileStep ==
  ASSUME IInv, NEW full, Reconcile(full)
  PROVE  IInv' /\ LegalStep
<1>. DEFINE c == cache
<1>0. c \in ClusterObjects /\ c.image \in Images
  BY DEF IInv, TypeOK, ClusterObjects
<1>1. CASE ReconcileNewCluster(full)
  <2>. DEFINE x == [c EXCEPT !.current = c.image]
  <2>1. x \in ClusterObjects /\ x.state = c.state
    BY <1>0 DEF ClusterObjects
  <2>2. Commit(<<x>>, Gate(c), c.image, full)
    BY <1>1 DEF ReconcileNewCluster
  <2>. QED
    BY <1>0, <2>1, <2>2, PairWrites, CommitStep
<1>2. CASE ReconcileIdle(full)
  <2>1. <<>> \in Seq(ClusterObjects) /\ LegalWrites(<<>>, c)
    BY DEF LegalWrites
  <2>2. Commit(<<>>, Gate(c), c.image, full)
    BY <1>2 DEF ReconcileIdle
  <2>. QED
    BY <1>0, <2>1, <2>2, CommitStep
<1>3. CASE HandleIdleState(full)
  <2>. DEFINE x == [Dispatched(c) EXCEPT !.state = UpgradeStatePrecheckStart]
  <2>1. c.state \in {NoState, UpgradeStateIdle}
    BY <1>3 DEF HandleIdleState, CurrentState
  <2>2. x \in ClusterObjects /\ <<c.state, x.state>> \in Transitions
    BY <1>0, <2>1, DispatchedType DEF ClusterObjects, StateValues, Transitions
  <2>3. Commit(DispatchWrites(c, x), Gate(x), c.image, full)
    BY <1>3 DEF HandleIdleState
  <2>. QED
    BY <1>0, <2>2, <2>3, DispatchWritesLegal, CommitStep
<1>4. CASE HandleCancellation(full)
  <2>. DEFINE x == Cleanup(Dispatched(c), UpgradeStateCancelled)
  <2>1. c.state # UpgradeStateInProgress
    BY <1>4 DEF HandleCancellation
  <2>2. x \in ClusterObjects
    BY <1>0, DispatchedType DEF Cleanup, ClusterObjects, StateValues
  <2>3. x.state = c.state \/ <<c.state, x.state>> \in Transitions
    BY <1>0, <2>1, DispatchedType DEF Cleanup, ClusterObjects, StateValues,
                                      Transitions
  <2>4. Commit(DispatchWrites(c, x), Gate(x), c.image, full)
    BY <1>4 DEF HandleCancellation
  <2>. QED
    BY <1>0, <2>2, <2>3, <2>4, DispatchWritesLegal, CommitStep
<1>5. CASE HandlePrecheckStartState(full)
  <2>. DEFINE x == [c EXCEPT !.state = UpgradeStatePrecheckDone,
                             !.report = PrecheckReport(c)]
  <2>0. PrecheckReport(c) \in Reports
    BY <1>0 DEF PrecheckReport, Summary, Reports
  <2>1. x \in ClusterObjects /\ <<c.state, x.state>> \in Transitions
    BY <1>0, <1>5, <2>0 DEF HandlePrecheckStartState, CurrentState,
                            ClusterObjects, StateValues, Transitions
  <2>2. Commit(<<x, x>>, Gate(x), c.image, full)
    BY <1>5 DEF HandlePrecheckStartState
  <2>. QED
    BY <1>0, <2>1, <2>2, PairWrites, CommitStep
<1>6. CASE HandlePrecheckDoneState(full)
  <2>. DEFINE x == [c EXCEPT !.state = UpgradeStateWaitingUser]
  <2>1. x \in ClusterObjects /\ <<c.state, x.state>> \in Transitions
    BY <1>0, <1>6 DEF HandlePrecheckDoneState, CurrentState,
                      ClusterObjects, StateValues, Transitions
  <2>2. Commit(<<x, x>>, Gate(x), c.image, full)
    BY <1>6 DEF HandlePrecheckDoneState
  <2>. QED
    BY <1>0, <2>1, <2>2, PairWrites, CommitStep
<1>7. CASE HandleWaitingUserState(full)
  <2>. DEFINE x == [c EXCEPT !.state = UpgradeStateInProgress]
  <2>1. x \in ClusterObjects /\ <<c.state, x.state>> \in Transitions
    BY <1>0, <1>7 DEF HandleWaitingUserState, CurrentState,
                      ClusterObjects, StateValues, Transitions
  <2>2. Commit(<<x, x>>, Gate(x), c.image, full)
    BY <1>7 DEF HandleWaitingUserState
  <2>. QED
    BY <1>0, <2>1, <2>2, PairWrites, CommitStep
<1>8. CASE HandleInProgressState(full)
  <2>. DEFINE withCur == [c EXCEPT !.current = c.image]
              done(r) == Cleanup(IF r THEN withCur ELSE c, UpgradeStateCompleted)
  <2>1. PICK r \in BOOLEAN :
          Commit(IF r THEN <<withCur, done(r), done(r)>>
                      ELSE <<done(r), done(r)>>,
                 Gate(done(r)), c.image, full)
    BY <1>8 DEF HandleInProgressState
  <2>2. c.state = UpgradeStateInProgress
    BY <1>8 DEF HandleInProgressState, CurrentState
  <2>3. withCur \in ClusterObjects /\ withCur.state = c.state
    BY <1>0 DEF ClusterObjects
  <2>4. done(r) \in ClusterObjects /\ <<c.state, done(r).state>> \in Transitions
    BY <1>0, <2>2, <2>3 DEF Cleanup, ClusterObjects, StateValues, Transitions
  <2>5. CASE r
    BY <1>0, <2>1, <2>3, <2>4, <2>5, TripleWrites, CommitStep
  <2>6. CASE ~r
    BY <1>0, <2>1, <2>4, <2>6, PairWrites, CommitStep
  <2>. QED
    BY <2>5, <2>6
<1>9. CASE HandleTerminalState(full)
  <2>. DEFINE x == Cleanup(c, UpgradeStateIdle)
  <2>1. x \in ClusterObjects /\ <<c.state, x.state>> \in Transitions
    BY <1>0, <1>9 DEF HandleTerminalState, CurrentState, Cleanup,
                      ClusterObjects, StateValues, Transitions
  <2>2. Commit(<<x, x>>, Gate(x), c.image, full)
    BY <1>9 DEF HandleTerminalState
  <2>. QED
    BY <1>0, <2>1, <2>2, PairWrites, CommitStep
<1>. QED
  BY <1>1, <1>2, <1>3, <1>4, <1>5, <1>6, <1>7, <1>8, <1>9 DEF Reconcile

(* The informer, the user and the pods keep the invariant and never touch *)
(* the upgrade state.                                                      *)
LEMMA EnvironmentStep ==
  ASSUME IInv,
         \/ InformerSync
         \/ \E i \in Images : SetImage(i)
         \/ \E sig \in UserSignals : SetSignal(sig)
         \/ \E g \in Groups : PodReadiness(g)
         \/ ClusterAges
  PROVE  IInv' /\ LegalStep
<1>1. CASE InformerSync
  BY <1>1 DEF InformerSync, IInv, TypeOK, CacheCoherent, LegalStep
<1>2. CASE \E i \in Images : SetImage(i)
  <2>1. PICK i \in Images : SetImage(i)
    BY <1>2
  <2>2. obj' \in ClusterObjects /\ obj'.state = obj.state
    BY <2>1 DEF SetImage, IInv, TypeOK, ClusterObjects
  <2>3. userOps' \in 0..MaxUserOps
    BY <2>1, ConstantsAssumption DEF SetImage, IInv, TypeOK
  <2>4. TypeOK'
    BY <2>1, <2>2, <2>3 DEF SetImage, IInv, TypeOK
  <2>. QED
    BY <2>1, <2>2, <2>4 DEF SetImage, IInv, CacheCoherent, LegalStep
<1>3. CASE \E sig \in UserSignals : SetSignal(sig)
  <2>1. PICK sig \in UserSignals : SetSignal(sig)
    BY <1>3
  <2>2. sig \in {"trigger", "proceed", "cancel", "skip"}
    BY <2>1, ConstantsAssumption
  <2>3. obj' \in ClusterObjects /\ obj'.state = obj.state
    BY <2>1, <2>2 DEF SetSignal, IInv, TypeOK, ClusterObjects
  <2>4. userOps' \in 0..MaxUserOps
    BY <2>1, ConstantsAssumption DEF SetSignal, IInv, TypeOK
  <2>5. TypeOK'
    BY <2>1, <2>3, <2>4 DEF SetSignal, IInv, TypeOK
  <2>. QED
    BY <2>1, <2>3, <2>5 DEF SetSignal, IInv, CacheCoherent, LegalStep
<1>4. CASE \E g \in Groups : PodReadiness(g)
  BY <1>4, ConstantsAssumption DEF PodReadiness, IInv, TypeOK, CacheCoherent, LegalStep
<1>5. CASE ClusterAges
  BY <1>5 DEF ClusterAges, IInv, TypeOK, CacheCoherent, LegalStep
<1>. QED
  BY <1>1, <1>2, <1>3, <1>4, <1>5

(* The initial object is well typed and the cache holds it. *)
LEMMA InitIInv == Init => IInv
<1>. SUFFICES ASSUME Init PROVE IInv
  OBVIOUS
<1>1. obj \in ClusterObjects
  BY DEF Init, ClusterObjects, StateValues
<1>2. userOps \in 0..MaxUserOps
  <2>1. MaxUserOps \in Nat
    BY ConstantsAssumption
  <2>2. userOps = 0
    BY DEF Init
  <2>. QED
    BY <2>1, <2>2
<1>3. young \in BOOLEAN
  BY ConstantsAssumption DEF Init
<1>. QED
  BY <1>1, <1>2, <1>3 DEF Init, IInv, TypeOK, CacheCoherent

(* IInv is inductive, and every step of the system is a legal step. *)
LEMMA NextStep == IInv /\ [Next]_vars => IInv' /\ LegalStep
<1>. SUFFICES ASSUME IInv, [Next]_vars PROVE IInv' /\ LegalStep
  OBVIOUS
<1>1. CASE \E full \in BOOLEAN : Reconcile(full)
  BY <1>1, ReconcileStep
<1>2. CASE UNCHANGED vars
  BY <1>2 DEF vars, IInv, TypeOK, CacheCoherent, LegalStep
<1>. QED
  BY <1>1, <1>2, EnvironmentStep DEF Next

-----------------------------------------------------------------------------
(* Type correctness: every reachable state gives each variable the type   *)
(* the code gives it; in particular every write of a handler stores a      *)
(* state annotation the workflow knows and a report for a real image.      *)
THEOREM TypeCorrect == Spec => []TypeOK
<1>1. Init => IInv
  BY InitIInv
<1>2. IInv /\ [Next]_vars => IInv'
  BY NextStep
<1>3. IInv => TypeOK
  BY DEF IInv
<1>. QED
  BY <1>1, <1>2, <1>3, PTL DEF Spec

(* Whatever the staleness of the informer cache, the failures between the *)
(* writes of a reconcile and the edits of the user, the stored upgrade     *)
(* state only moves along the transition table: the resourceVersion check  *)
(* of Update makes every write of HandleUpgradeWorkflow land on the very   *)
(* object it was computed from.                                            *)
THEOREM LegalTransitionsHold == Spec => LegalTransitions
<1>1. Init => IInv
  BY InitIInv
<1>2. IInv /\ [Next]_vars => IInv'
  BY NextStep
<1>3. IInv /\ [Next]_vars => [obj'.state # obj.state =>
                               <<obj.state, obj'.state>> \in Transitions]_vars
  BY NextStep DEF LegalStep
<1>. QED
  BY <1>1, <1>2, <1>3, PTL DEF Spec, LegalTransitions

=============================================================================
