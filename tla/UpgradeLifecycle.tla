--------------------------- MODULE UpgradeLifecycle ---------------------------
(***************************************************************************)
(* What the upgrade workflow promises the user who drives it with          *)
(* annotations: the stored state annotation, the trigger, proceed and      *)
(* cancel signals, spec.image and status.currentImage.  Each step is one   *)
(* change of the stored object.  The workflow moves the state only on the  *)
(* signals stored at that moment, removes a signal only when it ends an    *)
(* attempt, and records the current image only as a baseline, while a     *)
(* rollout is in progress, or when it completes.  How the controller reads *)
(* the object (a cache), how many writes a step takes and the StatefulSets *)
(* are not part of this view.                                              *)
(***************************************************************************)
CONSTANTS Images, NoImage

VARIABLES state, trigger, proceed, cancel, image, current

avars == <<state, trigger, proceed, cancel, image, current>>

Idle       == {"", "Idle"}
Terminal   == {"UpgradeCompleted", "UpgradeFailed", "UpgradeCancelled"}

(* spec.image differs from a recorded current image. *)
Drift == current # NoImage /\ current # image

(* End of an attempt: the state is set and the three signals removed. *)
EndAttempt(final) ==
  /\ state' = final
  /\ trigger' = FALSE /\ proceed' = FALSE /\ cancel' = FALSE

(* The user (or the automatic trigger) sets a signal. *)
Signal ==
  \/ trigger' = TRUE /\ UNCHANGED <<state, proceed, cancel, image, current>>
  \/ proceed' = TRUE /\ UNCHANGED <<state, trigger, cancel, image, current>>
  \/ cancel' = TRUE  /\ UNCHANGED <<state, trigger, proceed, image, current>>

(* The user edits spec.image. *)
ChangeImage ==
  /\ image' \in Images
  /\ UNCHANGED <<state, trigger, proceed, cancel, current>>

(* A cluster with no current image records spec.image as its baseline. *)
RecordBaseline ==
  /\ state \in Idle /\ current = NoImage
  /\ current' = image
  /\ UNCHANGED <<state, trigger, proceed, cancel, image>>

(* An attempt starts when triggered, by the signal or by an image change. *)
Start ==
  /\ state \in Idle /\ ~cancel
  /\ trigger \/ Drift
  /\ state' = "PrecheckStarted" /\ trigger' = TRUE
  /\ UNCHANGED <<proceed, cancel, image, current>>

(* The attempt moves one step forward, unless a cancel is pending. *)
Advance(from, to) ==
  /\ state = from /\ ~cancel
  /\ state' = to
  /\ UNCHANGED <<trigger, proceed, cancel, image, current>>

(* The rollout starts only once the user has approved it. *)
Approve ==
  /\ proceed
  /\ Advance("WaitingForUserApproval", "UpgradeInProgress")

(* While the rollout is in progress, spec.image is recorded as current. *)
RecordImage ==
  /\ state = "UpgradeInProgress" /\ ~cancel
  /\ current' = image
  /\ UNCHANGED <<state, trigger, proceed, cancel, image>>

(* The rollout completes, having recorded spec.image as current or not. *)
Finish ==
  /\ state = "UpgradeInProgress" /\ ~cancel
  /\ EndAttempt("UpgradeCompleted")
  /\ current' \in {current, image}
  /\ UNCHANGED image

(* A pending cancel ends any attempt but one whose rollout is in progress. *)
Cancel ==
  /\ cancel /\ state # "UpgradeInProgress"
  /\ state \in Idle => trigger \/ Drift
  /\ EndAttempt("UpgradeCancelled")
  /\ UNCHANGED <<image, current>>

(* A finished attempt is reset to Idle. *)
Reset ==
  /\ state \in Terminal /\ ~cancel
  /\ EndAttempt("Idle")
  /\ UNCHANGED <<image, current>>

Init ==
  /\ state = "" /\ trigger = FALSE /\ proceed = FALSE /\ cancel = FALSE
  /\ image \in Images /\ current = NoImage

Next ==
  \/ Signal \/ ChangeImage \/ RecordBaseline \/ Start
  \/ Advance("PrecheckStarted", "PrecheckCompleted")
  \/ Advance("PrecheckCompleted", "WaitingForUserApproval")
  \/ Approve \/ RecordImage \/ Finish \/ Cancel \/ Reset

Spec == Init /\ [][Next]_avars

=============================================================================
