-------------------------- MODULE MCUpgradeWorkflow --------------------------
(* Model-checking instance of UpgradeWorkflow: images, groups and sentinels  *)
(* are model values given in the .cfg files.                                *)
EXTENDS UpgradeWorkflow, TLC

(* The groups are interchangeable. *)
GroupSymmetry == Permutations(Groups)

=============================================================================
