--------------------------- MODULE PrecheckSummary ---------------------------
(***************************************************************************)
(* The precheck report of PrecheckHandler (precheck_handler.go): the       *)
(* statuses of the checks generateMockPrecheckResults appends, in order,   *)
(* and the summary its loop computes from them.  Names, messages, details, *)
(* timestamps and durations are left out: no decision reads them.          *)
(***************************************************************************)
EXTENDS Naturals, Sequences, FiniteSets

(* PrecheckResult.Status values. *)
Pass == "PASS"
Warn == "WARN"
Fail == "FAIL"

Statuses == {Pass, Warn, Fail}

(* generateMockPrecheckResults: image validation, cluster health, database *)
(* connectivity, forest health (WARN unless skip-forest-check=true),       *)
(* resource availability, backup status (WARN), license, network.          *)
MockStatuses(skipForestCheck) ==
  <<Pass, Pass, Pass, IF skipForestCheck THEN Pass ELSE Warn,
    Pass, Warn, Pass, Pass>>

(* The counters of the summary before the loop. *)
NoCounts == [passed |-> 0, warnings |-> 0, failed |-> 0]

(* Seeded fault: FAIL falls into the WARN case of the switch. *)
CountFailAsWarn(cnt, st) ==
  [cnt EXCEPT !.passed   = @ + (IF st = Pass THEN 1 ELSE 0),
              !.warnings = @ + (IF st \in {Warn, Fail} THEN 1 ELSE 0)]

(* One iteration of the loop: the switch on result.Status.  A status other *)
(* than the three is counted in no bucket.                                 *)
Count(cnt, st) ==
  [cnt EXCEPT !.passed   = @ + (IF st = Pass THEN 1 ELSE 0),
              !.warnings = @ + (IF st = Warn THEN 1 ELSE 0),
              !.failed   = @ + (IF st = Fail THEN 1 ELSE 0)]

(* The counters after the loop has gone over the first n results. *)
Tally(rs) ==
  LET t[n \in 0..Len(rs)] == IF n = 0 THEN NoCounts ELSE Count(t[n - 1], rs[n])
  IN  t[Len(rs)]

(* The PrecheckSummary of a sequence of statuses; canProceed := failed == 0. *)
Summary(rs) ==
  LET cnt == Tally(rs) IN
  [total |-> Len(rs), passed |-> cnt.passed, warnings |-> cnt.warnings,
   failed |-> cnt.failed, canProceed |-> cnt.failed = 0]

=============================================================================
