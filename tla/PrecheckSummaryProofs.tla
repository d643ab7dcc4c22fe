------------------------- MODULE PrecheckSummaryProofs -------------------------
(***************************************************************************)
(* Facts about the precheck summary of PrecheckSummary.                   *)
(*                                                                         *)
(* The summary loop of generateMockPrecheckResults runs over the eight     *)
(* results the mock appends.  Tally is a recursive function over the      *)
(* prefixes of the results; for the mock's results it is unrolled here   *)
(* result by result, as the loop runs, and its counters are computed.      *)
(***************************************************************************)
EXTENDS PrecheckSummary, TLAPS

(* The counter records of the loop. *)
CountRecs == [passed : Nat, warnings : Nat, failed : Nat]

(* On a counter record, the EXCEPT of one turn of the loop is the record   *)
(* whose counters are each raised by one when the status is theirs.        *)
LEMMA CountRecord ==
  ASSUME NEW cnt \in CountRecs, NEW st
  PROVE  Count(cnt, st) =
           [passed   |-> cnt.passed + (IF st = Pass THEN 1 ELSE 0),
            warnings |-> cnt.warnings + (IF st = Warn THEN 1 ELSE 0),
            failed   |-> cnt.failed + (IF st = Fail THEN 1 ELSE 0)]
<1>. DEFINE a == IF st = Pass THEN 1 ELSE 0
            b == IF st = Warn THEN 1 ELSE 0
            d == IF st = Fail THEN 1 ELSE 0
<1>1. cnt = [passed |-> cnt.passed, warnings |-> cnt.warnings,
             failed |-> cnt.failed]
  BY DEF CountRecs
<1>2. Count(cnt, st) = [[[cnt EXCEPT !.passed = cnt.passed + a]
                           EXCEPT !.warnings = cnt.warnings + b]
                           EXCEPT !.failed = cnt.failed + d]
  BY DEF Count, CountRecs
<1>. QED
  BY <1>1, <1>2

(* One turn of the loop keeps the counters natural and adds a failure     *)
(* exactly on a FAIL result.                                               *)
LEMMA CountStep ==
  ASSUME NEW cnt \in CountRecs, NEW st
  PROVE  /\ Count(cnt, st) \in CountRecs
         /\ Count(cnt, st).failed = cnt.failed + (IF st = Fail THEN 1 ELSE 0)
BY CountRecord DEF CountRecs

(* The results of the mock: eight of them, none a FAIL. *)
LEMMA MockStatusesNoFail ==
  ASSUME NEW skip \in BOOLEAN
  PROVE  /\ MockStatuses(skip) \in Seq(Statuses)
         /\ Len(MockStatuses(skip)) = 8
         /\ \A i \in 1..8 : MockStatuses(skip)[i] # Fail
BY DEF MockStatuses, Statuses, Pass, Warn, Fail

(* For results without a FAIL, every function that satisfies the          *)
(* recursion of Tally on 0..8 counts no failure at 8.                      *)
LEMMA NoFailUnrolled ==
  ASSUME NEW rs, \A i \in 1..8 : rs[i] # Fail,
         NEW f,
         f = [n \in 0..8 |-> IF n = 0 THEN NoCounts ELSE Count(f[n - 1], rs[n])]
  PROVE  f[8] \in CountRecs /\ f[8].failed = 0
<1>0. f[0] \in CountRecs /\ f[0].failed = 0
  BY DEF NoCounts, CountRecs
<1>. DEFINE P(n) == f[n] \in CountRecs /\ f[n].failed = 0
<1>1. ASSUME NEW n \in 1..8, P(n - 1) PROVE P(n)
  <2>1. f[n] = Count(f[n - 1], rs[n])
    OBVIOUS
  <2>. QED
    BY <1>1, <2>1, CountStep
<1>2. P(1) BY <1>0, <1>1
<1>3. P(2) BY <1>2, <1>1
<1>4. P(3) BY <1>3, <1>1
<1>5. P(4) BY <1>4, <1>1
<1>6. P(5) BY <1>5, <1>1
<1>7. P(6) BY <1>6, <1>1
<1>8. P(7) BY <1>7, <1>1
<1>. QED
  BY <1>8, <1>1

(* The summary of the mock's results allows the upgrade to proceed,       *)
(* with or without skip-forest-check: no mock check returns FAIL.          *)
LEMMA MockCanProceed ==
  ASSUME NEW skip \in BOOLEAN
  PROVE  Summary(MockStatuses(skip)).canProceed
<1>. DEFINE rs == MockStatuses(skip)
            Rec(f) == [n \in 0..8 |-> IF n = 0 THEN NoCounts
                                      ELSE Count(f[n - 1], rs[n])]
            wn(n) == (IF n >= 4 /\ ~skip THEN 1 ELSE 0) + (IF n >= 6 THEN 1 ELSE 0)
            W == [n \in 0..8 |-> [passed |-> n - wn(n), warnings |-> wn(n),
                                  failed |-> 0]]
<1>1. Len(rs) = 8 /\ \A i \in 1..8 : rs[i] # Fail
  BY MockStatusesNoFail
<1>2. W = Rec(W)
  <2>1. ASSUME NEW n \in 1..8 PROVE W[n] = Count(W[n - 1], rs[n])
    <3>1. W[n - 1] \in CountRecs
      BY DEF CountRecs
    <3>. QED
      BY <3>1, CountRecord DEF MockStatuses, Pass, Warn, Fail
  <2>2. W[0] = NoCounts
    BY DEF NoCounts
  <2>. QED
    BY <2>1, <2>2
<1>3. \A f : f = Rec(f) => f[8].failed = 0
  BY <1>1, NoFailUnrolled
<1>4. Tally(rs).failed = 0
  BY <1>1, <1>2, <1>3 DEF Tally
<1>. QED
  BY <1>4 DEF Summary

=============================================================================
