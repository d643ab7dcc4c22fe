-------------------------- MODULE MCPrecheckSummary --------------------------
(***************************************************************************)
(* The summary loop of generateMockPrecheckResults checked against a       *)
(* definition by counting, on every sequence of at most MaxChecks results  *)
(* with the statuses the report format allows, built one appended result  *)
(* at a time as the function builds its results slice.                    *)
(***************************************************************************)
EXTENDS PrecheckSummary

CONSTANT MaxChecks

VARIABLE results

(* The number of results with status st. *)
Occurrences(rs, st) == Cardinality({i \in 1..Len(rs) : rs[i] = st})

(* The summary as the spec defines it: canProceed iff no result is Fail. *)
ReferenceSummary(rs) ==
  [total |-> Len(rs), passed |-> Occurrences(rs, Pass),
   warnings |-> Occurrences(rs, Warn), failed |-> Occurrences(rs, Fail),
   canProceed |-> \A i \in 1..Len(rs) : rs[i] # Fail]

Init == results = <<>>

(* results = append(results, PrecheckResult{Status: st, ...}) *)
AppendResult ==
  /\ Len(results) < MaxChecks
  /\ \E st \in Statuses : results' = Append(results, st)

Spec == Init /\ [][AppendResult]_results

(* The summary stored in the report, and so the canProceed verdict the     *)
(* approval gate is meant to read, counts every status exactly and says   *)
(* "can proceed" exactly when no check failed (spec: canProceed is true   *)
(* iff no result has status Fail).                                        *)
SummaryCorrect == Summary(results) = ReferenceSummary(results)

=============================================================================
