------------------------ MODULE MCPrecheckSummaryProofs ------------------------
(***************************************************************************)
(* Proof that the summary loop of generateMockPrecheckResults counts every *)
(* status exactly (SummaryCorrect), for results of any length.             *)
(*                                                                         *)
(* Tally is a recursive function over the prefixes of the results, which   *)
(* the provers cannot reason about by induction over sequences.  The       *)
(* induction is done instead over the behaviours of MCPrecheckSummary,     *)
(* which builds every sequence of results one Append at a time: the        *)
(* invariant says that a function satisfying the recursion of Tally        *)
(* exists for the current results, and that every such function ends      *)
(* with the counts of each status.                                         *)
(***************************************************************************)
EXTENDS MCPrecheckSummary, PrecheckSummaryProofs, FiniteSetTheorems

(* f satisfies the recursion of Tally over the results rs. *)
IsTally(rs, f) ==
  f = [n \in 0..Len(rs) |-> IF n = 0 THEN NoCounts ELSE Count(f[n - 1], rs[n])]

(* The counts of each status in rs. *)
RefCounts(rs) ==
  [passed |-> Occurrences(rs, Pass), warnings |-> Occurrences(rs, Warn),
   failed |-> Occurrences(rs, Fail)]

(* The positions of rs that hold the status st. *)
Positions(rs, st) == {i \in 1..Len(rs) : rs[i] = st}

(* The inductive invariant. *)
SInv ==
  /\ results \in Seq(Statuses)
  /\ \E f : IsTally(results, f)
  /\ \A f : IsTally(results, f) => f[Len(results)] = RefCounts(results)

-----------------------------------------------------------------------------
(* The positions of a status are a finite set. *)
LEMMA PositionsFinite ==
  ASSUME NEW rs \in Seq(Statuses), NEW st
  PROVE  IsFiniteSet(Positions(rs, st))
<1>1. IsFiniteSet(1..Len(rs))
  BY FS_Interval
<1>. QED
  BY <1>1, FS_Subset DEF Positions

(* Appending a result adds one occurrence of its status and none of the   *)
(* others.                                                                  *)
LEMMA OccurrencesAppend ==
  ASSUME NEW rs \in Seq(Statuses), NEW x, NEW st
  PROVE  Occurrences(Append(rs, x), st) =
           Occurrences(rs, st) + (IF x = st THEN 1 ELSE 0)
<1>. DEFINE S == Positions(rs, st)
            L == Len(rs) + 1
<1>1. IsFiniteSet(S) /\ Cardinality(S) \in Nat
  BY PositionsFinite, FS_CardinalityType
<1>2. L \notin S
  BY DEF Positions
<1>3. CASE x = st
  <2>1. Positions(Append(rs, x), st) = S \cup {L}
    BY <1>3 DEF Positions
  <2>2. Cardinality(S \cup {L}) = Cardinality(S) + 1
    BY <1>1, <1>2, FS_AddElement
  <2>. QED
    BY <1>3, <2>1, <2>2 DEF Occurrences, Positions
<1>4. CASE x # st
  <2>1. Positions(Append(rs, x), st) = S
    BY <1>4 DEF Positions
  <2>2. Occurrences(Append(rs, x), st) = Cardinality(S)
    BY <2>1 DEF Occurrences, Positions
  <2>3. Occurrences(rs, st) = Cardinality(S)
    BY DEF Occurrences, Positions
  <2>. QED
    BY <1>1, <1>4, <2>2, <2>3
<1>. QED
  BY <1>3, <1>4

(* One turn of the loop on the counts of rs gives the counts of rs with   *)
(* the result appended.                                                     *)
LEMMA CountRefCounts ==
  ASSUME NEW rs \in Seq(Statuses), NEW x \in Statuses
  PROVE  Count(RefCounts(rs), x) = RefCounts(Append(rs, x))
<1>1. RefCounts(rs) \in CountRecs
  BY PositionsFinite, FS_CardinalityType DEF RefCounts, Occurrences, Positions,
                                             CountRecs
<1>. QED
  BY <1>1, CountRecord, OccurrencesAppend DEF RefCounts

(* A function satisfying the recursion for rs extends to one for rs with  *)
(* a result appended.                                                       *)
LEMMA TallyExtends ==
  ASSUME NEW rs \in Seq(Statuses), NEW x, NEW f, IsTally(rs, f)
  PROVE  IsTally(Append(rs, x),
                 [n \in 0..Len(rs) + 1 |->
                    IF n <= Len(rs) THEN f[n] ELSE Count(f[Len(rs)], x)])
BY DEF IsTally

(* A function satisfying the recursion for rs with a result appended is,  *)
(* below the last position, one for rs, and its last turn counts x.        *)
LEMMA TallyRestricts ==
  ASSUME NEW rs \in Seq(Statuses), NEW x, NEW g, IsTally(Append(rs, x), g)
  PROVE  /\ IsTally(rs, [n \in 0..Len(rs) |-> g[n]])
         /\ g[Len(rs) + 1] = Count(g[Len(rs)], x)
BY DEF IsTally

-----------------------------------------------------------------------------
(* The empty results: the recursion has a solution, and it counts nothing. *)
LEMMA InitSInv == Init => SInv
<1>. SUFFICES ASSUME Init PROVE SInv
  OBVIOUS
<1>1. IsTally(results, [n \in 0..0 |-> NoCounts])
  BY DEF Init, IsTally
<1>2. ASSUME NEW st PROVE Occurrences(results, st) = 0
  <2>1. {i \in 1..Len(results) : results[i] = st} = {}
    BY DEF Init
  <2>. QED
    BY <2>1, FS_EmptySet DEF Occurrences
<1>3. ASSUME NEW f, IsTally(results, f)
      PROVE  f[Len(results)] = RefCounts(results)
  BY <1>2, <1>3 DEF Init, IsTally, NoCounts, RefCounts
<1>. QED
  BY <1>1, <1>3 DEF Init, SInv

(* Appending a result keeps the invariant. *)
LEMMA AppendSInv == SInv /\ [AppendResult]_results => SInv'
<1>. SUFFICES ASSUME SInv, [AppendResult]_results PROVE SInv'
  OBVIOUS
<1>1. CASE UNCHANGED results
  BY <1>1 DEF SInv
<1>2. CASE AppendResult
  <2>1. PICK st \in Statuses : results' = Append(results, st)
    BY <1>2 DEF AppendResult
  <2>2. results \in Seq(Statuses) /\ results' \in Seq(Statuses)
    BY <2>1 DEF SInv
  <2>3. PICK f : IsTally(results, f)
    BY DEF SInv
  <2>4. \E g : IsTally(results', g)
    BY <2>1, <2>2, <2>3, TallyExtends
  <2>5. ASSUME NEW g, IsTally(results', g)
        PROVE  g[Len(results')] = RefCounts(results')
    <3>. DEFINE h == [n \in 0..Len(results) |-> g[n]]
    <3>1. IsTally(results, h) /\ g[Len(results) + 1] = Count(g[Len(results)], st)
      BY <2>1, <2>2, <2>5, TallyRestricts
    <3>2. h[Len(results)] = RefCounts(results)
      BY <3>1 DEF SInv
    <3>3. g[Len(results)] = RefCounts(results)
      BY <2>2, <3>2
    <3>4. Count(RefCounts(results), st) = RefCounts(results')
      BY <2>1, <2>2, CountRefCounts
    <3>. QED
      BY <2>1, <2>2, <3>1, <3>3, <3>4
  <2>. QED
    BY <2>2, <2>4, <2>5 DEF SInv
<1>. QED
  BY <1>1, <1>2

(* The invariant gives the summary the reference defines. *)
LEMMA SInvCorrect == SInv => SummaryCorrect
<1>. SUFFICES ASSUME SInv PROVE SummaryCorrect
  OBVIOUS
<1>1. Tally(results) = RefCounts(results)
  BY DEF SInv, IsTally, Tally
<1>2. (Occurrences(results, Fail) = 0) <=> \A i \in 1..Len(results) : results[i] # Fail
  <2>1. IsFiniteSet(Positions(results, Fail))
    BY PositionsFinite DEF SInv
  <2>2. Cardinality(Positions(results, Fail)) = 0 <=> Positions(results, Fail) = {}
    BY <2>1, FS_EmptySet
  <2>. QED
    BY <2>2 DEF Occurrences, Positions
<1>3. Summary(results) =
        [total |-> Len(results), passed |-> Occurrences(results, Pass),
         warnings |-> Occurrences(results, Warn),
         failed |-> Occurrences(results, Fail),
         canProceed |-> Occurrences(results, Fail) = 0]
  BY <1>1 DEF Summary, RefCounts
<1>4. (Occurrences(results, Fail) = 0) = \A i \in 1..Len(results) : results[i] # Fail
  BY <1>2, Zenon
<1>. QED
  BY <1>3, <1>4, Zenon DEF SummaryCorrect, ReferenceSummary

-----------------------------------------------------------------------------
(* For results of every length, the summary loop of                        *)
(* generateMockPrecheckResults counts each status exactly, and canProceed  *)
(* is true exactly when no result is FAIL: the PrecheckSummary stored in    *)
(* the report agrees with the definition by counting.                       *)
THEOREM SummaryCorrectHolds == Spec => []SummaryCorrect
<1>1. Init => SInv
  BY InitSInv
<1>2. SInv /\ [AppendResult]_results => SInv'
  BY AppendSInv
<1>3. SInv => SummaryCorrect
  BY SInvCorrect
<1>. QED
  BY <1>1, <1>2, <1>3, PTL DEF Spec

=============================================================================
