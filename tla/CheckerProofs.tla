---------------------------- MODULE CheckerProofs -----------------------------
(***************************************************************************)
(* Proofs about checker.py's process_queries, for every config that        *)
(* satisfies QueryConfigAssumption, every set of rows and whether or not   *)
(* BigQuery may fail.                                                      *)
(***************************************************************************)
EXTENDS Checker, QueryConfigProofs

(* Every position the loops have left behind is reported: the row loop of  *)
(* a query runs to its end before the inner loop moves on.                 *)
ReportedBehind == \A s \in Slots : Earlier(s, cur) => Reported(s)

(* Inside the row loop of the current query, the rows it returned that are *)
(* no longer pending have had their script run.                            *)
RowLoop ==
  status = "rows" =>
    /\ cur \in Slots
    /\ pending \subseteq results[cur]
    /\ \A row \in results[cur] \ pending :
          \E r \in runs : r.at = cur /\ r.row = row /\ r.script = ScriptAt(cur)

(* Every script run was for a row of its position's query, through its     *)
(* check's script, and at a position behind the loops or, in the row loop, *)
(* at the current one: RunQuery never overwrites rows already reported.    *)
RunsSound ==
  \A r \in runs :
     /\ r.row \in results[r.at]
     /\ r.script = ScriptAt(r.at)
     /\ Earlier(r.at, cur) \/ (r.at = cur /\ status \in {"rows", "hung"})

(* process_queries returns only once the outer loop is past the last check. *)
ReturnedPastLast == status = "returned" => check > Len(Checks)

IInv == TypeOK /\ ReportedBehind /\ RowLoop /\ RunsSound /\ ReturnedPastLast

-----------------------------------------------------------------------------
LEMMA IInvInit == Init => IInv
<1> SUFFICES ASSUME Init PROVE IInv
  OBVIOUS
<1>1. TypeOK
  BY ConfigShape DEF Init, TypeOK
<1>2. ReportedBehind
  BY SlotIsPair DEF Init, ReportedBehind, cur, Earlier
<1>3. QED
  BY <1>1, <1>2 DEF Init, IInv, RowLoop, RunsSound, ReturnedPastLast

LEMMA IInvStep == IInv /\ [Next]_vars => IInv'
<1> SUFFICES ASSUME IInv, [Next]_vars PROVE IInv'
  OBVIOUS
<1> USE DEF IInv, TypeOK
<1>1. CASE RunQuery
  <2> DEFINE q == QueryAt(cur)
  <2>0. cur \in Slots /\ status = "query" /\ q \in DOMAIN QueryDef /\ ScriptAt(cur) \in Paths
    BY <1>1, SlotTypes DEF RunQuery
  <2>1. CASE /\ status' = "raised"
             /\ UNCHANGED <<table, check, query, results, pending, runs>>
    BY <2>0, <2>1 DEF ReportedBehind, Reported, RowLoop, RunsSound, ReturnedPastLast, cur
  <2>2. CASE /\ results' = [results EXCEPT ![cur] = table[q]]
             /\ pending' = table[q]
             /\ status' = "rows"
             /\ UNCHANGED <<table, check, query, runs>>
    <3>1. TypeOK'
      BY <2>0, <2>2 DEF cur
    <3>2. \A s \in Slots : Earlier(s, cur) => results'[s] = results[s]
      BY <2>0, <2>2, EarlierIrreflexive
    <3>3. ReportedBehind'
      BY <2>2, <3>2 DEF ReportedBehind, Reported, cur
    <3>4. RowLoop'
      BY <2>0, <2>2 DEF RowLoop, cur
    <3>5. RunsSound'
      <4>1. ASSUME NEW r \in runs PROVE Earlier(r.at, cur) /\ r.at \in Slots
        BY <2>0, <4>1 DEF RunsSound
      <4>2. QED
        BY <2>2, <3>2, <4>1 DEF RunsSound, cur
    <3>6. QED
      BY <2>2, <3>1, <3>3, <3>4, <3>5 DEF ReturnedPastLast
  <2>3. QED
    BY <1>1, <2>1, <2>2 DEF RunQuery
<1>2. CASE RunScript
  <2>0. status = "rows" /\ cur \in Slots /\ pending \subseteq results[cur]
    BY <1>2 DEF RunScript, RowLoop
  <2>1. CASE status' = "hung"
    <3>1. UNCHANGED <<table, check, query, results, pending, runs>> /\ cur' = cur
      BY <1>2, <2>1 DEF RunScript, cur
    <3>2. QED
      BY <2>0, <2>1, <3>1 DEF ReportedBehind, Reported, RowLoop, RunsSound, ReturnedPastLast
  <2>2. CASE status' # "hung"
    <3>1. PICK row \in pending :
            /\ runs' = runs \cup {[at |-> cur, row |-> row, script |-> ScriptAt(cur)]}
            /\ pending' = pending \ {row}
      BY <1>2, <2>2 DEF RunScript
    <3>2. UNCHANGED <<table, status, check, query, results>> /\ cur' = cur
      BY <1>2, <2>2 DEF RunScript, cur
    <3>3. TypeOK'
      BY <2>0, <3>1, <3>2, SlotTypes DEF cur
    <3>4. ReportedBehind'
      BY <3>1, <3>2 DEF ReportedBehind, Reported, cur
    <3>5. RowLoop'
      <4>1. pending' \subseteq results'[cur']
        BY <2>0, <3>1, <3>2 DEF cur
      <4>2. ASSUME NEW x \in results'[cur'] \ pending'
            PROVE  \E r \in runs' : r.at = cur' /\ r.row = x /\ r.script = ScriptAt(cur')
        <5>1. CASE x = row
          <6>1. [at |-> cur, row |-> row, script |-> ScriptAt(cur)] \in runs'
            BY <3>1
          <6>2. QED
            BY <3>2, <5>1, <6>1
        <5>2. CASE x # row
          <6>1. x \in results[cur] \ pending
            BY <3>1, <3>2, <4>2, <5>2 DEF cur
          <6>2. \E r \in runs : r.at = cur /\ r.row = x /\ r.script = ScriptAt(cur)
            BY <2>0, <6>1 DEF RowLoop
          <6>3. QED
            BY <3>1, <3>2, <6>2 DEF cur
        <5>3. QED
          BY <5>1, <5>2
      <4>3. QED
        BY <2>0, <3>2, <4>1, <4>2 DEF RowLoop, cur
    <3>6. RunsSound'
      BY <2>0, <3>1, <3>2 DEF RunsSound, cur
    <3>7. QED
      BY <3>2, <3>3, <3>4, <3>5, <3>6 DEF ReturnedPastLast
  <2>3. QED
    BY <2>1, <2>2
<1>3. CASE NextQuery
  <2>0. /\ status = "rows" /\ pending = {} /\ cur \in Slots
        /\ \A row \in results[cur] :
              \E r \in runs : r.at = cur /\ r.row = row /\ r.script = ScriptAt(cur)
    BY <1>3 DEF NextQuery, RowLoop
  <2>1. check \in Nat /\ query \in Nat
    BY ConfigShape
  <2>2. \A s \in Slots : Earlier(s, cur') <=> Earlier(s, cur) \/ s = cur
    BY <1>3, <2>1, EarlierNextQuery DEF NextQuery, cur
  <2>3. TypeOK'
    BY <1>3, <2>0, SlotIsPair DEF NextQuery, cur
  <2>4. ReportedBehind'
    BY <1>3, <2>0, <2>2 DEF NextQuery, ReportedBehind, Reported
  <2>5. RunsSound'
    BY <1>3, <2>2 DEF NextQuery, RunsSound
  <2>6. QED
    BY <1>3, <2>3, <2>4, <2>5 DEF NextQuery, RowLoop, ReturnedPastLast
<1>4. CASE NextCheck
  <2>0. check \in 1..Len(Checks) /\ query \in Nat /\ query > Len(Checks[check].Queries)
    BY <1>4 DEF NextCheck
  <2>1. \A s \in Slots : Earlier(s, cur') <=> Earlier(s, cur)
    BY <1>4, <2>0, EarlierNextCheck DEF NextCheck, cur
  <2>2. TypeOK'
    BY <1>4, ConfigShape DEF NextCheck
  <2>3. QED
    BY <1>4, <2>1, <2>2 DEF NextCheck, ReportedBehind, Reported, RowLoop, RunsSound,
                          ReturnedPastLast
<1>5. CASE Return
  BY <1>5 DEF Return, ReportedBehind, Reported, RowLoop, RunsSound, ReturnedPastLast, cur
<1>6. CASE TableChange
  <2>1. table' \in [DOMAIN QueryDef -> SUBSET Rows]
    BY <1>6 DEF TableChange
  <2>2. UNCHANGED <<status, check, query, results, pending, runs>> /\ cur' = cur
    BY <1>6 DEF TableChange, cur
  <2>3. QED
    BY <2>1, <2>2 DEF ReportedBehind, Reported, RowLoop, RunsSound, ReturnedPastLast
<1>7. CASE UNCHANGED vars
  <2>1. UNCHANGED <<table, status, check, query, results, pending, runs>> /\ cur' = cur
    BY <1>7 DEF vars, cur
  <2>2. QED
    BY <2>1 DEF ReportedBehind, Reported, RowLoop, RunsSound, ReturnedPastLast
<1>8. QED
  BY <1>1, <1>2, <1>3, <1>4, <1>5, <1>6, <1>7 DEF Next, Program

(* checker.py's state is always well typed: in particular the loops never  *)
(* step past the end of a check's Queries or past the last check.          *)
THEOREM CheckerTypeCorrect == Spec => []TypeOK
<1>1. IInv => TypeOK
  BY DEF IInv
<1>2. QED
  BY <1>1, IInvInit, IInvStep, PTL DEF Spec

(* When process_queries returns, the script of every check was run for     *)
(* every row each of its queries returned, and only for such rows, for     *)
(* every config, whatever the tables do while it runs.                     *)
THEOREM AllRowsReportedHolds == Spec => []AllRowsReported
<1>1. IInv => AllRowsReported
  <2> SUFFICES ASSUME IInv, status = "returned"
               PROVE  /\ \A s \in Slots : Reported(s)
                      /\ \A r \in runs : r.row \in results[r.at]
    BY DEF AllRowsReported
  <2>1. check \in Nat /\ check > Len(Checks)
    BY ConfigShape DEF IInv, TypeOK, ReturnedPastLast
  <2>2. \A s \in Slots : Earlier(s, cur)
    BY <2>1, EarlierPastLast DEF cur
  <2>3. QED
    BY <2>2 DEF IInv, ReportedBehind, RunsSound
<1>2. QED
  BY <1>1, IInvInit, IInvStep, PTL DEF Spec

(* When run_query raises out of process_queries, every row an earlier      *)
(* query returned has had its script run already.                          *)
THEOREM ReportedBeforeRaiseHolds == Spec => []ReportedBeforeRaise
<1>1. IInv => ReportedBeforeRaise
  BY DEF IInv, ReportedBehind, ReportedBeforeRaise
<1>2. QED
  BY <1>1, IInvInit, IInvStep, PTL DEF Spec
=============================================================================
