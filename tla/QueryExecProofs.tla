--------------------------- MODULE QueryExecProofs ----------------------------
(***************************************************************************)
(* Proofs about the polling daemon of setup/query_exec.py, for every       *)
(* config that satisfies QueryConfigAssumption, every set of rows and of   *)
(* quoted rows, and whether or not BigQuery and the scripts may fail.      *)
(***************************************************************************)
EXTENDS QueryExec, QueryConfigProofs

(* Every position the loops of this pass have left behind is alerted.      *)
AlertedBehind == \A s \in Slots : Earlier(s, cur) => Alerted(s)

(* Inside the row loop of the current query, the rows it returned that are *)
(* no longer pending have been alerted.                                    *)
RowLoop ==
  status = "rows" =>
    /\ cur \in Slots
    /\ pending \subseteq results[cur]
    /\ \A row \in results[cur] \ pending :
          \E a \in sent : a.at = cur /\ a.row = row /\ a.script = ScriptAt(cur)

(* Every alert of the pass was for a row of its position's query, through  *)
(* its check's script, at a position behind the loops or at the current    *)
(* one while (or when a hung script or SIGINT stopped) its row loop:       *)
(* RunQuery never overwrites rows already alerted in the same pass.        *)
SentSound ==
  \A a \in sent :
     /\ a.row \in results[a.at]
     /\ a.script = ScriptAt(a.at)
     /\ Earlier(a.at, cur) \/ (a.at = cur /\ status \in {"rows", "hung", "exited"})

(* The daemon sleeps only once the outer loop is past the last check.      *)
SleepingPastLast == status = "sleeping" => check > Len(Checks)

IInv == TypeOK /\ AlertedBehind /\ RowLoop /\ SentSound /\ SleepingPastLast

-----------------------------------------------------------------------------
(* The exit status of a script is a Boolean, and so is whether a row's     *)
(* fields stay one argument.                                               *)
LEMMA AlertFields ==
  /\ ScriptOutcomes \subseteq BOOLEAN
  /\ \A row \in Rows : Intact(row) \in BOOLEAN
BY DEF ScriptOutcomes, Intact

LEMMA IInvInit == Init => IInv
<1> SUFFICES ASSUME Init PROVE IInv
  OBVIOUS
<1>1. TypeOK
  BY ConfigShape DEF Init, TypeOK
<1>2. AlertedBehind
  BY SlotIsPair DEF Init, AlertedBehind, cur, Earlier
<1>3. QED
  BY <1>1, <1>2 DEF Init, IInv, RowLoop, SentSound, SleepingPastLast

LEMMA IInvStep == IInv /\ [Next]_vars => IInv'
<1> SUFFICES ASSUME IInv, [Next]_vars PROVE IInv'
  OBVIOUS
<1> USE DEF IInv, TypeOK
<1>1. CASE StartPass
  <2>0. status \in {"start", "sleeping"}
    BY <1>1 DEF StartPass
  <2>1. CASE /\ status' = "query"
             /\ check' = 1
             /\ query' = 1
             /\ results' = [s \in Slots |-> {}]
             /\ sent' = {}
             /\ UNCHANGED <<table, exit_cause, pending>>
    <3>1. cur' = <<1, 1>>
      BY <2>1 DEF cur
    <3>2. TypeOK'
      BY <2>1, ConfigShape
    <3>3. AlertedBehind'
      BY <2>1, <3>1 DEF AlertedBehind, Alerted
    <3>4. QED
      BY <2>1, <3>1, <3>2, <3>3 DEF RowLoop, SentSound, SleepingPastLast
  <2>2. CASE Exit("exception")
    <3>1. UNCHANGED <<table, check, query, results, pending, sent>> /\ cur' = cur
          /\ status' = "exited" /\ exit_cause' = "exception"
      BY <2>2 DEF Exit, cur
    <3>2. SentSound'
      <4>1. ASSUME NEW a \in sent PROVE Earlier(a.at, cur)
        BY <2>0, <4>1 DEF SentSound
      <4>2. QED
        BY <3>1, <4>1 DEF SentSound
    <3>3. QED
      BY <3>1, <3>2 DEF AlertedBehind, Alerted, RowLoop, SleepingPastLast
  <2>3. QED
    BY <1>1, <2>1, <2>2 DEF StartPass
<1>2. CASE RunQuery
  <2> DEFINE q == QueryAt(cur)
  <2>0. cur \in Slots /\ status = "query" /\ q \in DOMAIN QueryDef
    BY <1>2, SlotTypes DEF RunQuery
  <2>1. CASE Exit("exception")
    <3>1. UNCHANGED <<table, check, query, results, pending, sent>> /\ cur' = cur
          /\ status' = "exited" /\ exit_cause' = "exception"
      BY <2>1 DEF Exit, cur
    <3>2. QED
      BY <2>0, <3>1 DEF AlertedBehind, Alerted, RowLoop, SentSound, SleepingPastLast
  <2>2. CASE /\ results' = [results EXCEPT ![cur] = table[q]]
             /\ pending' = table[q]
             /\ status' = "rows"
             /\ UNCHANGED <<table, exit_cause, check, query, sent>>
    <3>0. cur' = cur
      BY <2>2 DEF cur
    <3>1. TypeOK'
      BY <2>0, <2>2 DEF cur
    <3>2. \A s \in Slots : Earlier(s, cur) => results'[s] = results[s]
      BY <2>0, <2>2, EarlierIrreflexive
    <3>3. AlertedBehind'
      BY <2>2, <3>0, <3>2 DEF AlertedBehind, Alerted
    <3>4. RowLoop'
      BY <2>0, <2>2, <3>0 DEF RowLoop
    <3>5. SentSound'
      <4>1. ASSUME NEW a \in sent PROVE Earlier(a.at, cur) /\ a.at \in Slots
        BY <2>0, <4>1 DEF SentSound, Alert
      <4>2. QED
        BY <2>2, <3>0, <3>2, <4>1 DEF SentSound
    <3>6. QED
      BY <2>2, <3>1, <3>3, <3>4, <3>5 DEF SleepingPastLast
  <2>3. QED
    BY <1>2, <2>1, <2>2 DEF RunQuery
<1>3. CASE SendAlert
  <2>0. status = "rows" /\ cur \in Slots /\ pending \subseteq results[cur]
    BY <1>3 DEF SendAlert, RowLoop
  <2>1. CASE status' = "hung"
    <3>1. UNCHANGED <<table, exit_cause, check, query, results, pending, sent>> /\ cur' = cur
      BY <1>3, <2>1 DEF SendAlert, cur
    <3>2. QED
      BY <2>0, <2>1, <3>1 DEF AlertedBehind, Alerted, RowLoop, SentSound, SleepingPastLast
  <2>2. CASE status' # "hung"
    <3>1. PICK row \in pending :
            /\ \E ok \in ScriptOutcomes :
                  sent' = sent \cup {[at |-> cur, row |-> row, script |-> ScriptAt(cur),
                                      intact |-> Intact(row), ok |-> ok]}
            /\ pending' = pending \ {row}
      BY <1>3, <2>2 DEF SendAlert
    <3>2. PICK ok \in ScriptOutcomes :
            sent' = sent \cup {[at |-> cur, row |-> row, script |-> ScriptAt(cur),
                                intact |-> Intact(row), ok |-> ok]}
      BY <3>1
    <3> DEFINE new == [at |-> cur, row |-> row, script |-> ScriptAt(cur),
                       intact |-> Intact(row), ok |-> ok]
    <3>3. UNCHANGED <<table, status, exit_cause, check, query, results>> /\ cur' = cur
      BY <1>3, <2>2 DEF SendAlert, cur
    <3>4. TypeOK'
      <4>1. new \in Alert
        BY <2>0, <3>2, SlotTypes, AlertFields DEF Alert
      <4>2. QED
        BY <2>0, <3>1, <3>2, <3>3, <4>1
    <3>5. AlertedBehind'
      BY <3>2, <3>3 DEF AlertedBehind, Alerted
    <3>6. RowLoop'
      <4>1. pending' \subseteq results'[cur']
        BY <2>0, <3>1, <3>3
      <4>2. ASSUME NEW x \in results'[cur'] \ pending'
            PROVE  \E a \in sent' : a.at = cur' /\ a.row = x /\ a.script = ScriptAt(cur')
        <5>1. CASE x = row
          <6>1. new \in sent'
            BY <3>2
          <6>2. QED
            BY <3>3, <5>1, <6>1
        <5>2. CASE x # row
          <6>1. x \in results[cur] \ pending
            BY <3>1, <3>3, <4>2, <5>2
          <6>2. \E a \in sent : a.at = cur /\ a.row = x /\ a.script = ScriptAt(cur)
            BY <2>0, <6>1 DEF RowLoop
          <6>3. QED
            BY <3>2, <3>3, <6>2
        <5>3. QED
          BY <5>1, <5>2
      <4>3. QED
        BY <2>0, <3>3, <4>1, <4>2 DEF RowLoop
    <3>7. SentSound'
      BY <2>0, <3>2, <3>3 DEF SentSound
    <3>8. QED
      BY <3>3, <3>4, <3>5, <3>6, <3>7 DEF SleepingPastLast
  <2>3. QED
    BY <2>1, <2>2
<1>4. CASE NextQuery
  <2>0. /\ status = "rows" /\ pending = {} /\ cur \in Slots
        /\ \A row \in results[cur] :
              \E a \in sent : a.at = cur /\ a.row = row /\ a.script = ScriptAt(cur)
    BY <1>4 DEF NextQuery, RowLoop
  <2>1. check \in Nat /\ query \in Nat
    BY ConfigShape
  <2>2. \A s \in Slots : Earlier(s, cur') <=> Earlier(s, cur) \/ s = cur
    BY <1>4, <2>1, EarlierNextQuery DEF NextQuery, cur
  <2>3. TypeOK'
    BY <1>4, <2>0, SlotIsPair DEF NextQuery, cur
  <2>4. AlertedBehind'
    BY <1>4, <2>0, <2>2 DEF NextQuery, AlertedBehind, Alerted
  <2>5. SentSound'
    BY <1>4, <2>2 DEF NextQuery, SentSound, Alert
  <2>6. QED
    BY <1>4, <2>3, <2>4, <2>5 DEF NextQuery, RowLoop, SleepingPastLast
<1>5. CASE NextCheck
  <2>0. check \in 1..Len(Checks) /\ query \in Nat /\ query > Len(Checks[check].Queries)
    BY <1>5 DEF NextCheck
  <2>1. \A s \in Slots : Earlier(s, cur') <=> Earlier(s, cur)
    BY <1>5, <2>0, EarlierNextCheck DEF NextCheck, cur
  <2>2. TypeOK'
    BY <1>5, ConfigShape DEF NextCheck
  <2>3. SentSound'
    BY <1>5, <2>1 DEF NextCheck, SentSound, Alert
  <2>4. QED
    BY <1>5, <2>1, <2>2, <2>3 DEF NextCheck, AlertedBehind, Alerted, RowLoop,
                                SleepingPastLast
<1>6. CASE EndPass
  <2>1. UNCHANGED <<table, exit_cause, check, query, results, pending, sent>> /\ cur' = cur
    BY <1>6 DEF EndPass, cur
  <2>2. QED
    BY <1>6, <2>1 DEF EndPass, AlertedBehind, Alerted, RowLoop, SentSound, SleepingPastLast
<1>7. CASE Interrupt
  <2>1. UNCHANGED <<table, check, query, results, pending, sent>> /\ cur' = cur
        /\ status' = "exited" /\ exit_cause' = "SIGINT"
    BY <1>7 DEF Interrupt, Exit, cur
  <2>2. QED
    BY <2>1 DEF AlertedBehind, Alerted, RowLoop, SentSound, SleepingPastLast
<1>8. CASE TableChange
  <2>1. table' \in [DOMAIN QueryDef -> SUBSET Rows]
    BY <1>8 DEF TableChange
  <2>2. UNCHANGED <<status, exit_cause, check, query, results, pending, sent>> /\ cur' = cur
    BY <1>8 DEF TableChange, cur
  <2>3. QED
    BY <2>1, <2>2 DEF AlertedBehind, Alerted, RowLoop, SentSound, SleepingPastLast
<1>9. CASE UNCHANGED vars
  <2>1. UNCHANGED <<table, status, exit_cause, check, query, results, pending, sent>>
        /\ cur' = cur
    BY <1>9 DEF vars, cur
  <2>2. QED
    BY <2>1 DEF AlertedBehind, Alerted, RowLoop, SentSound, SleepingPastLast
<1>10. QED
  BY <1>1, <1>2, <1>3, <1>4, <1>5, <1>6, <1>7, <1>8, <1>9 DEF Next, Daemon

(* The daemon's state is always well typed, across any number of passes:   *)
(* the loops never step past the end of a check's Queries or of Checks.    *)
THEOREM QueryExecTypeCorrect == Spec => []TypeOK
<1>1. IInv => TypeOK
  BY DEF IInv
<1>2. QED
  BY <1>1, IInvInit, IInvStep, PTL DEF Spec

(* Whenever the daemon sleeps between passes, the pass just finished sent  *)
(* an alert, through the query's own check's script, for every row every   *)
(* query returned in it, and no alert for anything else.                   *)
THEOREM PassCompleteHolds == Spec => []PassComplete
<1>1. IInv => PassComplete
  <2> SUFFICES ASSUME IInv, status = "sleeping"
               PROVE  /\ \A s \in Slots : Alerted(s)
                      /\ \A a \in sent : a.row \in results[a.at]
    BY DEF PassComplete
  <2>1. check \in Nat /\ check > Len(Checks)
    BY ConfigShape DEF IInv, TypeOK, SleepingPastLast
  <2>2. \A s \in Slots : Earlier(s, cur)
    BY <2>1, EarlierPastLast DEF cur
  <2>3. QED
    BY <2>2 DEF IInv, AlertedBehind, SentSound
<1>2. QED
  BY <1>1, IInvInit, IInvStep, PTL DEF Spec

(* When an uncaught exception ends the daemon, every row that an earlier   *)
(* query of the same pass returned has been alerted already.               *)
THEOREM AlertsBeforeCrashHolds == Spec => []AlertsBeforeCrash
<1>1. IInv => AlertsBeforeCrash
  BY DEF IInv, AlertedBehind, AlertsBeforeCrash
<1>2. QED
  BY <1>1, IInvInit, IInvStep, PTL DEF Spec
=============================================================================
