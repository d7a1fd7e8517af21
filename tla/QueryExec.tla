----------------------------- MODULE QueryExec ------------------------------
(***************************************************************************)
(* op-eventer/setup/query_exec.py: the polling daemon.  Every pass re-reads *)
(* the YAML config, and for each check and each of its queries fills the   *)
(* query template with its parameter set (Template.safe_substitute), runs  *)
(* it on BigQuery and calls send_alert -- `bash <Path> '<Source>'          *)
(* 'Query=..,Priority=..,<fields> metric=1'` with shell=True -- once per   *)
(* result row; then it sleeps 10 seconds.  No exception is caught: one     *)
(* ends the daemon.  SIGINT exits it at any point.                         *)
(*                                                                         *)
(* Data is abstracted to what the properties tell apart: a template is the *)
(* set of its $placeholders, a parameter set the set of names it defines,  *)
(* a row one of a few values of which some contain a single quote.         *)
(***************************************************************************)
EXTENDS QueryConfig

CONSTANTS
  Rows,             \* the row values a query can return
  QuotedRows,       \* the rows whose field values contain a single quote
  BigQueryMayFail,  \* whether client.query(...).result() may raise
  ScriptMayFail,    \* whether an alert script may exit with an error
  ScriptMayHang,    \* whether an alert script may never exit
  ConfigMayFail     \* whether reloading the YAML config may raise

ASSUME QueryExecAssumption ==
  /\ QuotedRows \subseteq Rows
  /\ BigQueryMayFail \in BOOLEAN
  /\ ScriptMayFail \in BOOLEAN
  /\ ScriptMayHang \in BOOLEAN
  /\ ConfigMayFail \in BOOLEAN

VARIABLES
  table,       \* per query name: the rows BigQuery would return now
  status,      \* "start", "query", "rows", "sleeping", "hung", "exited"
  exit_cause,  \* "none", "exception" or "SIGINT"
  check,       \* the index in Checks of the check being processed
  query,       \* the index in its Queries of the query being processed
  results,     \* per position: the rows its query returned in this pass
  pending,     \* the rows of the current query not yet alerted
  sent         \* the alerts of this pass: position, row, whether intact

vars == <<table, status, exit_cause, check, query, results, pending, sent>>

(* The position of the two loops.                                          *)
cur == <<check, query>>

(* send_alert: f"bash {script_path} '{source}' 'Query=..,{fields} metric=1'" *)
(* with shell=True; the fields reach the script as one argument only when  *)
(* no value holds a single quote.                                          *)
Intact(row) == row \notin QuotedRows

Alert == [at : Slots, row : Rows, script : Paths,
          intact : BOOLEAN, ok : BOOLEAN]

(* The exit status of `bash <Path> ...`: the script may fail (its alerting *)
(* endpoint is down, say).  subprocess.run returns it and nobody reads it. *)
ScriptOutcomes == IF ScriptMayFail THEN BOOLEAN ELSE {TRUE}

-----------------------------------------------------------------------------
Init ==
  /\ table \in [DOMAIN QueryDef -> SUBSET Rows]
  /\ status = "start"
  /\ exit_cause = "none"
  /\ check = 1
  /\ query = 1
  /\ results = [s \in Slots |-> {}]
  /\ pending = {}
  /\ sent = {}

Exit(c) ==
  /\ status' = "exited"
  /\ exit_cause' = c
  /\ UNCHANGED <<table, check, query, results, pending, sent>>

(* while True: open and yaml.safe_load the config and enter               *)
(* process_queries; a missing file, a YAML error or a missing key raises   *)
(* out of the loop like any other exception.                               *)
StartPass ==
  /\ status \in {"start", "sleeping"}
  /\ \/ /\ status' = "query"
        /\ check' = 1
        /\ query' = 1
        /\ results' = [s \in Slots |-> {}]
        /\ sent' = {}
        /\ UNCHANGED <<table, exit_cause, pending>>
     \/ /\ ConfigMayFail
        /\ Exit("exception")

(* safe_substitute, then run_query(parsed_query).  A leftover $name is a   *)
(* BigQuery syntax error, unless it stands inside a string literal: then   *)
(* the query runs with it.  A BigQuery failure is not caught either.       *)
RunQuery ==
  /\ status = "query"
  /\ cur \in Slots
  /\ LET q == QueryAt(cur) IN
     \/ /\ Unresolved(q) # {} \/ BigQueryMayFail
        /\ Exit("exception")
     \/ /\ results' = [results EXCEPT ![cur] = table[q]]
        /\ pending' = table[q]
        /\ status' = "rows"
        /\ UNCHANGED <<table, exit_cause, check, query, sent>>

(* Mutant: the loop stops after the first alerted row.                    *)
SendAlertFirstRowOnly ==
  /\ status = "rows"
  /\ \E row \in pending :
        /\ \E ok \in ScriptOutcomes :
              sent' = sent \cup {[at |-> cur, row |-> row, script |-> ScriptAt(cur),
                                  intact |-> Intact(row), ok |-> ok]}
        /\ pending' = {}
  /\ UNCHANGED <<table, status, exit_cause, check, query, results>>

(* send_alert for one row: the fields are put between single quotes of a   *)
(* shell command line, so a value holding a quote ends the argument early. *)
(* subprocess.run has no timeout: a script that never exits blocks the     *)
(* daemon, which only SIGINT then ends.                                    *)
SendAlert ==
  /\ status = "rows"
  /\ \E row \in pending :
        \/ /\ \E ok \in ScriptOutcomes :
                 sent' = sent \cup {[at |-> cur, row |-> row, script |-> ScriptAt(cur),
                                     intact |-> Intact(row), ok |-> ok]}
           /\ pending' = pending \ {row}
           /\ UNCHANGED status
        \/ /\ ScriptMayHang
           /\ status' = "hung"
           /\ UNCHANGED <<pending, sent>>
  /\ UNCHANGED <<table, exit_cause, check, query, results>>

(* Mutant: the inner loop is not advanced.                                 *)
NextQueryNoAdvance ==
  /\ status = "rows"
  /\ pending = {}
  /\ query' = query
  /\ status' = "query"
  /\ UNCHANGED <<table, exit_cause, check, results, pending, sent>>

(* Mutant: the inner loop steps over the next query.                       *)
NextQuerySkipOne ==
  /\ status = "rows"
  /\ pending = {}
  /\ query' = query + 2
  /\ status' = "query"
  /\ UNCHANGED <<table, exit_cause, check, results, pending, sent>>

(* The row iterator is exhausted: on to the next query.                    *)
NextQuery ==
  /\ status = "rows"
  /\ pending = {}
  /\ query' = query + 1
  /\ status' = "query"
  /\ UNCHANGED <<table, exit_cause, check, results, pending, sent>>

(* The queries of the check are exhausted: on to the next check.           *)
NextCheck ==
  /\ status = "query"
  /\ check \in 1..Len(Checks)
  /\ query > Len(Checks[check].Queries)
  /\ check' = check + 1
  /\ query' = 1
  /\ UNCHANGED <<table, status, exit_cause, results, pending, sent>>

(* process_queries returns; time.sleep(10).                                *)
EndPass ==
  /\ status = "query"
  /\ check > Len(Checks)
  /\ status' = "sleeping"
  /\ UNCHANGED <<table, exit_cause, check, query, results, pending, sent>>

(* signal_handler: SIGINT prints and calls sys.exit(0) wherever it lands.  *)
Interrupt ==
  /\ status # "exited"
  /\ Exit("SIGINT")

(* The queried tables change while the daemon runs.                        *)
TableChange ==
  /\ \E q \in DOMAIN QueryDef, rs \in SUBSET Rows : table' = [table EXCEPT ![q] = rs]
  /\ UNCHANGED <<status, exit_cause, check, query, results, pending, sent>>

Daemon == StartPass \/ RunQuery \/ SendAlert \/ NextQuery \/ NextCheck \/ EndPass

Next == Daemon \/ Interrupt \/ TableChange

(* The daemon is one Python loop: every call it makes returns or raises    *)
(* (a BigQuery job ends within BigQuery's own limits), except an alert     *)
(* script, whose hang is the step to "hung" that disables Daemon.  So      *)
(* while it runs it keeps taking steps.  SIGINT and table changes are not  *)
(* assumed to happen.                                                      *)
Spec == Init /\ [][Next]_vars /\ WF_vars(Daemon)

-----------------------------------------------------------------------------
TypeOK ==
  /\ table \in [DOMAIN QueryDef -> SUBSET Rows]
  /\ status \in {"start", "query", "rows", "sleeping", "hung", "exited"}
  /\ exit_cause \in {"none", "exception", "SIGINT"}
  /\ check \in 1..Len(Checks) + 1
  /\ query \in Nat \ {0}
  /\ check \in 1..Len(Checks) => query \in 1..Len(Checks[check].Queries) + 1
  /\ results \in [Slots -> SUBSET Rows]
  /\ pending \subseteq Rows
  /\ sent \subseteq Alert

(* send_alert was called, with the script of the position's check, for    *)
(* every row its query returned in this pass.                              *)
Alerted(s) ==
  \A row \in results[s] : \E a \in sent : a.at = s /\ a.row = row /\ a.script = ScriptAt(s)

(* A finished pass alerted every row that every query of every check       *)
(* returned in it, through the script of the query's own check, and        *)
(* nothing else.                                                           *)
PassComplete ==
  status = "sleeping" =>
    /\ \A s \in Slots : Alerted(s)
    /\ \A a \in sent : a.row \in results[a.at]

(* When a query raises and ends the daemon, the rows that the earlier      *)
(* queries of the pass returned have all been alerted already: send_alert  *)
(* runs row by row before the next query starts, so a crash loses the      *)
(* rest of the pass but never a row a query already returned.              *)
AlertsBeforeCrash ==
  exit_cause = "exception" =>
    \A s \in Slots : Earlier(s, cur) => Alerted(s)

(* A finished pass got every row its queries returned to its check's      *)
(* script, which ran it successfully: no alert is lost without a trace.    *)
AlertsDelivered ==
  status = "sleeping" =>
    \A s \in Slots : \A row \in results[s] :
       \E a \in sent : a.at = s /\ a.row = row /\ a.ok

(* The daemon never stalls in its own loops: unless it exits (on SIGINT,   *)
(* or on an uncaught exception, which NoCrash shows possible) or blocks in *)
(* an alert script that never returns, it finishes pass after pass,        *)
(* whatever BigQuery, the scripts and the tables do.                       *)
KeepsPolling == []<>(status = "sleeping") \/ <>(status \in {"exited", "hung"})

(* It never dies of an exception: a failing query is reported and the      *)
(* next pass retries it (spec.md 7: callers retry whole runs).             *)
NoCrash == status = "exited" => exit_cause = "SIGINT"

(* Every alert carries the row's fields as one argument of the script.     *)
AlertArgsIntact == \A a \in sent : a.intact
=============================================================================
