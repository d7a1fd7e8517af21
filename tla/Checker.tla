------------------------------ MODULE Checker -------------------------------
(***************************************************************************)
(* op-eventer/checker.py: one pass over the config.  For each check and    *)
(* query it runs the filled-in template on BigQuery and, for every result  *)
(* row, runs `bash <Path> '<field_string>'` with shell=True; then it       *)
(* returns the processed queries, which __main__ prints.  No exception is  *)
(* caught.                                                                 *)
(***************************************************************************)
EXTENDS QueryConfig

CONSTANTS
  Rows,             \* the row values a query can return
  BigQueryMayFail,  \* whether client.query(...).result() may raise
  ScriptMayHang     \* whether a script may never exit

ASSUME CheckerAssumption == BigQueryMayFail \in BOOLEAN /\ ScriptMayHang \in BOOLEAN

VARIABLES
  table,     \* per query name: the rows BigQuery would return now
  status,    \* "query", "rows", "returned", "raised", "hung"
  check,     \* the index in Checks of the check being processed
  query,     \* the index in its Queries of the query being processed
  results,   \* per position: the rows its query returned
  pending,   \* the rows of the current query not yet passed to the script
  runs       \* the script runs made: position, row, script

vars == <<table, status, check, query, results, pending, runs>>

(* The position of the two loops.                                          *)
cur == <<check, query>>

(* process_queries(sys.argv[1]): the config is loaded once.                *)
Init ==
  /\ table \in [DOMAIN QueryDef -> SUBSET Rows]
  /\ status = "query"
  /\ check = 1
  /\ query = 1
  /\ results = [s \in Slots |-> {}]
  /\ pending = {}
  /\ runs = {}

(* safe_substitute and run_query(parsed_query).  A leftover $name is a     *)
(* BigQuery syntax error that raises out of the program, unless it stands  *)
(* inside a string literal: then the query runs with it.  A BigQuery       *)
(* failure raises too.                                                     *)
RunQuery ==
  /\ status = "query"
  /\ cur \in Slots
  /\ LET q == QueryAt(cur) IN
     \/ /\ Unresolved(q) # {} \/ BigQueryMayFail
        /\ status' = "raised"
        /\ UNCHANGED <<table, check, query, results, pending, runs>>
     \/ /\ results' = [results EXCEPT ![cur] = table[q]]
        /\ pending' = table[q]
        /\ status' = "rows"
        /\ UNCHANGED <<table, check, query, runs>>

(* Mutant: the row loop runs the script for one row only.                  *)
RunScriptFirstRowOnly ==
  /\ status = "rows"
  /\ \E row \in pending :
        /\ runs' = runs \cup {[at |-> cur, row |-> row, script |-> ScriptAt(cur)]}
        /\ pending' = {}
  /\ UNCHANGED <<table, status, check, query, results>>

(* subprocess.run(f"bash {script_path} '{field_string}'") for one row.     *)
(* Its exit status is discarded, so a failing run and a successful one     *)
(* leave the same state.  There is no timeout: a script that never exits   *)
(* blocks checker.py for ever.                                             *)
RunScript ==
  /\ status = "rows"
  /\ \E row \in pending :
        \/ /\ runs' = runs \cup {[at |-> cur, row |-> row, script |-> ScriptAt(cur)]}
           /\ pending' = pending \ {row}
           /\ UNCHANGED status
        \/ /\ ScriptMayHang
           /\ status' = "hung"
           /\ UNCHANGED <<pending, runs>>
  /\ UNCHANGED <<table, check, query, results>>

(* Mutant: the inner loop steps over the next query.                       *)
NextQuerySkipOne ==
  /\ status = "rows"
  /\ pending = {}
  /\ query' = query + 2
  /\ status' = "query"
  /\ UNCHANGED <<table, check, results, pending, runs>>

(* Mutant: the inner loop is never advanced.                               *)
NextQueryNoAdvance ==
  /\ status = "rows"
  /\ pending = {}
  /\ query' = query
  /\ status' = "query"
  /\ UNCHANGED <<table, check, results, pending, runs>>

(* The rows are exhausted: on to the next query of the check.              *)
NextQuery ==
  /\ status = "rows"
  /\ pending = {}
  /\ query' = query + 1
  /\ status' = "query"
  /\ UNCHANGED <<table, check, results, pending, runs>>

(* The queries of the check are exhausted: on to the next check.           *)
NextCheck ==
  /\ status = "query"
  /\ check \in 1..Len(Checks)
  /\ query > Len(Checks[check].Queries)
  /\ check' = check + 1
  /\ query' = 1
  /\ UNCHANGED <<table, status, results, pending, runs>>

(* return processed_queries.                                               *)
Return ==
  /\ status = "query"
  /\ check > Len(Checks)
  /\ status' = "returned"
  /\ UNCHANGED <<table, check, query, results, pending, runs>>

TableChange ==
  /\ \E q \in DOMAIN QueryDef, rs \in SUBSET Rows : table' = [table EXCEPT ![q] = rs]
  /\ UNCHANGED <<status, check, query, results, pending, runs>>

Program == RunQuery \/ RunScript \/ NextQuery \/ NextCheck \/ Return

Next == Program \/ TableChange

(* checker.py is one sequential Python program: every call it makes        *)
(* returns or raises (a BigQuery job ends within BigQuery's own limits),   *)
(* except a script, whose hang is the step to "hung" that disables Program. *)
Spec == Init /\ [][Next]_vars /\ WF_vars(Program)

-----------------------------------------------------------------------------
TypeOK ==
  /\ table \in [DOMAIN QueryDef -> SUBSET Rows]
  /\ status \in {"query", "rows", "returned", "raised", "hung"}
  /\ check \in 1..Len(Checks) + 1
  /\ query \in Nat \ {0}
  /\ check \in 1..Len(Checks) => query \in 1..Len(Checks[check].Queries) + 1
  /\ results \in [Slots -> SUBSET Rows]
  /\ pending \subseteq Rows
  /\ runs \subseteq [at : Slots, row : Rows, script : Paths]

(* The script of the position's check was run for every row its query      *)
(* returned.                                                               *)
Reported(s) ==
  \A row \in results[s] : \E r \in runs : r.at = s /\ r.row = row /\ r.script = ScriptAt(s)

(* When process_queries returns, the script of each check has been run     *)
(* for every row every one of its queries returned, and for nothing else.  *)
AllRowsReported ==
  status = "returned" =>
    /\ \A s \in Slots : Reported(s)
    /\ \A r \in runs : r.row \in results[r.at]

(* When a query raises out of process_queries, the script has already     *)
(* been run for every row the earlier queries returned: the scripts run    *)
(* row by row before the next query, so an exception loses only the rest.  *)
ReportedBeforeRaise ==
  status = "raised" => \A s \in Slots : Earlier(s, cur) => Reported(s)

(* checker.py returns, raises or blocks in a script that never exits,      *)
(* whatever the tables do meanwhile: its own loops always end.             *)
Termination == <>(status \in {"returned", "raised", "hung"})
=============================================================================
