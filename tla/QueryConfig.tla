---------------------------- MODULE QueryConfig -----------------------------
(***************************************************************************)
(* The op-eventer YAML config and the query text made from it, shared by   *)
(* parse_yaml.py (a dry run), checker.py (one pass) and                    *)
(* setup/query_exec.py (the polling daemon).  The three process_queries    *)
(* walk the config the same way: for each check in Checks, for each of its *)
(* Queries, fill the template named by Query with the parameter set named  *)
(* by Parameters using Template.safe_substitute.                           *)
(*                                                                         *)
(* A template is abstracted to the set of its $placeholders and a          *)
(* parameter set to the set of names it defines: safe_substitute leaves    *)
(* exactly the placeholders that have no value in the query text.          *)
(***************************************************************************)
EXTENDS Naturals, Sequences

CONSTANTS
  Checks,           \* config['Checks']: << [Path, Queries : << query name >>] >>
  QueryDef,         \* per query name: [Parameters, Query] (parameter set and template names)
  Parameters,       \* config['Parameters']: parameter set name -> names it defines
  QueriesTemplate   \* config['QueriesTemplate']: template name -> its placeholders

(* The scripts the checks name.                                            *)
Paths == {Checks[i].Path : i \in DOMAIN Checks}

(* Checks is a YAML list of checks; the Queries of a check are the keys of  *)
(* a YAML mapping, walked in file order, each naming a defined query.      *)
ASSUME QueryConfigAssumption ==
  /\ Checks \in Seq([Path : Paths, Queries : Seq(DOMAIN QueryDef)])
  /\ \A q \in DOMAIN QueryDef : /\ QueryDef[q].Parameters \in DOMAIN Parameters
                                /\ QueryDef[q].Query \in DOMAIN QueriesTemplate

(* The (check, query) positions the two nested for loops visit: check      *)
(* indexes Checks, query the Queries of that check.                        *)
Slots == UNION {{<<i, j>> : j \in 1..Len(Checks[i].Queries)} : i \in 1..Len(Checks)}

(* The loops visit s before t: an earlier check, or an earlier query of    *)
(* the same check.                                                         *)
Earlier(s, t) == s[1] < t[1] \/ (s[1] = t[1] /\ s[2] < t[2])

(* query_name and script_path at a position.                               *)
QueryAt(s) == Checks[s[1]].Queries[s[2]]
ScriptAt(s) == Checks[s[1]].Path

(* Template(QueriesTemplate[...]).safe_substitute(Parameters[...]) keeps   *)
(* every $name it has no value for: the placeholders left in the query.    *)
Unresolved(q) ==
  QueriesTemplate[QueryDef[q].Query] \ Parameters[QueryDef[q].Parameters]
=============================================================================
