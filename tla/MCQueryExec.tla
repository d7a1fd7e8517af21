---------------------------- MODULE MCQueryExec -----------------------------
EXTENDS QueryExec

CONSTANTS alert_sh, page_sh, qA, qB, qC, rowPlain, rowQuoted

(* Two checks; the second has two queries sharing one template, and the    *)
(* parameter set of qC lacks the "address" its template uses.              *)
MCChecks == << [Path |-> alert_sh, Queries |-> <<qA>>],
               [Path |-> page_sh, Queries |-> <<qB, qC>>] >>
MCQueryDef == [q \in {qA, qB, qC} |->
                 CASE q = qA -> [Parameters |-> "mainnet", Query |-> "large_withdrawals"]
                   [] q = qB -> [Parameters |-> "sepolia", Query |-> "by_address"]
                   [] q = qC -> [Parameters |-> "holesky", Query |-> "by_address"]]
MCParameters == [p \in {"mainnet", "sepolia", "holesky"} |->
                   IF p = "holesky" THEN {"table", "threshold"}
                                    ELSE {"table", "threshold", "address"}]
MCQueriesTemplate == [t \in {"large_withdrawals", "by_address"} |->
                        IF t = "large_withdrawals" THEN {"table", "threshold"}
                                                   ELSE {"table", "address"}]
MCRows == {rowPlain, rowQuoted}
MCQuotedRows == {rowQuoted}
=============================================================================
