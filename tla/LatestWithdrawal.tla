-------------------------- MODULE LatestWithdrawal --------------------------
(***************************************************************************)
(* What find_latest_withdrawal_event promises (spec.md 4.2 and 8): read    *)
(* the L1 head once, then, in one step, return the latest block at or      *)
(* below it that carries a WithdrawalProvenExtension1 log, or report that  *)
(* there is none.  The call may also raise before it starts scanning.      *)
(***************************************************************************)
EXTENDS L1Chain

VARIABLES
  status,     \* "call", "scanning", "found", "notFound", "raised"
  snapshot,   \* the head read at the start of the call
  answer      \* the returned block; 0 until found

avars == <<chainVars, status, snapshot, answer>>

(* The proven logs the call is about.                                      *)
Candidates == {b \in proven : b <= snapshot}

LInit ==
  /\ ChainInit
  /\ status = "call"
  /\ snapshot = 0
  /\ answer = 0

Begin ==
  /\ status = "call"
  /\ status' = "scanning"
  /\ snapshot' = head
  /\ UNCHANGED <<answer, chainVars>>

Fail ==
  /\ status = "call"
  /\ status' = "raised"
  /\ UNCHANGED <<snapshot, answer, chainVars>>

Answer ==
  /\ status = "scanning"
  /\ \/ /\ Candidates = {}
        /\ status' = "notFound"
        /\ UNCHANGED answer
     \/ /\ \E r \in Candidates : (\A b \in Candidates : b <= r) /\ answer' = r
        /\ status' = "found"
  /\ UNCHANGED <<snapshot, chainVars>>

LNext ==
  \/ Begin \/ Fail \/ Answer
  \/ NewBlock /\ UNCHANGED <<status, snapshot, answer>>

LSpec == LInit /\ [][LNext]_avars /\ WF_avars(Begin \/ Fail \/ Answer)
=============================================================================
