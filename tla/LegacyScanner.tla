---------------------------- MODULE LegacyScanner ----------------------------
(***************************************************************************)
(* find_latest_withdrawal_event of the older runbook copy of Web3Utility   *)
(* (runbooks/automated/runbooks/lib/web3.py), modelled one RPC per step:   *)
(* the get_logs call of an iteration and what is done with its answer are *)
(* two steps, between which L1 keeps producing blocks.  The module checks  *)
(* that this copy implements the current scanner's specification, so the  *)
(* two copies cannot be told apart by their calls' outcomes.               *)
(***************************************************************************)
EXTENDS L1Chain

CONSTANTS
  batch_size,     \* the batch_size argument (default 1000)
  FailingCalls    \* the JSON-RPC calls the L1 endpoint may fail

ASSUME LegacyAssumption ==
  /\ batch_size \in Nat \ {0}
  /\ FailingCalls \subseteq {"eth_blockNumber", "eth_getLogs", "eth_getBlockByNumber"}

VARIABLES
  stage,          \* "call", "loop", "logs" (answer of get_logs in hand),
                  \* or the outcome "found", "notFound", "raised"
  latest_block,   \* self.web3.eth.block_number, read once
  current_block,  \* to_block of the next get_logs call
  logs,           \* the blocks of the logs get_logs returned
  result,         \* block number of the returned log; 0 until found
  errors          \* windows whose failure was printed, with the failing call

legacyVars == <<stage, latest_block, current_block, logs, result, errors>>
vars == <<chainVars, legacyVars>>

(* Mutant: the max(0, ...) of line 60 is dropped.                         *)
FromBlockNoMax(c) == c - batch_size

(* from_block = max(0, current_block - batch_size)                         *)
FromBlock(c) == IF c > batch_size THEN c - batch_size ELSE 0

(* Mutant: logs[0] is taken as the latest log.                            *)
TakeFirst(r) == \A b \in logs : r <= b

(* logs[-1]: get_logs returns the logs in ascending block order.           *)
TakeLast(r) == \A b \in logs : b <= r

(* The except clause: print the window and fall through to the move.      *)
PrintAndMove(call) ==
  /\ call \in FailingCalls
  /\ errors' = errors \cup {[from |-> FromBlock(current_block),
                            to |-> current_block, call |-> call]}
  /\ current_block' = FromBlock(current_block)
  /\ stage' = "loop"

-----------------------------------------------------------------------------
Init ==
  /\ ChainInit
  /\ stage = "call"
  /\ latest_block = 0
  /\ current_block = 0
  /\ logs = {}
  /\ result = 0
  /\ errors = {}

(* latest_block = self.web3.eth.block_number; current_block = latest_block *)
ReadBlockNumber ==
  /\ stage = "call"
  /\ \/ /\ latest_block' = head
        /\ current_block' = head
        /\ stage' = "loop"
     \/ /\ "eth_blockNumber" \in FailingCalls
        /\ stage' = "raised"
        /\ UNCHANGED <<latest_block, current_block>>
  /\ UNCHANGED <<logs, result, errors, chainVars>>

(* while current_block > 0: get_logs(from_block, to_block=current_block).  *)
GetLogs ==
  /\ stage = "loop"
  /\ current_block > 0
  /\ \/ /\ logs' = {b \in proven : FromBlock(current_block) <= b /\ b <= current_block}
        /\ stage' = "logs"
        /\ UNCHANGED <<current_block, errors>>
     \/ /\ PrintAndMove("eth_getLogs")
        /\ UNCHANGED logs
  /\ UNCHANGED <<latest_block, result, chainVars>>

(* if logs: ... else the window is empty and current_block = from_block.   *)
EmptyWindow ==
  /\ stage = "logs"
  /\ logs = {}
  /\ current_block' = FromBlock(current_block)
  /\ stage' = "loop"
  /\ UNCHANGED <<latest_block, logs, result, errors, chainVars>>

(* last_log = logs[-1]; get_block_timestamp(block_number), whose           *)
(* eth.get_block is inside the try; return {"log", "timestamp"}.           *)
ReturnLast ==
  /\ stage = "logs"
  /\ logs # {}
  /\ \/ /\ \E r \in logs : TakeLast(r) /\ result' = r
        /\ stage' = "found"
        /\ UNCHANGED <<current_block, errors>>
     \/ /\ PrintAndMove("eth_getBlockByNumber")
        /\ UNCHANGED result
  /\ UNCHANGED <<latest_block, logs, chainVars>>

(* raise Exception("No WithdrawalProven event found ...")                  *)
Exhausted ==
  /\ stage = "loop"
  /\ current_block <= 0
  /\ stage' = "notFound"
  /\ UNCHANGED <<latest_block, current_block, logs, result, errors, chainVars>>

LegacyNext == ReadBlockNumber \/ GetLogs \/ EmptyWindow \/ ReturnLast \/ Exhausted

Next == LegacyNext \/ (NewBlock /\ UNCHANGED legacyVars)

(* As for the current copy: a loop of blocking calls with the provider's   *)
(* timeout keeps taking steps; block production is not assumed.            *)
Spec == Init /\ [][Next]_vars /\ WF_vars(LegacyNext)

-----------------------------------------------------------------------------
LegacyTypeOK ==
  /\ ChainTypeOK
  /\ stage \in {"call", "loop", "logs", "found", "notFound", "raised"}
  /\ latest_block \in Blocks
  /\ current_block \in Blocks
  /\ logs \subseteq Blocks
  /\ result \in Blocks
  /\ errors \subseteq [from : Blocks, to : Blocks,
                       call : {"eth_getLogs", "eth_getBlockByNumber"}]

(* The older copy implements the current scanner's specification: with    *)
(* the answer of get_logs held across a step in which L1 grows, every step *)
(* is a step of find_latest_withdrawal_event of lib/web3.py (or a stutter) *)
(* with the same windows, printed errors, result and outcome; so spec.md   *)
(* section 9's two copies are interchangeable, fairness included.          *)
Current == INSTANCE EventScanner WITH
             pc <- IF stage = "logs" THEN "loop" ELSE stage

CurrentSpec == Current!Spec
=============================================================================
