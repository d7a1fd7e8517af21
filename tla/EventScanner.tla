---------------------------- MODULE EventScanner ----------------------------
(***************************************************************************)
(* Web3Utility.find_latest_withdrawal_event: the backward, batched scan of *)
(* the OptimismPortal2 logs for the latest WithdrawalProvenExtension1      *)
(* event (lib/web3.py; runbooks/lib/web3.py holds the same loop).          *)
(*                                                                         *)
(* One ScanBatch step is one iteration of the while loop: the get_logs     *)
(* call on the window, and, when it returns logs, get_block_timestamp on   *)
(* the last one.  Both sit in the same try block, so a failure of either   *)
(* is printed and the loop moves on to the next window.                    *)
(***************************************************************************)
EXTENDS L1Chain

CONSTANTS
  batch_size,     \* the batch_size argument (default 1000)
  FailingCalls    \* the JSON-RPC calls the L1 endpoint may fail

RpcCalls == {"eth_blockNumber", "eth_getLogs", "eth_getBlockByNumber"}

ASSUME BatchSizeAssumption == batch_size \in Nat \ {0}
ASSUME FailingCallsAssumption == FailingCalls \subseteq RpcCalls

VARIABLES
  pc,             \* "call", "loop", or the outcome "found", "notFound", "raised"
  latest_block,   \* self.l1_geth.eth.block_number, read once at the start
  current_block,  \* upper end of the next window
  result,         \* block number of the returned log; 0 until found
  errors          \* windows whose failure was printed, with the failing call

scanVars == <<pc, latest_block, current_block, result, errors>>
vars == <<chainVars, scanVars>>

Done == {"found", "notFound", "raised"}

Window == [from : Blocks, to : Blocks]

(* Mutant: the max(0, ...) clamp is dropped.                              *)
FromBlockNoClamp(c) == c - batch_size

(* Mutant: a floor of 1 ("genesis has no logs"), so current_block stays 1.  *)
FromBlockFloorOne(c) == IF c > batch_size THEN c - batch_size ELSE 1

(* from_block = max(0, current_block - batch_size)                         *)
FromBlock(c) == IF c > batch_size THEN c - batch_size ELSE 0

(* Mutant: an exclusive upper end, to_block = current_block - 1.           *)
WindowOfExclusive(c) == [from |-> FromBlock(c), to |-> c - 1]

(* The window of the get_logs call made when current_block = c.            *)
WindowOf(c) == [from |-> FromBlock(c), to |-> c]

(* get_logs(from_block, to_block) on the portal: the logged blocks.        *)
LogsIn(w) == {b \in proven : w.from <= b /\ b <= w.to}

(* Mutant: logs[0], the earliest log of the window.                       *)
FirstLog(logs, r) == r \in logs /\ \A b \in logs : r <= b

(* logs[-1]: the node returns logs in ascending block order.               *)
LastLog(logs, r) == r \in logs /\ \A b \in logs : b <= r

-----------------------------------------------------------------------------
ScanInit ==
  /\ pc = "call"
  /\ latest_block = 0
  /\ current_block = 0
  /\ result = 0
  /\ errors = {}

Init == ChainInit /\ ScanInit

(* latest_block = self.l1_geth.eth.block_number; a failure is not caught.  *)
ReadBlockNumber ==
  /\ pc = "call"
  /\ \/ /\ latest_block' = head
        /\ current_block' = head
        /\ pc' = "loop"
     \/ /\ "eth_blockNumber" \in FailingCalls
        /\ pc' = "raised"
        /\ UNCHANGED <<latest_block, current_block>>
  /\ UNCHANGED <<result, errors, chainVars>>

(* A call inside the try block raised: the error is printed with the       *)
(* window and current_block moves to from_block.                           *)
SkipWindow(w, call) ==
  /\ call \in FailingCalls
  /\ errors' = errors \cup {[from |-> w.from, to |-> w.to, call |-> call]}
  /\ current_block' = w.from
  /\ UNCHANGED <<pc, result>>

(* One iteration of `while current_block > 0`.                             *)
ScanBatch ==
  /\ pc = "loop"
  /\ current_block > 0
  /\ LET w    == WindowOf(current_block)
         logs == LogsIn(w)
     IN  \/ SkipWindow(w, "eth_getLogs")
         \/ /\ logs = {}
            /\ current_block' = w.from
            /\ UNCHANGED <<pc, result, errors>>
         \/ /\ logs # {}
            /\ \/ SkipWindow(w, "eth_getBlockByNumber")
               \/ /\ \E r \in logs : LastLog(logs, r) /\ result' = r
                  /\ pc' = "found"
                  /\ UNCHANGED <<current_block, errors>>
  /\ UNCHANGED <<latest_block, chainVars>>

(* The loop exits with current_block = 0 and the exception is raised.      *)
Exhausted ==
  /\ pc = "loop"
  /\ current_block <= 0
  /\ pc' = "notFound"
  /\ UNCHANGED <<latest_block, current_block, result, errors, chainVars>>

ScanNext == ReadBlockNumber \/ ScanBatch \/ Exhausted

Next == ScanNext \/ (NewBlock /\ UNCHANGED scanVars)

(* The scan is a sequential loop of blocking calls, each bounded by the    *)
(* HTTP provider's request timeout: it keeps taking steps.  Block          *)
(* production is not assumed to continue.                                  *)
Spec == Init /\ [][Next]_vars /\ WF_vars(ScanNext)

-----------------------------------------------------------------------------
TypeOK ==
  /\ ChainTypeOK
  /\ pc \in {"call", "loop"} \cup Done
  /\ latest_block \in Blocks
  /\ current_block \in Blocks
  /\ result \in Blocks
  /\ errors \subseteq [from : Blocks, to : Blocks, call : RpcCalls]

(* The block below which the scan has not yet looked (or the returned one).*)
Floor == IF pc = "found" THEN result ELSE current_block

Logged(b) == \E e \in errors : e.from <= b /\ b <= e.to

(* No event is passed over silently: the returned log is a proven log at   *)
(* or below latest_block, and every proven log above the floor and at or   *)
(* below latest_block lies in a window whose failure was printed.  Checks  *)
(* that the windows of find_latest_withdrawal_event chain down to block 0  *)
(* without a gap and that logs[-1] is the latest of its window.            *)
ScanSound ==
  /\ pc = "found" => result \in proven /\ result <= latest_block
  /\ pc \in {"loop", "found", "notFound"} =>
        \A b \in proven : Floor < b /\ b <= latest_block => Logged(b)

(* Every call of find_latest_withdrawal_event returns or raises.           *)
Termination == <>(pc \in Done)

(* The scan returns exactly the latest proven log at or below latest_block *)
(* and raises "No WithdrawalProven event found" only when there is none:   *)
(* spec.md 8 says a transient batch failure leaves the result unchanged,   *)
(* and 7 says only queryLogs failures are absorbed.                        *)
ScanExact ==
  /\ pc = "found" => \A b \in proven : b <= latest_block => b <= result
  /\ pc = "notFound" => \A b \in proven : b > latest_block

(* The scan implements LatestWithdrawal: its loop steps are stutters of    *)
(* the abstract call, which answers at the step that returns or raises.   *)
Latest == INSTANCE LatestWithdrawal WITH
            status <- IF pc = "loop" THEN "scanning" ELSE pc,
            snapshot <- latest_block,
            answer <- result

LatestSpec == Latest!LSpec
=============================================================================
