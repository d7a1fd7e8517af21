------------------------------ MODULE L1Chain ------------------------------
(***************************************************************************)
(* The L1 chain as the monitor sees it through its geth JSON-RPC endpoint: *)
(* a head block number and the blocks that carry a                        *)
(* WithdrawalProvenExtension1 log of the OptimismPortal2 proxy.  The chain *)
(* grows while the monitor runs; blocks at or below the head are final     *)
(* (reorgs are not modelled).  A block carries at most one such log: the  *)
(* monitor only distinguishes logs by the block they are in.               *)
(***************************************************************************)
EXTENDS Naturals

CONSTANT MaxBlock          \* the highest block the chain reaches in a run

ASSUME MaxBlockAssumption == MaxBlock \in Nat

VARIABLES
  head,     \* eth_blockNumber of the L1 node
  proven    \* blocks holding a WithdrawalProvenExtension1 log

chainVars == <<head, proven>>

Blocks == 0..MaxBlock

(* The genesis block carries no transaction, hence no log.                 *)
ChainTypeOK ==
  /\ head \in Blocks
  /\ proven \subseteq 1..head

ChainInit ==
  /\ head \in Blocks
  /\ proven \in SUBSET (1..head)

(* A new L1 block is mined; it may carry a proveWithdrawalTransaction.     *)
NewBlock ==
  /\ head < MaxBlock
  /\ head' = head + 1
  /\ proven' \in {proven, proven \cup {head + 1}}

=============================================================================
