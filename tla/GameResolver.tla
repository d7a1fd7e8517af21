---------------------------- MODULE GameResolver ----------------------------
(***************************************************************************)
(* Web3Utility.get_game_data (lib/web3.py): assemble the record of a       *)
(* proven withdrawal from five reads on three endpoints -- the portal's    *)
(* provenWithdrawals on L1, the dispute game's l2BlockNumber and rootClaim *)
(* on L1, the message passer's sentMessages on L2 op-geth, and             *)
(* optimism_outputAtBlock on the L2 op-node.  Each read is one step; the   *)
(* chains move between them: the withdrawal may be proven again against    *)
(* another game, L2 messages are sent and the op-node syncs further.       *)
(* Nothing in get_game_data catches an exception: any failure ends the     *)
(* call with no record.                                                    *)
(***************************************************************************)
EXTENDS Naturals

CONSTANTS
  Hashes,        \* withdrawal hashes
  Submitters,    \* proof submitter addresses
  Games,         \* dispute game proxy addresses
  ZeroAddress,   \* address(0): provenWithdrawals of a withdrawal never proven
  Roots,         \* output roots (bytes32)
  MaxL2Block,    \* the highest L2 block of a run
  OpNodeMayHang  \* whether the op-node may accept the POST and never answer

ASSUME ResolverConstantsAssumption ==
  /\ Hashes # {} /\ Submitters # {} /\ Roots # {}
  /\ ZeroAddress \notin Games
  /\ MaxL2Block \in Nat \ {0}
  /\ OpNodeMayHang \in BOOLEAN

L2Blocks == 1..MaxL2Block

(* How the caller passes the withdrawal hash: HexBytes from a decoded log, *)
(* a hex string without prefix, or a "0x"-prefixed hex string.             *)
HashForms == {"bytes", "hex", "0xhex"}

(* The causes an exception can have.                                       *)
Causes == {"ValueError", "rpc", "BadFunctionCallOutput", "KeyError", "HTTPError"}

VARIABLES
  proven_withdrawals,  \* OptimismPortal2.provenWithdrawals(hash, submitter).disputeGameProxy
  games,               \* per game: its immutable l2BlockNumber and rootClaim
  outputs,             \* the canonical output root of each L2 block
  op_node_head,        \* the highest L2 block the op-node can answer for
  sent,                \* hashes with L2ToL1MessagePasser.sentMessages = true
  rpc,                 \* the next read of get_game_data, or its outcome
  call,                \* the arguments: hash, submitter and form of the hash
  gameProxyAddress, l2BlockNumber, rootClaim, sentMessages,
  record,              \* the returned dict
  cause                \* the cause of the exception, once raised

envVars == <<proven_withdrawals, games, outputs, op_node_head, sent>>
callVars == <<rpc, call, gameProxyAddress, l2BlockNumber, rootClaim,
              sentMessages, record, cause>>
vars == <<envVars, callVars>>

(* Mutant: the hex digits without the "0x" prefix.                        *)
RenderNoPrefix(root) == root

(* f"0x{rootClaim.hex()}" and the op-node's JSON encoding of a bytes32: a  *)
(* "0x" prefix and the lowercase hex digits of the root.                   *)
Render(root) == <<"0x", root>>

(* get_fault_dispute_game(gameProxyAddress): the FaultDisputeGame contract *)
(* at that address, whose l2BlockNumber and rootClaim never change.        *)
FaultDisputeGame(addr) == games[addr]

(* Nothing in get_game_data catches: the exception of any read leaves it.  *)
Raise(c) ==
  /\ rpc' = "raised"
  /\ cause' = c
  /\ UNCHANGED <<call, gameProxyAddress, l2BlockNumber, rootClaim, sentMessages, record>>

-----------------------------------------------------------------------------
EnvInit ==
  /\ proven_withdrawals \in [Hashes \X Submitters -> Games \cup {ZeroAddress}]
  /\ games \in [Games -> [l2BlockNumber : L2Blocks, rootClaim : Roots]]
  /\ outputs \in [L2Blocks -> Roots]
  /\ op_node_head \in 0..MaxL2Block
  /\ sent \in SUBSET Hashes

Init ==
  /\ EnvInit
  /\ rpc = "idle"
  /\ call = [hash |-> CHOOSE h \in Hashes : TRUE,
             submitter |-> CHOOSE s \in Submitters : TRUE, form |-> "bytes"]
  /\ gameProxyAddress = ZeroAddress
  /\ l2BlockNumber = 0
  /\ rootClaim = Render(CHOOSE r \in Roots : TRUE)
  /\ sentMessages = FALSE
  /\ record = [gameProxyAddress |-> ZeroAddress]
  /\ cause = "none"

(* A caller invokes get_game_data(withDrawalHash, proofSubmitter), again   *)
(* and again, with no state kept from one call to the next.                *)
Call(h, s, form) ==
  /\ rpc \in {"idle", "returned", "raised"}
  /\ rpc' = "provenWithdrawals"
  /\ call' = [hash |-> h, submitter |-> s, form |-> form]
  /\ cause' = "none"
  /\ UNCHANGED <<gameProxyAddress, l2BlockNumber, rootClaim, sentMessages, record>>

(* bytes.fromhex(withDrawalHash) when it is a str, then                    *)
(* provenWithdrawals(withDrawalHash, proofSubmitter).call() on L1.         *)
ReadProvenWithdrawal ==
  /\ rpc = "provenWithdrawals"
  /\ \/ /\ call.form = "0xhex"
        /\ Raise("ValueError")
     \/ /\ call.form # "0xhex"
        /\ \/ Raise("rpc")
           \/ /\ gameProxyAddress' = proven_withdrawals[<<call.hash, call.submitter>>]
              /\ rpc' = "l2BlockNumber"
              /\ UNCHANGED <<call, l2BlockNumber, rootClaim, sentMessages, record, cause>>

(* get_fault_dispute_game(gameProxyAddress), then l2BlockNumber().call():  *)
(* at an address without code the call returns no data and web3 raises.   *)
ReadL2BlockNumber ==
  /\ rpc = "l2BlockNumber"
  /\ \/ Raise("rpc")
     \/ /\ gameProxyAddress = ZeroAddress
        /\ Raise("BadFunctionCallOutput")
     \/ /\ gameProxyAddress \in Games
        /\ l2BlockNumber' = FaultDisputeGame(gameProxyAddress).l2BlockNumber
        /\ rpc' = "rootClaim"
        /\ UNCHANGED <<call, gameProxyAddress, rootClaim, sentMessages, record, cause>>

(* Mutant: the game is resolved again from the portal for this read.       *)
ReadRootClaimCurrentGame ==
  /\ rpc = "rootClaim"
  /\ \/ Raise("rpc")
     \/ /\ rootClaim' = Render(FaultDisputeGame(proven_withdrawals[<<call.hash, call.submitter>>]).rootClaim)
        /\ rpc' = "sentMessages"
        /\ UNCHANGED <<call, gameProxyAddress, l2BlockNumber, sentMessages, record, cause>>

(* rootClaim = game.functions.rootClaim().call(), rendered in the record.  *)
ReadRootClaim ==
  /\ rpc = "rootClaim"
  /\ \/ Raise("rpc")
     \/ /\ rootClaim' = Render(FaultDisputeGame(gameProxyAddress).rootClaim)
        /\ rpc' = "sentMessages"
        /\ UNCHANGED <<call, gameProxyAddress, l2BlockNumber, sentMessages, record, cause>>

(* L2ToL1MessagePasser.sentMessages(withDrawalHash).call() on L2 op-geth.  *)
ReadSentMessages ==
  /\ rpc = "sentMessages"
  /\ \/ Raise("rpc")
     \/ /\ sentMessages' = (call.hash \in sent)
        /\ rpc' = "outputAtBlock"
        /\ UNCHANGED <<call, gameProxyAddress, l2BlockNumber, rootClaim, record, cause>>

(* optimism_output_at_block(l2BlockNumber) and the return of the record.   *)
(* A node that has not reached the block answers HTTP 200 with a JSON-RPC  *)
(* error, so response.json()["result"] raises KeyError; any other status   *)
(* raises.  requests.post is given no timeout: when the node accepts the   *)
(* request and never answers, the call waits for ever ("hung").            *)
ReadOutputAtBlock ==
  /\ rpc = "outputAtBlock"
  /\ \/ Raise("HTTPError")
     \/ /\ OpNodeMayHang
        /\ rpc' = "hung"
        /\ UNCHANGED <<call, gameProxyAddress, l2BlockNumber, rootClaim, sentMessages, record, cause>>
     \/ /\ l2BlockNumber > op_node_head
        /\ Raise("KeyError")
     \/ /\ l2BlockNumber <= op_node_head
        /\ record' = [gameProxyAddress |-> gameProxyAddress,
                      l2BlockNumber |-> l2BlockNumber,
                      rootClaim |-> rootClaim,
                      sentMessages |-> sentMessages,
                      optimism_outputAtBlock |-> Render(outputs[l2BlockNumber])]
        /\ rpc' = "returned"
        /\ UNCHANGED <<call, gameProxyAddress, l2BlockNumber, rootClaim, sentMessages, cause>>

ResolverReads ==
  \/ ReadProvenWithdrawal \/ ReadL2BlockNumber \/ ReadRootClaim
  \/ ReadSentMessages \/ ReadOutputAtBlock

ResolverStep ==
  \/ \E h \in Hashes, s \in Submitters, form \in HashForms : Call(h, s, form)
  \/ ResolverReads

-----------------------------------------------------------------------------
(* The environment: proveWithdrawalTransaction on L1 (a re-proof replaces  *)
(* the game), initiateWithdrawal on L2, and the op-node syncing.           *)
ProveWithdrawal(h, s, g) ==
  /\ proven_withdrawals' = [proven_withdrawals EXCEPT ![<<h, s>>] = g]
  /\ UNCHANGED <<games, outputs, op_node_head, sent>>

SendMessage(h) ==
  /\ h \notin sent
  /\ sent' = sent \cup {h}
  /\ UNCHANGED <<proven_withdrawals, games, outputs, op_node_head>>

OpNodeSync ==
  /\ op_node_head < MaxL2Block
  /\ op_node_head' = op_node_head + 1
  /\ UNCHANGED <<proven_withdrawals, games, outputs, sent>>

EnvStep ==
  \/ \E h \in Hashes, s \in Submitters, g \in Games : ProveWithdrawal(h, s, g)
  \/ \E h \in Hashes : SendMessage(h)
  \/ OpNodeSync

Next ==
  \/ ResolverStep /\ UNCHANGED envVars
  \/ EnvStep /\ UNCHANGED callVars

(* get_game_data is a straight line of blocking calls: once called it      *)
(* keeps taking its steps (web3's HTTPProvider gives every L1 and L2 call  *)
(* a timeout, so those return or raise).  Callers, chains and the op-node  *)
(* are not assumed to do anything.                                         *)
Spec == Init /\ [][Next]_vars /\ WF_vars(ResolverReads /\ UNCHANGED envVars)

-----------------------------------------------------------------------------
TypeOK ==
  /\ proven_withdrawals \in [Hashes \X Submitters -> Games \cup {ZeroAddress}]
  /\ games \in [Games -> [l2BlockNumber : L2Blocks, rootClaim : Roots]]
  /\ outputs \in [L2Blocks -> Roots]
  /\ op_node_head \in 0..MaxL2Block
  /\ sent \subseteq Hashes
  /\ rpc \in {"idle", "provenWithdrawals", "l2BlockNumber", "rootClaim",
              "sentMessages", "outputAtBlock", "returned", "raised", "hung"}
  /\ call \in [hash : Hashes, submitter : Submitters, form : HashForms]
  /\ gameProxyAddress \in Games \cup {ZeroAddress}
  /\ l2BlockNumber \in 0..MaxL2Block
  /\ rootClaim \in {"0x"} \X Roots
  /\ sentMessages \in BOOLEAN
  /\ cause \in Causes \cup {"none"}

(* The returned record describes one game, although its fields come from   *)
(* five reads between which the withdrawal may be proven again against     *)
(* another game: the game exists, the block and root claim are that        *)
(* game's, the output root is the canonical one at the game's block, and   *)
(* sentMessages is true only for a hash the message passer recorded.  A    *)
(* consumer comparing rootClaim with optimism_outputAtBlock thus detects   *)
(* exactly the games that claim a wrong output root.                       *)
RecordFaithful ==
  rpc = "returned" =>
    LET g == record.gameProxyAddress IN
    /\ g \in Games
    /\ record.l2BlockNumber = games[g].l2BlockNumber
    /\ record.rootClaim = Render(games[g].rootClaim)
    /\ record.optimism_outputAtBlock = Render(outputs[record.l2BlockNumber])
    /\ record.sentMessages => call.hash \in sent

(* Every call of get_game_data ends: it returns the record or raises, so   *)
(* the runbook that called it goes on (spec.md 5: every network call has a *)
(* timeout and a timed-out call fails like an RPC error).                  *)
ResolutionEnds ==
  rpc \in {"provenWithdrawals", "l2BlockNumber", "rootClaim", "sentMessages", "outputAtBlock"}
    ~> rpc \in {"returned", "raised"}
=============================================================================
