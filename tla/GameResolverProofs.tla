------------------------- MODULE GameResolverProofs -------------------------
(***************************************************************************)
(* Proofs about get_game_data (GameResolver) for every set of hashes,      *)
(* submitters, games and roots and every L2 height: the type invariant,    *)
(* and that a returned record describes one game although the portal's     *)
(* provenWithdrawals may change between the five reads.                    *)
(*                                                                         *)
(* Neither holds inductively by itself: rootClaim() is read from the game  *)
(* at gameProxyAddress, which is a game only because l2BlockNumber() did   *)
(* not raise on it.  IInv records what each completed read established.    *)
(***************************************************************************)
EXTENDS GameResolver, TLAPS

(* After l2BlockNumber(): the address is a game and the block is its own.  *)
GameRead ==
  rpc \in {"rootClaim", "sentMessages", "outputAtBlock", "hung"} =>
    /\ gameProxyAddress \in Games
    /\ l2BlockNumber = games[gameProxyAddress].l2BlockNumber

(* After rootClaim(): the rendered claim is that game's.                   *)
ClaimRead ==
  rpc \in {"sentMessages", "outputAtBlock", "hung"} =>
    rootClaim = Render(games[gameProxyAddress].rootClaim)

(* After sentMessages(): true only for a hash the message passer holds.    *)
MessagesRead ==
  rpc \in {"outputAtBlock", "hung"} => (sentMessages => call.hash \in sent)

IInv == TypeOK /\ GameRead /\ ClaimRead /\ MessagesRead /\ RecordFaithful

(* Render gives a "0x"-prefixed root.                                      *)
LEMMA RenderType ==
  ASSUME NEW r \in Roots
  PROVE  Render(r) \in {"0x"} \X Roots
BY DEF Render

(* The environment's steps leave get_game_data's own variables alone, and  *)
(* games and outputs never change: only the portal, L2 and the op-node do. *)
LEMMA EnvFrame ==
  ASSUME EnvStep
  PROVE  /\ games' = games /\ outputs' = outputs
         /\ sent \subseteq sent'
BY DEF EnvStep, ProveWithdrawal, SendMessage, OpNodeSync

LEMMA IInvInit == Init => IInv
<1> SUFFICES ASSUME Init PROVE IInv
  OBVIOUS
<1>1. TypeOK
  <2>1. (CHOOSE r \in Roots : TRUE) \in Roots
    BY ResolverConstantsAssumption
  <2>2. /\ (CHOOSE h \in Hashes : TRUE) \in Hashes
        /\ (CHOOSE s \in Submitters : TRUE) \in Submitters
    BY ResolverConstantsAssumption
  <2>3. rootClaim \in {"0x"} \X Roots
    BY <2>1, RenderType DEF Init
  <2>4. call \in [hash : Hashes, submitter : Submitters, form : HashForms]
    BY <2>2 DEF Init, HashForms
  <2>5. /\ proven_withdrawals \in [Hashes \X Submitters -> Games \cup {ZeroAddress}]
        /\ games \in [Games -> [l2BlockNumber : L2Blocks, rootClaim : Roots]]
        /\ outputs \in [L2Blocks -> Roots]
        /\ op_node_head \in 0..MaxL2Block
        /\ sent \subseteq Hashes
    BY DEF Init, EnvInit
  <2>6. /\ rpc \in {"idle", "provenWithdrawals", "l2BlockNumber", "rootClaim",
                    "sentMessages", "outputAtBlock", "returned", "raised", "hung"}
        /\ gameProxyAddress \in Games \cup {ZeroAddress}
        /\ l2BlockNumber \in 0..MaxL2Block
        /\ sentMessages \in BOOLEAN
        /\ cause \in Causes \cup {"none"}
    <3>1. /\ rpc = "idle" /\ gameProxyAddress = ZeroAddress
          /\ l2BlockNumber = 0 /\ sentMessages = FALSE /\ cause = "none"
      BY DEF Init
    <3>2. l2BlockNumber \in 0..MaxL2Block
      BY <3>1, ResolverConstantsAssumption
    <3>3. QED
      BY <3>1, <3>2
  <2>7. QED
    BY <2>3, <2>4, <2>5, <2>6 DEF TypeOK
<1>2. GameRead /\ ClaimRead /\ MessagesRead /\ RecordFaithful
  BY DEF Init, GameRead, ClaimRead, MessagesRead, RecordFaithful
<1>3. QED
  BY <1>1, <1>2 DEF IInv

(* TypeOK after a step of get_game_data, from the types of what it        *)
(* assigned: the chains are unchanged.                                     *)
LEMMA CallTypeFrame ==
  ASSUME TypeOK, UNCHANGED envVars,
         rpc' \in {"idle", "provenWithdrawals", "l2BlockNumber", "rootClaim",
                   "sentMessages", "outputAtBlock", "returned", "raised", "hung"},
         call' \in [hash : Hashes, submitter : Submitters, form : HashForms],
         gameProxyAddress' \in Games \cup {ZeroAddress},
         l2BlockNumber' \in 0..MaxL2Block,
         rootClaim' \in {"0x"} \X Roots,
         sentMessages' \in BOOLEAN,
         cause' \in Causes \cup {"none"}
  PROVE  TypeOK'
BY DEF TypeOK, envVars

(* A raise keeps every read's value and the chains: only rpc and cause     *)
(* change, and IInv holds after it.                                        *)
LEMMA RaiseStep ==
  ASSUME IInv, UNCHANGED envVars, NEW c \in Causes, Raise(c)
  PROVE  IInv'
<1>1. TypeOK'
  BY CallTypeFrame DEF IInv, TypeOK, Raise
<1>2. (GameRead /\ ClaimRead /\ MessagesRead /\ RecordFaithful)'
  BY DEF Raise, GameRead, ClaimRead, MessagesRead, RecordFaithful
<1>3. QED
  BY <1>1, <1>2 DEF IInv

LEMMA IInvStep == IInv /\ [Next]_vars => IInv'
<1> SUFFICES ASSUME IInv, [Next]_vars PROVE IInv'
  OBVIOUS
<1>1. CASE ResolverStep /\ UNCHANGED envVars
  <2>0. /\ games' = games /\ outputs' = outputs /\ sent' = sent
        /\ op_node_head' = op_node_head /\ proven_withdrawals' = proven_withdrawals
    BY <1>1 DEF envVars
  <2>1. ASSUME NEW h \in Hashes, NEW s \in Submitters, NEW form \in HashForms,
               Call(h, s, form)
        PROVE  IInv'
    <3>1. TypeOK'
      BY <1>1, <2>1, CallTypeFrame DEF IInv, TypeOK, Call
    <3>2. (GameRead /\ ClaimRead /\ MessagesRead /\ RecordFaithful)'
      BY <2>1 DEF Call, GameRead, ClaimRead, MessagesRead, RecordFaithful
    <3>3. QED
      BY <3>1, <3>2 DEF IInv
  <2>2. CASE ReadProvenWithdrawal
    <3>1. CASE Raise("ValueError") \/ Raise("rpc")
      BY <1>1, <3>1, RaiseStep DEF Causes
    <3>2. CASE /\ gameProxyAddress' = proven_withdrawals[<<call.hash, call.submitter>>]
               /\ rpc' = "l2BlockNumber"
               /\ UNCHANGED <<call, l2BlockNumber, rootClaim, sentMessages, record, cause>>
      <4>1. gameProxyAddress' \in Games \cup {ZeroAddress}
        BY <3>2 DEF IInv, TypeOK
      <4>2. TypeOK'
        BY <1>1, <3>2, <4>1, CallTypeFrame DEF IInv, TypeOK
      <4>3. (GameRead /\ ClaimRead /\ MessagesRead /\ RecordFaithful)'
        BY <3>2 DEF GameRead, ClaimRead, MessagesRead, RecordFaithful
      <4>4. QED
        BY <4>2, <4>3 DEF IInv
    <3>3. QED
      BY <2>2, <3>1, <3>2 DEF ReadProvenWithdrawal
  <2>3. CASE ReadL2BlockNumber
    <3>1. CASE Raise("rpc") \/ Raise("BadFunctionCallOutput")
      BY <1>1, <3>1, RaiseStep DEF Causes
    <3>2. CASE /\ gameProxyAddress \in Games
               /\ l2BlockNumber' = FaultDisputeGame(gameProxyAddress).l2BlockNumber
               /\ rpc' = "rootClaim"
               /\ UNCHANGED <<call, gameProxyAddress, rootClaim, sentMessages, record, cause>>
      <4>1. l2BlockNumber' \in 0..MaxL2Block
        BY <3>2, ResolverConstantsAssumption DEF IInv, TypeOK, FaultDisputeGame, L2Blocks
      <4>2. TypeOK'
        BY <1>1, <3>2, <4>1, CallTypeFrame DEF IInv, TypeOK
      <4>3. GameRead'
        BY <2>0, <3>2 DEF GameRead, FaultDisputeGame
      <4>4. (ClaimRead /\ MessagesRead /\ RecordFaithful)'
        BY <3>2 DEF ClaimRead, MessagesRead, RecordFaithful
      <4>5. QED
        BY <4>2, <4>3, <4>4 DEF IInv
    <3>3. QED
      BY <2>3, <3>1, <3>2 DEF ReadL2BlockNumber
  <2>4. CASE ReadRootClaim
    <3>1. CASE Raise("rpc")
      BY <1>1, <3>1, RaiseStep DEF Causes
    <3>2. CASE /\ rootClaim' = Render(FaultDisputeGame(gameProxyAddress).rootClaim)
               /\ rpc' = "sentMessages"
               /\ UNCHANGED <<call, gameProxyAddress, l2BlockNumber, sentMessages, record, cause>>
      <4>0. rpc = "rootClaim"
        BY <2>4 DEF ReadRootClaim
      <4>1. gameProxyAddress \in Games
        BY <4>0 DEF IInv, GameRead
      <4>2. rootClaim' \in {"0x"} \X Roots
        BY <3>2, <4>1, RenderType DEF IInv, TypeOK, FaultDisputeGame
      <4>3. TypeOK'
        BY <1>1, <3>2, <4>2, CallTypeFrame DEF IInv, TypeOK
      <4>4. GameRead' /\ ClaimRead'
        BY <2>0, <3>2, <4>0 DEF IInv, GameRead, ClaimRead, FaultDisputeGame
      <4>5. (MessagesRead /\ RecordFaithful)'
        BY <3>2 DEF MessagesRead, RecordFaithful
      <4>6. QED
        BY <4>3, <4>4, <4>5 DEF IInv
    <3>3. QED
      BY <2>4, <3>1, <3>2 DEF ReadRootClaim
  <2>5. CASE ReadSentMessages
    <3>1. CASE Raise("rpc")
      BY <1>1, <3>1, RaiseStep DEF Causes
    <3>2. CASE /\ sentMessages' = (call.hash \in sent)
               /\ rpc' = "outputAtBlock"
               /\ UNCHANGED <<call, gameProxyAddress, l2BlockNumber, rootClaim, record, cause>>
      <4>0. rpc = "sentMessages"
        BY <2>5 DEF ReadSentMessages
      <4>1. TypeOK'
        BY <1>1, <3>2, CallTypeFrame DEF IInv, TypeOK
      <4>2. GameRead' /\ ClaimRead'
        BY <2>0, <3>2, <4>0 DEF IInv, GameRead, ClaimRead
      <4>3. MessagesRead'
        BY <2>0, <3>2 DEF MessagesRead
      <4>4. RecordFaithful'
        BY <3>2 DEF RecordFaithful
      <4>5. QED
        BY <4>1, <4>2, <4>3, <4>4 DEF IInv
    <3>3. QED
      BY <2>5, <3>1, <3>2 DEF ReadSentMessages
  <2>6. CASE ReadOutputAtBlock
    <3>0. rpc = "outputAtBlock"
      BY <2>6 DEF ReadOutputAtBlock
    <3>1. CASE Raise("HTTPError") \/ Raise("KeyError")
      BY <1>1, <3>1, RaiseStep DEF Causes
    <3>2. CASE /\ rpc' = "hung"
               /\ UNCHANGED <<call, gameProxyAddress, l2BlockNumber, rootClaim,
                              sentMessages, record, cause>>
      <4>1. TypeOK'
        BY <1>1, <3>2, CallTypeFrame DEF IInv, TypeOK
      <4>2. (GameRead /\ ClaimRead /\ MessagesRead)'
        BY <2>0, <3>0, <3>2 DEF IInv, GameRead, ClaimRead, MessagesRead
      <4>3. RecordFaithful'
        BY <3>2 DEF RecordFaithful
      <4>4. QED
        BY <4>1, <4>2, <4>3 DEF IInv
    <3>3. CASE /\ l2BlockNumber <= op_node_head
               /\ record' = [gameProxyAddress |-> gameProxyAddress,
                             l2BlockNumber |-> l2BlockNumber,
                             rootClaim |-> rootClaim,
                             sentMessages |-> sentMessages,
                             optimism_outputAtBlock |-> Render(outputs[l2BlockNumber])]
               /\ rpc' = "returned"
               /\ UNCHANGED <<call, gameProxyAddress, l2BlockNumber, rootClaim,
                              sentMessages, cause>>
      <4>1. TypeOK'
        BY <1>1, <3>3, CallTypeFrame DEF IInv, TypeOK
      <4>2. (GameRead /\ ClaimRead /\ MessagesRead)'
        BY <3>3 DEF GameRead, ClaimRead, MessagesRead
      <4>3. /\ gameProxyAddress \in Games
            /\ l2BlockNumber = games[gameProxyAddress].l2BlockNumber
            /\ rootClaim = Render(games[gameProxyAddress].rootClaim)
            /\ sentMessages => call.hash \in sent
        BY <3>0 DEF IInv, GameRead, ClaimRead, MessagesRead
      <4>4. RecordFaithful'
        BY <2>0, <3>3, <4>3 DEF RecordFaithful
      <4>5. QED
        BY <4>1, <4>2, <4>4 DEF IInv
    <3>4. QED
      BY <2>6, <3>1, <3>2, <3>3 DEF ReadOutputAtBlock
  <2>7. QED
    BY <1>1, <2>1, <2>2, <2>3, <2>4, <2>5, <2>6 DEF ResolverStep, ResolverReads
<1>2. CASE EnvStep /\ UNCHANGED callVars
  <2>1. /\ games' = games /\ outputs' = outputs /\ sent \subseteq sent'
    BY <1>2, EnvFrame
  <2>2. TypeOK'
    <3>1. /\ proven_withdrawals' \in [Hashes \X Submitters -> Games \cup {ZeroAddress}]
          /\ op_node_head' \in 0..MaxL2Block
          /\ sent' \subseteq Hashes
      <4>1. CASE \E h \in Hashes, s \in Submitters, g \in Games : ProveWithdrawal(h, s, g)
        BY <4>1 DEF IInv, TypeOK, ProveWithdrawal
      <4>2. CASE \E h \in Hashes : SendMessage(h)
        BY <4>2 DEF IInv, TypeOK, SendMessage
      <4>3. CASE OpNodeSync
        BY <4>3, ResolverConstantsAssumption DEF IInv, TypeOK, OpNodeSync
      <4>4. QED
        BY <1>2, <4>1, <4>2, <4>3 DEF EnvStep
    <3>2. QED
      BY <1>2, <2>1, <3>1 DEF IInv, TypeOK, callVars
  <2>3. (GameRead /\ ClaimRead)'
    BY <1>2, <2>1 DEF IInv, GameRead, ClaimRead, callVars
  <2>4. (MessagesRead /\ RecordFaithful)'
    BY <1>2, <2>1 DEF IInv, MessagesRead, RecordFaithful, callVars
  <2>5. QED
    BY <2>2, <2>3, <2>4 DEF IInv
<1>3. CASE UNCHANGED vars
  BY <1>3 DEF vars, envVars, callVars, IInv, TypeOK, GameRead, ClaimRead,
              MessagesRead, RecordFaithful
<1>4. QED
  BY <1>1, <1>2, <1>3 DEF Next

(* get_game_data's variables keep their types in every reachable state:   *)
(* in particular rootClaim() is only ever read from an address that is a   *)
(* game, so the rendered claim is a "0x"-prefixed root.                    *)
THEOREM ResolverTypeCorrect == Spec => []TypeOK
<1>1. IInv => TypeOK
  BY DEF IInv
<1>2. QED
  BY IInvInit, IInvStep, <1>1, PTL DEF Spec

(* The record get_game_data returns is faithful to one game, whatever      *)
(* re-proofs, L2 messages and op-node syncing happen between its reads:    *)
(* the game exists, block and root claim are that game's, the output root  *)
(* is the canonical one at its block, and sentMessages is true only for a  *)
(* sent message.                                                           *)
THEOREM RecordFaithfulness == Spec => []RecordFaithful
<1>1. IInv => RecordFaithful
  BY DEF IInv
<1>2. QED
  BY IInvInit, IInvStep, <1>1, PTL DEF Spec
=============================================================================
