-------------------------- MODULE LegacyScannerProofs --------------------------
(***************************************************************************)
(* Proofs about the runbooks copy of find_latest_withdrawal_event: it is   *)
(* well typed, and its every step is a step of the current copy's          *)
(* specification or a stutter, for every MaxBlock, batch_size >= 1 and set *)
(* of failing calls.                                                       *)
(***************************************************************************)
EXTENDS LegacyScanner, TLAPS

(* Between get_logs and the use of its answer, the answer is still what a  *)
(* get_logs on the same window would return now: the window lies at or     *)
(* below latest_block, hence at or below the head, and L1 only adds blocks *)
(* above the head.                                                         *)
AnswerCurrent ==
  /\ stage \in {"loop", "logs"} => current_block <= latest_block /\ latest_block <= head
  /\ stage = "logs" =>
        /\ current_block > 0
        /\ logs = {b \in proven : FromBlock(current_block) <= b /\ b <= current_block}

IInv == LegacyTypeOK /\ AnswerCurrent

-----------------------------------------------------------------------------
(* from_block = max(0, current_block - batch_size) is a block at or below  *)
(* current_block, and below it when current_block > 0.                     *)
LEMMA FromBlockBounds ==
  ASSUME NEW c \in Blocks
  PROVE  /\ FromBlock(c) \in Blocks
         /\ FromBlock(c) <= c
         /\ c > 0 => FromBlock(c) < c
BY LegacyAssumption, MaxBlockAssumption DEF FromBlock, Blocks

LEMMA IInvInit == Init => IInv
BY MaxBlockAssumption DEF Init, ChainInit, IInv, LegacyTypeOK, ChainTypeOK,
                          AnswerCurrent, Blocks

LEMMA IInvStep == IInv /\ [Next]_vars => IInv'
<1> SUFFICES ASSUME IInv, [Next]_vars PROVE IInv'
  OBVIOUS
<1> USE MaxBlockAssumption DEF IInv, LegacyTypeOK, ChainTypeOK, AnswerCurrent, Blocks, chainVars
<1>1. CASE ReadBlockNumber
  BY <1>1 DEF ReadBlockNumber
<1>2. CASE GetLogs
  <2>1. FromBlock(current_block) \in Blocks /\ FromBlock(current_block) < current_block
    BY <1>2, FromBlockBounds DEF GetLogs
  <2>2. CASE /\ logs' = {b \in proven : FromBlock(current_block) <= b /\ b <= current_block}
             /\ stage' = "logs"
             /\ UNCHANGED <<current_block, errors>>
    <3>0. proven \subseteq 1..head /\ head \in 0..MaxBlock
      OBVIOUS
    <3>1. logs' \subseteq Blocks
      <4>1. ASSUME NEW b \in logs' PROVE b \in 0..MaxBlock
        BY <2>2, <3>0, <4>1
      <4>2. QED
        BY <4>1
    <3>2. current_block > 0 /\ stage = "loop"
      BY <1>2 DEF GetLogs
    <3>3. QED
      BY <1>2, <2>2, <3>1, <3>2 DEF GetLogs
  <2>3. CASE PrintAndMove("eth_getLogs") /\ UNCHANGED logs
    <3>1. errors' \subseteq [from : Blocks, to : Blocks,
                             call : {"eth_getLogs", "eth_getBlockByNumber"}]
      BY <2>1, <2>3 DEF PrintAndMove
    <3>2. QED
      BY <1>2, <2>1, <2>3, <3>1 DEF GetLogs, PrintAndMove
  <2>4. QED
    BY <1>2, <2>2, <2>3 DEF GetLogs
<1>3. CASE EmptyWindow
  BY <1>3, FromBlockBounds DEF EmptyWindow
<1>4. CASE ReturnLast
  <2>1. FromBlock(current_block) \in Blocks
    BY FromBlockBounds
  <2>2. CASE /\ \E r \in logs : TakeLast(r) /\ result' = r
             /\ stage' = "found"
             /\ UNCHANGED <<current_block, errors>>
    <3>1. logs \subseteq Blocks
      BY <1>4 DEF ReturnLast
    <3>2. QED
      BY <1>4, <2>2, <3>1 DEF ReturnLast
  <2>3. CASE PrintAndMove("eth_getBlockByNumber") /\ UNCHANGED result
    <3>1. errors' \subseteq [from : Blocks, to : Blocks,
                             call : {"eth_getLogs", "eth_getBlockByNumber"}]
      BY <2>1, <2>3 DEF PrintAndMove
    <3>2. FromBlock(current_block) < current_block
      BY <1>4, FromBlockBounds DEF ReturnLast
    <3>3. QED
      BY <1>4, <2>1, <2>3, <3>1, <3>2 DEF ReturnLast, PrintAndMove
  <2>4. QED
    BY <1>4, <2>2, <2>3 DEF ReturnLast
<1>5. CASE Exhausted
  BY <1>5 DEF Exhausted
<1>6. CASE NewBlock /\ UNCHANGED legacyVars
  <2>1. stage = "logs" =>
          logs' = {b \in proven' : FromBlock(current_block') <= b /\ b <= current_block'}
    BY <1>6 DEF NewBlock, legacyVars
  <2>2. QED
    BY <1>6, <2>1 DEF NewBlock, legacyVars
<1>7. CASE UNCHANGED vars
  BY <1>7 DEF vars, chainVars, legacyVars
<1>8. QED
  BY <1>1, <1>2, <1>3, <1>4, <1>5, <1>6, <1>7 DEF Next, LegacyNext

(* The runbooks copy is always well typed.                                 *)
THEOREM LegacyTypeCorrect == Spec => []LegacyTypeOK
<1>1. IInv => LegacyTypeOK
  BY DEF IInv
<1>2. QED
  BY <1>1, IInvInit, IInvStep, PTL DEF Spec

-----------------------------------------------------------------------------
(* The refinement: the older copy's states map to the current copy's with  *)
(* the answer of get_logs in hand ("logs") seen as still inside the loop.  *)
LEMMA RefineInit == Init => Current!Init
BY DEF Init, ChainInit, Current!Init, Current!ChainInit, Current!ScanInit,
       Blocks, Current!Blocks

(* Every step of the older copy is a step of the current copy on the same  *)
(* window, or a stutter: holding the answer of get_logs over a new L1 block *)
(* changes nothing, since the block lies above the window.                 *)
LEMMA RefineStep == IInv /\ [Next]_vars => [Current!Next]_(Current!vars)
<1> SUFFICES ASSUME IInv, [Next]_vars PROVE [Current!Next]_(Current!vars)
  OBVIOUS
<1> USE DEF IInv, AnswerCurrent, chainVars, Current!chainVars
<1> DEFINE w == Current!WindowOf(current_block)
<1>0. w = [from |-> FromBlock(current_block), to |-> current_block]
  BY DEF Current!WindowOf, Current!FromBlock, FromBlock
<1>1. CASE ReadBlockNumber
  BY <1>1 DEF ReadBlockNumber, Current!Next, Current!ScanNext, Current!ReadBlockNumber
<1>2. CASE GetLogs
  <2>1. CASE /\ logs' = {b \in proven : FromBlock(current_block) <= b /\ b <= current_block}
             /\ stage' = "logs"
             /\ UNCHANGED <<current_block, errors>>
    BY <1>2, <2>1 DEF GetLogs, Current!vars, Current!scanVars
  <2>2. CASE PrintAndMove("eth_getLogs") /\ UNCHANGED logs
    <3>1. Current!SkipWindow(w, "eth_getLogs")
      BY <1>0, <1>2, <2>2 DEF GetLogs, PrintAndMove, Current!SkipWindow
    <3>2. QED
      BY <1>2, <3>1 DEF GetLogs, Current!Next, Current!ScanNext, Current!ScanBatch
  <2>3. QED
    BY <1>2, <2>1, <2>2 DEF GetLogs
<1>3. CASE EmptyWindow
  <2>1. Current!LogsIn(w) = {}
    BY <1>0, <1>3 DEF EmptyWindow, Current!LogsIn
  <2>2. QED
    BY <1>0, <1>3, <2>1 DEF EmptyWindow, Current!Next, Current!ScanNext, Current!ScanBatch
<1>4. CASE ReturnLast
  <2>1. Current!LogsIn(w) = logs /\ logs # {} /\ stage = "logs" /\ current_block > 0
    BY <1>0, <1>4 DEF ReturnLast, Current!LogsIn
  <2>2. CASE /\ \E r \in logs : TakeLast(r) /\ result' = r
             /\ stage' = "found"
             /\ UNCHANGED <<current_block, errors>>
    <3>1. \E r \in Current!LogsIn(w) : Current!LastLog(Current!LogsIn(w), r) /\ result' = r
      BY <2>1, <2>2 DEF TakeLast, Current!LastLog
    <3>2. QED
      BY <1>4, <2>1, <2>2, <3>1 DEF ReturnLast, Current!Next, Current!ScanNext, Current!ScanBatch
  <2>3. CASE PrintAndMove("eth_getBlockByNumber") /\ UNCHANGED result
    <3>1. Current!SkipWindow(w, "eth_getBlockByNumber")
      BY <1>0, <1>4, <2>3 DEF ReturnLast, PrintAndMove, Current!SkipWindow
    <3>2. QED
      BY <1>4, <2>1, <3>1 DEF ReturnLast, Current!Next, Current!ScanNext, Current!ScanBatch
  <2>4. QED
    BY <1>4, <2>2, <2>3 DEF ReturnLast
<1>5. CASE Exhausted
  BY <1>5 DEF Exhausted, Current!Next, Current!ScanNext, Current!Exhausted
<1>6. CASE NewBlock /\ UNCHANGED legacyVars
  BY <1>6 DEF legacyVars, NewBlock, Current!Next, Current!NewBlock, Current!scanVars
<1>7. CASE UNCHANGED vars
  BY <1>7 DEF vars, legacyVars, Current!vars, Current!scanVars
<1>8. QED
  BY <1>1, <1>2, <1>3, <1>4, <1>5, <1>6, <1>7 DEF Next, LegacyNext

(* The older copy's behaviours are behaviours of the current copy's        *)
(* specification, fairness aside: same windows, same printed errors, same  *)
(* result and outcome, for every chain, batch size and set of failing      *)
(* calls.  (CurrentSpec, with the fairness part, is checked by TLC.)      *)
THEOREM RefinesCurrentSafety == Spec => Current!Init /\ [][Current!Next]_(Current!vars)
BY RefineInit, RefineStep, IInvInit, IInvStep, PTL DEF Spec
=============================================================================
