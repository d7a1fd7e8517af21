------------------------- MODULE EventScannerProofs -------------------------
(***************************************************************************)
(* Proofs about the backward scan of find_latest_withdrawal_event, for     *)
(* every MaxBlock, batch_size >= 1 and set of failing calls.               *)
(***************************************************************************)
EXTENDS EventScanner, TLAPS

(* The window of a step lies within 0..current_block.                      *)
LEMMA WindowBounds ==
  ASSUME NEW c \in Blocks
  PROVE  /\ WindowOf(c).from \in Blocks
         /\ WindowOf(c).to = c
         /\ WindowOf(c).from <= c
         /\ c > 0 => WindowOf(c).from < c
BY BatchSizeAssumption, MaxBlockAssumption DEF WindowOf, FromBlock, Blocks

-----------------------------------------------------------------------------
(* Type correctness.                                                       *)
LEMMA TypeInit == Init => TypeOK
BY MaxBlockAssumption DEF Init, ChainInit, ScanInit, TypeOK, ChainTypeOK, Blocks

LEMMA TypeStep == TypeOK /\ [Next]_vars => TypeOK'
<1> SUFFICES ASSUME TypeOK, [Next]_vars PROVE TypeOK'
  OBVIOUS
<1> USE MaxBlockAssumption DEF TypeOK, ChainTypeOK, chainVars, Blocks
<1>1. CASE ReadBlockNumber
  BY <1>1 DEF ReadBlockNumber, Done
<1>2. CASE ScanBatch
  <2> DEFINE w == WindowOf(current_block)
             logs == LogsIn(w)
  <2>1. w.from \in Blocks /\ w.to \in Blocks
    BY WindowBounds
  <2>2. CASE SkipWindow(w, "eth_getLogs") \/ SkipWindow(w, "eth_getBlockByNumber")
    BY <1>2, <2>1, <2>2 DEF ScanBatch, SkipWindow, RpcCalls
  <2>3. CASE logs = {} /\ current_block' = w.from /\ UNCHANGED <<pc, result, errors>>
    BY <1>2, <2>1, <2>3 DEF ScanBatch
  <2>4. CASE (\E r \in logs : LastLog(logs, r) /\ result' = r)
             /\ pc' = "found" /\ UNCHANGED <<current_block, errors>>
    BY <1>2, <2>4 DEF ScanBatch, LogsIn, Blocks, Done
  <2>5. QED
    BY <1>2, <2>2, <2>3, <2>4 DEF ScanBatch
<1>3. CASE Exhausted
  BY <1>3 DEF Exhausted, Done
<1>4. CASE NewBlock /\ UNCHANGED scanVars
  BY <1>4 DEF NewBlock, scanVars, Blocks
<1>5. CASE UNCHANGED vars
  BY <1>5 DEF vars, chainVars, scanVars
<1>6. QED
  BY <1>1, <1>2, <1>3, <1>4, <1>5 DEF Next, ScanNext

(* Every state of the scan is well typed.                                  *)
THEOREM TypeCorrect == Spec => []TypeOK
BY TypeInit, TypeStep, PTL DEF Spec

-----------------------------------------------------------------------------
(***************************************************************************)
(* ScanSound is not inductive by itself: a step that skips or passes a     *)
(* window must know that the window lies below latest_block, and a new     *)
(* block must not add a log below it.  IInv adds that the scanned range    *)
(* current_block..latest_block lies at or below the L1 head.               *)
(***************************************************************************)
IInv ==
  /\ TypeOK
  /\ pc \in {"loop", "found", "notFound"} => latest_block <= head
  /\ pc = "loop" => current_block <= latest_block
  /\ ScanSound

LEMMA IInvInit == Init => IInv
BY TypeInit DEF Init, ScanInit, IInv, ScanSound

LEMMA IInvStep == IInv /\ [Next]_vars => IInv'
<1> SUFFICES ASSUME IInv, [Next]_vars PROVE IInv'
  OBVIOUS
<1>0. TypeOK'
  BY TypeStep DEF IInv
<1> USE <1>0, MaxBlockAssumption DEF IInv, TypeOK, ChainTypeOK, Blocks
<1>1. CASE ReadBlockNumber
  BY <1>0, <1>1 DEF ReadBlockNumber, ScanSound, Floor, chainVars
<1>2. CASE ScanBatch
  <2> DEFINE w == WindowOf(current_block)
             logs == LogsIn(w)
  <2>0. /\ pc = "loop" /\ current_block > 0
        /\ w.to = current_block /\ w.from \in Blocks /\ w.from <= current_block
        /\ UNCHANGED <<latest_block, head, proven>>
    BY <1>2, WindowBounds DEF ScanBatch, chainVars
  <2>1. CASE SkipWindow(w, "eth_getLogs") \/ SkipWindow(w, "eth_getBlockByNumber")
    <3>1. PICK c \in RpcCalls :
                /\ pc' = "loop" /\ current_block' = w.from
                /\ errors' = errors \cup {[from |-> w.from, to |-> w.to, call |-> c]}
      BY <2>0, <2>1 DEF SkipWindow, RpcCalls
    <3>2. ASSUME NEW b \in proven', Floor' < b, b <= latest_block'
          PROVE  Logged(b)'
      <4>1. CASE b <= current_block
        <5> DEFINE e == [from |-> w.from, to |-> w.to, call |-> c]
        <5>1. e \in errors' /\ e.from <= b /\ b <= e.to
          BY <2>0, <3>1, <3>2, <4>1 DEF Floor
        <5>2. QED
          BY <5>1 DEF Logged
      <4>2. CASE b > current_block
        <5>1. Logged(b)
          BY <2>0, <3>2, <4>2 DEF ScanSound, Floor
        <5>2. QED
          BY <3>1, <5>1 DEF Logged
      <4>3. QED
        BY <4>1, <4>2
    <3>3. QED
      BY <2>0, <3>1, <3>2 DEF ScanSound
  <2>2. CASE logs = {} /\ current_block' = w.from /\ UNCHANGED <<pc, result, errors>>
    <3>1. ASSUME NEW b \in proven', Floor' < b, b <= latest_block'
          PROVE  Logged(b)'
      <4>1. b > current_block
        BY <2>0, <2>2, <3>1 DEF LogsIn, Floor
      <4>2. QED
        BY <2>0, <2>2, <3>1, <4>1 DEF ScanSound, Floor, Logged
    <3>2. QED
      BY <2>0, <2>2, <3>1 DEF ScanSound
  <2>3. CASE (\E r \in logs : LastLog(logs, r) /\ result' = r)
             /\ pc' = "found" /\ UNCHANGED <<current_block, errors>>
    <3>1. /\ result' \in proven /\ result' >= w.from /\ result' <= current_block
          /\ \A b \in logs : b <= result'
      BY <2>0, <2>3 DEF LastLog, LogsIn
    <3>2. ASSUME NEW b \in proven', Floor' < b, b <= latest_block'
          PROVE  Logged(b)'
      <4>1. b > current_block
        BY <2>0, <2>3, <3>1, <3>2 DEF LogsIn, Floor
      <4>2. QED
        BY <2>0, <2>3, <3>2, <4>1 DEF ScanSound, Floor, Logged
    <3>3. QED
      BY <2>0, <2>3, <3>1, <3>2 DEF ScanSound
  <2>4. QED
    BY <1>2, <2>1, <2>2, <2>3 DEF ScanBatch
<1>3. CASE Exhausted
  BY <1>3 DEF Exhausted, ScanSound, Floor, Logged, chainVars
<1>4. CASE NewBlock /\ UNCHANGED scanVars
  <2>1. /\ head' = head + 1
        /\ proven \subseteq proven' /\ proven' \subseteq proven \cup {head + 1}
        /\ UNCHANGED <<pc, latest_block, current_block, result, errors>>
    BY <1>4 DEF NewBlock, scanVars
  <2>2. pc \in {"loop", "found", "notFound"} =>
           \A b \in proven' : b <= latest_block => b \in proven
    BY <2>1
  <2>3. ScanSound'
    BY <2>1, <2>2 DEF ScanSound, Floor, Logged
  <2>4. QED
    BY <2>1, <2>3
<1>5. CASE UNCHANGED vars
  BY <1>5 DEF vars, chainVars, scanVars, ScanSound, Floor, Logged
<1>6. QED
  BY <1>1, <1>2, <1>3, <1>4, <1>5 DEF Next, ScanNext

(* find_latest_withdrawal_event never passes over a proven log silently:   *)
(* for every chain, batch size and set of failing calls, the returned log  *)
(* is proven and at or below latest_block, and every proven log between   *)
(* it (or the current window) and latest_block lies in a printed window.   *)
THEOREM ScanSoundness == Spec => []ScanSound
<1>1. IInv => ScanSound
  BY DEF IInv
<1>2. QED
  BY IInvInit, IInvStep, <1>1, PTL DEF Spec


-----------------------------------------------------------------------------
(***************************************************************************)
(* The refinement of LatestWithdrawal (the scan_refines_latest run), when  *)
(* neither call inside the loop's try block can fail.  Under the mapping   *)
(* of EventScanner's Latest, ReadBlockNumber is Begin or Fail, a window    *)
(* with no logs is a stutter, and returning logs[-1] or leaving the loop   *)
(* is Answer; a new L1 block is a new L1 block.                            *)
(***************************************************************************)
NoWindowFailures == FailingCalls \cap {"eth_getLogs", "eth_getBlockByNumber"} = {}

(* Nothing was printed, so ScanSound leaves no proven log between the      *)
(* floor and latest_block; before the call started nothing was read.       *)
RInv ==
  /\ IInv
  /\ errors = {}
  /\ pc = "call" => latest_block = 0 /\ result = 0

LEMMA RInvInit == Init => RInv
BY IInvInit DEF Init, ScanInit, RInv

(* With no window failing, no window is ever printed.                      *)
LEMMA RInvStep ==
  ASSUME NoWindowFailures
  PROVE  RInv /\ [Next]_vars => RInv'
<1> SUFFICES ASSUME RInv, [Next]_vars PROVE RInv'
  OBVIOUS
<1>1. IInv'
  BY IInvStep DEF RInv
<1>2. errors' = errors
  <2>1. CASE ReadBlockNumber
    BY <2>1 DEF ReadBlockNumber
  <2>2. CASE ScanBatch
    <3> DEFINE w == WindowOf(current_block)
    <3>1. ~SkipWindow(w, "eth_getLogs") /\ ~SkipWindow(w, "eth_getBlockByNumber")
      BY DEF NoWindowFailures, SkipWindow
    <3>2. QED
      BY <2>2, <3>1 DEF ScanBatch
  <2>3. CASE Exhausted
    BY <2>3 DEF Exhausted
  <2>4. CASE NewBlock /\ UNCHANGED scanVars
    BY <2>4 DEF scanVars
  <2>5. CASE UNCHANGED vars
    BY <2>5 DEF vars, scanVars
  <2>6. QED
    BY <2>1, <2>2, <2>3, <2>4, <2>5 DEF Next, ScanNext
<1>3. pc' = "call" => pc = "call" /\ UNCHANGED <<latest_block, result>>
  BY DEF Next, ScanNext, ReadBlockNumber, ScanBatch, SkipWindow, Exhausted, vars, scanVars
<1>4. QED
  BY <1>1, <1>2, <1>3 DEF RInv

LEMMA RefineInit == Init => Latest!LInit
BY DEF Init, ScanInit, Latest!LInit, ChainInit, Latest!ChainInit, Blocks, Latest!Blocks

(* Every step of the scan is a step of LatestWithdrawal or a stutter.      *)
LEMMA RefineStep ==
  ASSUME NoWindowFailures
  PROVE  RInv /\ [Next]_vars => [Latest!LNext]_(Latest!avars)
<1> SUFFICES ASSUME RInv, [Next]_vars PROVE [Latest!LNext]_(Latest!avars)
  OBVIOUS
<1> USE MaxBlockAssumption DEF RInv, IInv, TypeOK, ChainTypeOK, Blocks, chainVars,
                               Latest!chainVars
<1> DEFINE Cand == {b \in proven : b <= latest_block}
<1>0. Latest!Candidates = Cand
  BY DEF Latest!Candidates
(* No proven log lies above the floor and at or below latest_block.       *)
<1>1. pc \in {"loop", "found", "notFound"} =>
        \A b \in proven : Floor < b /\ b <= latest_block => FALSE
  BY DEF ScanSound, Logged
<1>2. CASE ReadBlockNumber
  BY <1>2 DEF ReadBlockNumber, Latest!LNext, Latest!Begin, Latest!Fail
<1>3. CASE ScanBatch
  <2> DEFINE w == WindowOf(current_block)
             logs == LogsIn(w)
  <2>0. /\ pc = "loop" /\ current_block > 0 /\ current_block <= latest_block
        /\ w.to = current_block /\ w.from \in Blocks /\ w.from <= current_block
        /\ UNCHANGED <<latest_block, head, proven>>
    BY <1>3, WindowBounds DEF ScanBatch
  <2>1. ~SkipWindow(w, "eth_getLogs") /\ ~SkipWindow(w, "eth_getBlockByNumber")
    BY DEF NoWindowFailures, SkipWindow
  <2>2. CASE logs = {} /\ current_block' = w.from /\ UNCHANGED <<pc, result, errors>>
    BY <2>0, <2>2 DEF Latest!avars
  <2>3. CASE (\E r \in logs : LastLog(logs, r) /\ result' = r)
             /\ pc' = "found" /\ UNCHANGED <<current_block, errors>>
    <3>1. PICK r \in logs : LastLog(logs, r) /\ result' = r
      BY <2>3
    <3>2. r \in Cand /\ r >= w.from
      BY <2>0, <3>1 DEF LogsIn
    <3>3. ASSUME NEW b \in Cand PROVE b <= r
      <4>1. CASE b > current_block
        BY <1>1, <2>0, <3>3, <4>1 DEF Floor
      <4>2. CASE b < w.from
        BY <2>0, <3>2, <4>2
      <4>3. CASE b >= w.from /\ b <= current_block
        BY <2>0, <3>1, <3>3, <4>3 DEF LogsIn, LastLog
      <4>4. QED
        BY <2>0, <3>3, <4>1, <4>2, <4>3
    <3>4. Latest!Answer
      BY <1>0, <2>0, <2>3, <3>1, <3>2, <3>3 DEF Latest!Answer
    <3>5. QED
      BY <3>4 DEF Latest!LNext
  <2>4. QED
    BY <1>3, <2>1, <2>2, <2>3 DEF ScanBatch
<1>4. CASE Exhausted
  <2>1. pc = "loop" /\ current_block = 0
    BY <1>4 DEF Exhausted
  <2>2. Cand = {}
    <3>1. ASSUME NEW b \in Cand PROVE FALSE
      <4>1. Floor < b /\ b <= latest_block
        BY <2>1, <3>1 DEF Floor
      <4>2. QED
        BY <1>1, <2>1, <3>1, <4>1
    <3>2. QED
      BY <3>1
  <2>3. Latest!Answer
    BY <1>0, <1>4, <2>1, <2>2 DEF Exhausted, Latest!Answer
  <2>4. QED
    BY <2>3 DEF Latest!LNext
<1>5. CASE NewBlock /\ UNCHANGED scanVars
  BY <1>5 DEF NewBlock, Latest!NewBlock, scanVars, Latest!LNext
<1>6. CASE UNCHANGED vars
  BY <1>6 DEF vars, scanVars, Latest!avars
<1>7. QED
  BY <1>2, <1>3, <1>4, <1>5, <1>6 DEF Next, ScanNext

(* When only eth_blockNumber can fail, find_latest_withdrawal_event        *)
(* implements its one-step specification, fairness aside: it returns the   *)
(* latest proven log at or below the head it read first, or raises "No     *)
(* WithdrawalProven event found" exactly when there is none, for every     *)
(* chain, MaxBlock and batch_size >= 1.  (LatestSpec, with its fairness,   *)
(* is checked by TLC.)                                                     *)
THEOREM RefinesLatestSafety ==
  ASSUME NoWindowFailures
  PROVE  Spec => Latest!LInit /\ [][Latest!LNext]_(Latest!avars)
BY RefineInit, RefineStep, RInvInit, RInvStep, PTL DEF Spec
=============================================================================
