-------------------------- MODULE QueryConfigProofs ---------------------------
(***************************************************************************)
(* Facts about the positions the nested loops of process_queries visit,    *)
(* shared by the proofs about checker.py and setup/query_exec.py.          *)
(***************************************************************************)
EXTENDS QueryConfig, SequenceTheorems, TLAPS

(* What QueryConfigAssumption gives about the config's shape.              *)
LEMMA ConfigShape ==
  /\ Len(Checks) \in Nat
  /\ \A i \in 1..Len(Checks) :
        /\ Len(Checks[i].Queries) \in Nat
        /\ Checks[i].Path \in Paths
        /\ \A j \in 1..Len(Checks[i].Queries) : Checks[i].Queries[j] \in DOMAIN QueryDef
<1>1. Checks \in Seq([Path : Paths, Queries : Seq(DOMAIN QueryDef)])
  BY QueryConfigAssumption
<1>2. ASSUME NEW i \in 1..Len(Checks)
      PROVE  Checks[i] \in [Path : Paths, Queries : Seq(DOMAIN QueryDef)]
  BY <1>1, ElementOfSeq
<1>3. ASSUME NEW i \in 1..Len(Checks)
      PROVE  /\ Len(Checks[i].Queries) \in Nat
             /\ \A j \in 1..Len(Checks[i].Queries) : Checks[i].Queries[j] \in DOMAIN QueryDef
  BY <1>2, ElementOfSeq, LenProperties
<1>4. QED
  BY <1>1, <1>2, <1>3, LenProperties

(* A position is a (check, query) pair of the config.                      *)
LEMMA SlotIsPair ==
  ASSUME NEW s \in Slots
  PROVE  /\ s = <<s[1], s[2]>>
         /\ s[1] \in 1..Len(Checks)
         /\ s[2] \in 1..Len(Checks[s[1]].Queries)
BY DEF Slots

LEMMA PairIsSlot ==
  ASSUME NEW i \in 1..Len(Checks), NEW j \in 1..Len(Checks[i].Queries)
  PROVE  <<i, j>> \in Slots
BY DEF Slots

(* At every position there is a defined query and a script.                *)
LEMMA SlotTypes ==
  ASSUME NEW s \in Slots
  PROVE  QueryAt(s) \in DOMAIN QueryDef /\ ScriptAt(s) \in Paths
BY SlotIsPair, ConfigShape DEF QueryAt, ScriptAt

(* No position comes before itself.                                        *)
LEMMA EarlierIrreflexive ==
  ASSUME NEW s \in Slots
  PROVE  ~Earlier(s, s)
BY SlotIsPair DEF Earlier

(* Moving the inner loop on by one leaves behind exactly the query it was  *)
(* at.                                                                     *)
LEMMA EarlierNextQuery ==
  ASSUME NEW c \in Nat, NEW q \in Nat, NEW s \in Slots
  PROVE  Earlier(s, <<c, q + 1>>) <=> Earlier(s, <<c, q>>) \/ s = <<c, q>>
BY SlotIsPair DEF Earlier

(* Moving the outer loop on, once the check's queries are exhausted,       *)
(* leaves no further position behind.                                      *)
LEMMA EarlierNextCheck ==
  ASSUME NEW c \in 1..Len(Checks), NEW q \in Nat, q > Len(Checks[c].Queries),
         NEW s \in Slots
  PROVE  Earlier(s, <<c + 1, 1>>) <=> Earlier(s, <<c, q>>)
BY SlotIsPair, ConfigShape DEF Earlier

(* Past the last check, every position is behind the loops.                *)
LEMMA EarlierPastLast ==
  ASSUME NEW c \in Nat, c > Len(Checks), NEW q, NEW s \in Slots
  PROVE  Earlier(s, <<c, q>>)
BY SlotIsPair, ConfigShape DEF Earlier


=============================================================================
