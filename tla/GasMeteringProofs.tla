------------------------- MODULE GasMeteringProofs -------------------------
(***************************************************************************)
(* Net gas metering never takes the refund counter below what the cleared  *)
(* slots are worth, for any number of slots, frames and transactions.      *)
(*                                                                         *)
(* RefundCovers alone is not inductive: a frame that fails restores the    *)
(* slots and the counter of its snapshot, so every snapshot has to cover   *)
(* its own cleared slots.                                                  *)
(***************************************************************************)
EXTENDS GasMetering, FiniteSetTheorems, SequenceTheorems, TLAPS

Snapshot == [current: [Slot -> Value], refund: Int]

TypeInv == /\ clears \in Nat
           /\ original \in [Slot -> Value] /\ current \in [Slot -> Value]
           /\ refund \in Int
           /\ saved \in Seq(Snapshot)

Covers(counter, values) == counter >= clears * Cardinality(ClearedSlots(values))

IInv == /\ TypeInv
        /\ Covers(refund, current)
        /\ \A i \in 1 .. Len(saved) : Covers(saved[i].refund, saved[i].current)

\* The set of cleared slots is finite, and its size a natural number.
LEMMA ClearedFinite ==
    ASSUME IsFiniteSet(Slot), NEW values
    PROVE  IsFiniteSet(ClearedSlots(values)) /\ Cardinality(ClearedSlots(values)) \in Nat
BY FS_Subset, FS_CardinalityType DEF ClearedSlots

\* Writing one slot adds that slot to the cleared ones, takes it out, or leaves
\* them as they are.
LEMMA WriteClears ==
    ASSUME IsFiniteSet(Slot), TypeInv, NEW x \in Slot, NEW v \in Value, NEW values,
           values = [current EXCEPT ![x] = v]
    PROVE  Cardinality(ClearedSlots(values)) =
             Cardinality(ClearedSlots(current))
               + (IF IsCleared(x, v) /\ ~IsCleared(x, current[x]) THEN 1
                  ELSE IF IsCleared(x, current[x]) /\ ~IsCleared(x, v) THEN 0 - 1 ELSE 0)
<1> DEFINE S == ClearedSlots(current)
           T == ClearedSlots(values)
<1>1. IsFiniteSet(S) /\ Cardinality(S) \in Nat /\ IsFiniteSet(T) /\ Cardinality(T) \in Nat
  BY ClearedFinite
<1>2. values[x] = v /\ \A y \in Slot \ {x} : values[y] = current[y]
  BY DEF TypeInv
<1>3. x \in S <=> IsCleared(x, current[x])
  BY DEF ClearedSlots
<1>4. x \in T <=> IsCleared(x, v)
  BY <1>2 DEF ClearedSlots
<1>5. \A y \in Slot \ {x} : y \in T <=> y \in S
  BY <1>2 DEF ClearedSlots
<1>6. S \subseteq Slot /\ T \subseteq Slot
  BY DEF ClearedSlots
<1>7. CASE x \in T /\ x \notin S
  <2>1. T = S \cup {x}
    BY <1>5, <1>6, <1>7
  <2>2. Cardinality(T) = Cardinality(S) + 1
    BY <2>1, <1>1, <1>7, FS_AddElement
  <2> QED BY <2>2, <1>3, <1>4, <1>7
<1>8. CASE x \in S /\ x \notin T
  <2>1. T = S \ {x}
    BY <1>5, <1>6, <1>8
  <2>2. Cardinality(T) = Cardinality(S) - 1
    BY <2>1, <1>1, <1>8, FS_RemoveElement
  <2> QED BY <2>2, <1>1, <1>3, <1>4, <1>8
<1>9. CASE x \in S <=> x \in T
  <2>0. \A y \in Slot : y \in T <=> y \in S
    BY <1>5, <1>9
  <2>1. T = S
    <3> HIDE DEF S, T
    <3> QED BY <2>0, <1>6
  <2> QED BY <2>1, <1>1, <1>3, <1>4, <1>9
<1> QED BY <1>7, <1>8, <1>9

\* When a transaction begins no slot is cleared.
LEMMA NothingCleared ==
    ASSUME NEW values, values = original
    PROVE  Cardinality(ClearedSlots(values)) = 0
<1>1. ClearedSlots(values) = {}
  BY DEF ClearedSlots, IsCleared
<1> QED BY <1>1, FS_EmptySet

\* The counter starts at zero with nothing cleared.
LEMMA InitCovers == Init => IInv
<1> SUFFICES ASSUME Init PROVE IInv
  OBVIOUS
<1>1. TypeInv
  BY DEF Init, TypeInv
<1>2. Covers(refund, current)
  BY NothingCleared DEF Init, Covers
<1> QED BY <1>1, <1>2 DEF IInv, Init

\* A write changes the counter and the worth of the cleared slots alike.
LEMMA WriteCovers ==
    ASSUME IsFiniteSet(Slot), IInv, NEW x \in Slot, Write(x)
    PROVE  IInv'
<1> DEFINE v == current'[x]
<1> USE DEF IInv
<1>1. /\ v \in Value /\ current' = [current EXCEPT ![x] = v]
      /\ refund' \in Int /\ refund' >= refund + Earned(x, v)
      /\ clears' = clears /\ original' = original /\ saved' = saved
  BY DEF Write
<1>2. TypeInv'
  BY <1>1 DEF TypeInv
<1>3. ClearedSlots(current)' = ClearedSlots(current')
  BY <1>1 DEF ClearedSlots, IsCleared
<1>4. Cardinality(ClearedSlots(current)) \in Nat
  BY ClearedFinite
<1>5. Covers(refund, current)'
  <2> DEFINE n == Cardinality(ClearedSlots(current))
             d == IF IsCleared(x, v) /\ ~IsCleared(x, current[x]) THEN 1
                  ELSE IF IsCleared(x, current[x]) /\ ~IsCleared(x, v) THEN 0 - 1 ELSE 0
  <2>1. Cardinality(ClearedSlots(current')) = n + d
    BY <1>1, WriteClears
  <2>2. Earned(x, v) = clears * d
    BY DEF Earned, TypeInv
  <2>3. refund >= clears * n
    BY DEF Covers
  <2>4. d \in Int /\ n \in Int /\ clears \in Int /\ refund \in Int
    BY <1>4 DEF TypeInv
  <2>5. clears * (n + d) = clears * n + clears * d
    <3>1. d = 1 \/ d = 0 - 1 \/ d = 0
      OBVIOUS
    <3> HIDE DEF d, n
    <3> QED BY <2>4, <3>1
  <2> HIDE DEF d, n
  <2>6. clears * n \in Int /\ clears * d \in Int
    BY <2>4
  <2>7. refund' >= clears * (n + d)
    BY <1>1, <2>2, <2>3, <2>4, <2>5, <2>6
  <2> QED BY <2>7, <2>1, <1>3, <1>1 DEF Covers
<1>6. \A i \in 1 .. Len(saved') : Covers(saved[i].refund, saved[i].current)'
  BY <1>1 DEF Covers, ClearedSlots, IsCleared
<1> QED BY <1>2, <1>5, <1>6

\* Frames come and go with a snapshot that is covered.
LEMMA FrameCovers ==
    ASSUME IInv, EnterFrame \/ LeaveFrame \/ RevertFrame
    PROVE  IInv'
<1> USE DEF IInv
<1>1. clears' = clears /\ original' = original
  BY DEF EnterFrame, LeaveFrame, RevertFrame
<1>2. CASE EnterFrame
  <2> USE <1>2 DEF EnterFrame
  <2>1. [current |-> current, refund |-> refund] \in Snapshot
    BY DEF TypeInv, Snapshot
  <2>2. TypeInv'
    BY <2>1, SMTT(30) DEF TypeInv
  <2>3. \A i \in 1 .. Len(saved') :
          Covers(saved'[i].refund, saved'[i].current)
    <3>1. saved \in Seq(Snapshot)
      BY DEF TypeInv
    <3> TAKE i \in 1 .. Len(saved')
    <3>2. CASE i \in 1 .. Len(saved)
      <4>1. saved'[i] = saved[i]
        BY <3>1, <2>1, <3>2
      <4> QED BY <4>1, <3>2
    <3>3. CASE i = Len(saved) + 1
      <4>1. saved'[i] = [current |-> current, refund |-> refund]
        BY <3>1, <2>1, <3>3
      <4> QED BY <4>1
    <3> QED BY <3>1, <3>2, <3>3
  <2> QED BY <1>1, <2>2, <2>3 DEF Covers, ClearedSlots, IsCleared
<1>3. CASE LeaveFrame \/ RevertFrame
  <2> DEFINE n == Len(saved)
  <2>1. saved \in Seq(Snapshot) /\ n \in Nat \ {0}
    BY <1>3 DEF TypeInv, LeaveFrame, RevertFrame
  <2>2. saved' = SubSeq(saved, 1, n - 1)
    BY <1>3 DEF LeaveFrame, RevertFrame
  <2>3. /\ saved' \in Seq(Snapshot) /\ Len(saved') = n - 1
        /\ \A i \in 1 .. n - 1 : saved'[i] = saved[i]
    <3>1. \A i \in 1 .. n - 1 : saved[i] \in Snapshot
      BY <2>1
    <3> HIDE DEF n
    <3> QED BY <2>1, <2>2, <3>1, SubSeqProperties
  <2>4. saved[n] \in Snapshot
    BY <2>1
  <2>5. TypeInv'
    BY <1>1, <1>3, <2>3, <2>4 DEF TypeInv, LeaveFrame, RevertFrame, Snapshot
  <2>6. Covers(refund', current')
    BY <1>3, <2>1 DEF LeaveFrame, RevertFrame
  <2>7. \A i \in 1 .. Len(saved') : Covers(saved'[i].refund, saved'[i].current)
    BY <2>1, <2>3
  <2> QED BY <1>1, <2>5, <2>6, <2>7 DEF Covers, ClearedSlots, IsCleared
<1> QED BY <1>2, <1>3

\* A new transaction has cleared nothing, and neither has its first frame.
LEMMA TransactionCovers ==
    ASSUME IInv, NewTransaction
    PROVE  IInv'
<1> USE DEF IInv, NewTransaction
<1>1. TypeInv'
  <2>1. [current |-> current', refund |-> 0] \in Snapshot
    BY DEF Snapshot
  <2>2. saved' \in Seq(Snapshot)
    <3>1. CASE saved' = <<>>
      BY <3>1
    <3>2. CASE saved' = <<[current |-> current', refund |-> 0]>>
      BY <3>2, <2>1
    <3> QED BY <3>1, <3>2
  <2> QED BY <2>2 DEF TypeInv
<1>2. ClearedSlots(current)' = {}
  BY DEF ClearedSlots, IsCleared
<1>3. Covers(refund, current)'
  BY <1>2, FS_EmptySet DEF Covers, TypeInv
<1>4. \A i \in 1 .. Len(saved') : saved'[i] = [current |-> current', refund |-> refund']
  <2>1. CASE saved' = <<>>
    BY <2>1
  <2>2. CASE saved' = <<[current |-> current', refund |-> 0]>>
    BY <2>2
  <2> QED BY <2>1, <2>2
<1>5. \A i \in 1 .. Len(saved') : Covers(saved[i].refund, saved[i].current)'
  <2>1. ASSUME NEW i \in 1 .. Len(saved')
        PROVE  saved'[i].refund = refund' /\ saved'[i].current = current'
    BY <1>4
  <2> QED BY <1>3, <2>1 DEF Covers
<1> QED BY <1>1, <1>3, <1>5

\* Whatever frames clear slots, set them again and fail, the refund counter is
\* worth at least the clearing refund of every slot that is cleared: the
\* subtract_refund of EvmHost::set_storage never wraps.
THEOREM RefundAlwaysCovers ==
    ASSUME IsFiniteSet(Slot)
    PROVE  Spec => []RefundCovers
<1>1. Init => IInv
  BY InitCovers
<1>2. IInv /\ [Next]_vars => IInv'
  <2> SUFFICES ASSUME IInv, [Next]_vars PROVE IInv'
    OBVIOUS
  <2>1. ASSUME NEW x \in Slot, Write(x) PROVE IInv'
    BY <2>1, WriteCovers
  <2>2. CASE EnterFrame \/ LeaveFrame \/ RevertFrame
    BY <2>2, FrameCovers
  <2>3. CASE NewTransaction
    BY <2>3, TransactionCovers
  <2>4. CASE UNCHANGED vars
    BY <2>4 DEF vars, IInv, TypeInv, Covers, ClearedSlots, IsCleared
  <2> QED BY <2>1, <2>2, <2>3, <2>4 DEF Next
<1>3. IInv => RefundCovers
  BY DEF IInv, Covers, RefundCovers
<1> QED BY <1>1, <1>2, <1>3, PTL DEF Spec

=============================================================================
