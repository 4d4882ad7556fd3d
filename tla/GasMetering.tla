----------------------------- MODULE GasMetering -----------------------------
(***************************************************************************)
(* What net gas metering (EIP-1283, EIP-2200, EIP-3529) promises about the *)
(* refund counter, however set_storage computes it: clearing a slot earns  *)
(* at least the clearing refund, setting a cleared slot again gives back   *)
(* at most that refund, and no other write lowers the counter.  A frame    *)
(* that fails restores the slots and the counter it found.                 *)
(***************************************************************************)
EXTENDS Integers, FiniteSets, Sequences

CONSTANTS Slot, Value, Zero

VARIABLES
    clears,     \* the refund for clearing a slot, fixed by the revision
    original,   \* the value of each slot when the transaction began
    current,
    refund,
    saved       \* the slots and the counter at the snapshot of each open frame

vars == <<clears, original, current, refund, saved>>

Init == /\ clears \in Nat
        /\ original \in [Slot -> Value] /\ current = original
        /\ refund = 0 /\ saved = <<>>

IsCleared(x, v) == original[x] # Zero /\ v = Zero

\* The least the counter changes by when slot x goes from its value to v.
Earned(x, v) ==
    IF IsCleared(x, v) /\ ~IsCleared(x, current[x]) THEN clears
    ELSE IF IsCleared(x, current[x]) /\ ~IsCleared(x, v) THEN 0 - clears
    ELSE 0

Write(x) == LET v == current'[x] IN
            /\ v \in Value \ {current[x]}
            /\ current' = [current EXCEPT ![x] = v]
            /\ refund' \in Int /\ refund' >= refund + Earned(x, v)
            /\ UNCHANGED <<clears, original, saved>>

EnterFrame == /\ saved' = Append(saved, [current |-> current, refund |-> refund])
              /\ UNCHANGED <<clears, original, current, refund>>

LeaveFrame == /\ saved # <<>>
              /\ saved' = SubSeq(saved, 1, Len(saved) - 1)
              /\ UNCHANGED <<clears, original, current, refund>>

RevertFrame == /\ saved # <<>>
               /\ current' = saved[Len(saved)].current
               /\ refund' = saved[Len(saved)].refund
               /\ saved' = SubSeq(saved, 1, Len(saved) - 1)
               /\ UNCHANGED <<clears, original>>

\* The next transaction starts from what this one left; its first frame may
\* be open at once.
NewTransaction ==
    /\ original' \in [Slot -> Value] /\ current' = original'
    /\ refund' = 0
    /\ saved' \in {<<>>, <<[current |-> current', refund |-> 0]>>}
    /\ UNCHANGED clears

Next == \/ \E x \in Slot : Write(x)
        \/ EnterFrame \/ LeaveFrame \/ RevertFrame \/ NewTransaction

Spec == Init /\ [][Next]_vars

-----------------------------------------------------------------------------
ClearedSlots(values) == {x \in Slot : IsCleared(x, values[x])}

\* The counter covers the clearing refund of every slot cleared so far, so that
\* subtract_refund cannot take more than there is.
RefundCovers == refund >= clears * Cardinality(ClearedSlots(current))

=============================================================================
