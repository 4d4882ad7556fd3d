--------------------------- MODULE SnapshotStack ---------------------------
(***************************************************************************)
(* What take_snapshot and revert_to_snapshot promise to the EVM: a call    *)
(* frame that fails leaves no trace.  The state is one opaque value, and a *)
(* snapshot is a copy of it; the journal of IntraBlockState is an          *)
(* implementation of that copy.                                            *)
(***************************************************************************)
EXTENDS Integers, Sequences

VARIABLES
    state,    \* what the running transaction can observe
    saved,    \* the copies held by the open frames, innermost last
    failed    \* the innermost frame has failed and is being rolled back

Init == saved = <<>> /\ failed = FALSE

\* A frame computes, one transaction ends and the next one begins, or a
\* rollback is under way: nobody looks at the state until it is complete.
Change == UNCHANGED <<saved, failed>>

OpenFrame == /\ ~failed
             /\ saved' = Append(saved, state)
             /\ UNCHANGED <<state, failed>>

CloseFrame == /\ ~failed /\ saved # <<>>
              /\ saved' = SubSeq(saved, 1, Len(saved) - 1)
              /\ UNCHANGED <<state, failed>>

FailFrame == /\ ~failed /\ saved # <<>>
             /\ failed' = TRUE
             /\ UNCHANGED <<state, saved>>

RollBack == /\ failed
            /\ state' = saved[Len(saved)]
            /\ saved' = SubSeq(saved, 1, Len(saved) - 1)
            /\ failed' = FALSE

Next == Change \/ OpenFrame \/ CloseFrame \/ FailFrame \/ RollBack

Spec == Init /\ [][Next]_<<state, saved, failed>>

=============================================================================
