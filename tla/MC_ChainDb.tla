----------------------------- MODULE MC_ChainDb -----------------------------
(* Two threads, two sets of flags, and a buffer that overflows with its second entry. *)
EXTENDS ChainDb

CONSTANTS t1, t2

MC_Thread == {t1, t2}
MC_Flags == {[notls |-> TRUE], [notls |-> FALSE]}
E(key, value) == [key |-> <<key>>, value |-> value, size |-> 1]
\* One thread goes to one file and leaves an entry in the buffer or none, the other stays in memory.
MC_Extracts == (t1 :> {<<E(1, 2), E(1, 1), E(2, 1)>>, <<E(2, 1), E(1, 1), E(1, 2), E(2, 2)>>}) @@ (t2 :> {<<E(1, 3)>>})
=============================================================================
