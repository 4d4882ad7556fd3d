-------------------------- MODULE MC_RecoveryFarm --------------------------
(***************************************************************************)
(* Tables of block bodies for the farm: four canonical blocks, as many     *)
(* batches as there are workers and one more.                              *)
(***************************************************************************)
EXTENDS RecoveryFarm

Canonical(num, txns) == [num |-> num, canonical |-> TRUE, txns |-> txns]
Orphan(num, txns) == [num |-> num, canonical |-> FALSE, txns |-> txns]

good == <<"good">>

\* Blocks of one and two transactions, and orphans between them.
Regular == <<Canonical(1, good), Orphan(1, good), Canonical(2, good \o good),
             Orphan(3, good), Canonical(3, good), Canonical(4, good)>>
\* An empty block, and one that is larger than a batch.
Irregular == <<Canonical(1, <<>>), Canonical(2, good \o good \o good), Canonical(3, good),
               Canonical(4, good)>>
\* A key that cannot be recovered, early and late.
UnrecoverableEarly == <<Canonical(1, good), Canonical(2, <<"good", "unrecoverable">>),
                        Canonical(3, good), Canonical(4, good \o good)>>
UnrecoverableLate == <<Canonical(1, good \o good), Canonical(2, good), Canonical(3, good),
                       Canonical(4, <<"unrecoverable">>)>>
Malformed == <<Canonical(1, good \o good), Canonical(2, good \o good), Canonical(3, <<"malformed">>),
               Canonical(4, good)>>
\* Block 3 is missing.
Gap == <<Canonical(1, good \o good), Canonical(2, good \o good), Canonical(4, good)>>
\* The last bodies are missing.
Short == <<Canonical(1, good \o good), Canonical(2, good)>>

AllTables == {Regular, Irregular, UnrecoverableEarly, UnrecoverableLate, Malformed, Gap, Short}
=============================================================================
