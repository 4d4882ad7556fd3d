------------------------- MODULE MC_IntraBlockState -------------------------
(***************************************************************************)
(* One address that may hold a contract in the database (incarnation 1,    *)
(* slot set), one that is absent or an ordinary account.                   *)
(***************************************************************************)
EXTENDS IntraBlockState

CONSTANTS contract, other, code

Acc(balance, hash, inc) == [nonce |-> 0, balance |-> balance, code_hash |-> hash, incarnation |-> inc]

Db(c, o, slot, prev) ==
    [accounts |-> [a \in Address |-> IF a = contract THEN c ELSE o],
     storage |-> [a \in Address |-> [i \in Incarnation |-> [k \in Key |->
                    IF a = contract /\ i = 1 THEN slot ELSE Zero]]],
     incarnations |-> [a \in Address |-> IF a = contract THEN prev ELSE 0]]

\* A live contract with a non-zero slot; one that was destructed in an
\* earlier block; an empty database.
LiveContract == Db(Acc(1, code, 1), None, 1, 0)
DestructedContract == Db(None, Acc(0, EmptyHash, 0), 1, 1)
EmptyDb == Db(None, None, Zero, 0)

MCInitialDb == {LiveContract, DestructedContract, EmptyDb}

\* Accounts and storage only, so that longer journals fit.
AccountSpec == Init /\ [][AccountOp \/ FrameOp \/ TransactionOp]_vars

SnapshotsSpec == Snapshots!Spec
=============================================================================
