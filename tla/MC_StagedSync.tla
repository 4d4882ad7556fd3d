--------------------------- MODULE MC_StagedSync ----------------------------
(***************************************************************************)
(* Instances of StagedSync.  The first chain deploys a contract, writes    *)
(* its slots, destroys it and deploys it again; a transaction of a block   *)
(* that is not canonical comes back in a later one.  The second touches    *)
(* the contract once more and ends in an invalid block.                    *)
(***************************************************************************)
EXTENDS StagedSync

Slot0 == <<0, 1>>   \* a location with a NUL byte
Slot1 == <<1, 1>>

Effect(op, a, slots) == [op |-> op, address |-> a, slots |-> slots]
LogOf(kind, key) == [kind |-> kind, key |-> key]
BlockOf(txns, side, effects, logs, valid) ==
    [txns |-> txns, side |-> side, effects |-> effects, logs |-> logs, valid |-> valid]

Block1 == BlockOf(<<1>>, <<>>, {Effect("deploy", 2, {Slot0}), Effect("pay", 1, {})},
                  <<{LogOf("address", 2), LogOf("topic", 7)}>>, TRUE)
Block2 == BlockOf(<<2, 3>>, <<4>>, {Effect("store", 2, {Slot0, Slot1}), Effect("touch", 1, {})},
                  <<{}, {LogOf("address", 2)}>>, TRUE)
Block3 == BlockOf(<<4>>, <<>>, {Effect("destroy", 2, {}), Effect("pay", 1, {})},
                  <<{LogOf("topic", 7)}>>, TRUE)
Block4 == BlockOf(<<5>>, <<>>, {Effect("deploy", 2, {Slot1})}, <<{}>>, TRUE)
Plain2 == [Block2 EXCEPT !.side = <<>>]
Touch3 == BlockOf(<<4>>, <<>>, {Effect("touch", 2, {}), Effect("pay", 1, {})}, <<{}>>, TRUE)
Invalid4 == [Block4 EXCEPT !.valid = FALSE]

MCChains == {<<Block1, Block2, Block3, Block4>>, <<Block1, Plain2, Touch3, Invalid4>>}
MCAddress == {1, 2}
MCLocation == {Slot0, Slot1}
MCGenesisBalance == (1 :> 1) @@ (2 :> None)
MCKeccak(x) == (x * 7) % 11
MCBeyond == {<<>>, <<5>>}
=============================================================================
