--------------------------- MODULE MC_Blockchain ---------------------------
(***************************************************************************)
(* Three branches from genesis: g - a1 - a2 and g - b1 - b2, of which b is *)
(* the heavier at full length, and g - c1, heavier than all the others.    *)
(***************************************************************************)
EXTENDS Blockchain

CONSTANTS g, a1, a2, b1, b2, c1, contract, sender, code

MCNumber == [h \in Block |-> CASE h = g -> 0 [] h \in {a1, b1, c1} -> 1 [] OTHER -> 2]
MCParent == [h \in Block |-> CASE h \in {g, a1, b1, c1} -> g [] h = a2 -> a1 [] h = b2 -> b1]
\* ... or one chain g - a1 - a2 - b1 - b2.
LinearNumber == [h \in Block |-> CASE h = g -> 0 [] h = a1 -> 1 [] h = a2 -> 2 [] h = b1 -> 3 [] h = b2 -> 4]
LinearParent == [h \in Block |-> CASE h \in {g, a1} -> g [] h = a2 -> a1 [] h = b1 -> a2 [] h = b2 -> b1]

MCDifficulty == [h \in Block |-> CASE h = b2 -> 2 [] h = c1 -> 4 [] OTHER -> 1]
MCBeneficiary == [h \in Block |-> sender]

\* The contract is live, or was never there.
Funded == [EmptyBuffer EXCEPT !.accounts[sender] = [EmptyAccount EXCEPT !.balance = 1]]
Live == [Funded EXCEPT
           !.accounts[contract] = [nonce |-> 1, balance |-> 1, code_hash |-> code, incarnation |-> 1],
           !.storage[contract][1] = [l \in Key |-> 1],
           !.code = {code}]
MCGenesisState == {Funded, Live}

Txn(type) == [type |-> type, to |-> contract]
D == Txn("deploy")
S == Txn("store")
X == Txn("destruct")
P == Txn("pay")

\* The contract's life, cut into blocks.
MCContents ==
    [h \in Block |-> CASE h = g  -> {<<>>}
                       [] h = a1 -> {<<P>>, <<D, S>>, <<X>>}
                       [] h = a2 -> {<<S>>, <<X>>, <<X, D, S>>}
                       [] h = b1 -> {<<D, S>>, <<X>>, <<X, D, S>>}
                       [] h = b2 -> {<<S, X>>, <<P, D, S>>}
                       [] h = c1 -> {<<S, S>>}]

\* The contract is destructed and its address paid in one block.
PaidContents == [h \in Block |-> IF h = g THEN {<<>>} ELSE {<<X, P>>, <<D>>}]

NoDefect == [h \in Block |-> "none"]
NoDefects == {NoDefect}
MCDefects == {NoDefect} \cup {[NoDefect EXCEPT ![h] = "root"] : h \in {b1, b2}}
             \cup {[NoDefect EXCEPT ![b2] = "receipts"], [NoDefect EXCEPT ![a2] = "header"]}
=============================================================================
