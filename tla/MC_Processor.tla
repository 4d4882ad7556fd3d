---------------------------- MODULE MC_Processor ----------------------------
(***************************************************************************)
(* Blocks of at most two transactions by one sender.  Of the accounts: an  *)
(* ordinary one that sends, a contract with a non-zero slot, the miner,    *)
(* RIPEMD-160 (a precompile, not in the state yet), and the addresses that *)
(* contracts are created at.                                               *)
(***************************************************************************)
EXTENDS Processor, TLC

CONSTANTS eoa, con, miner, ripemd, new1, new2, new3, k1, empty, code, bigcode

MCAddress == {eoa, con, miner, ripemd, new1, new2, new3}
MCKey == {k1}
MCValue == 0 .. 2
MCCode == {empty, code, bigcode}
MCPrecompile == ripemd :> 3

\* A pair gives one address: each creator and nonce creates at its own.
MCCreateAddress(caller, nonce) ==
    IF caller = eoa /\ nonce = 0 THEN new1
    ELSE IF caller = con /\ nonce = 1 THEN new2 ELSE None
MCCreate2Address(caller) == IF caller = con THEN new3 ELSE None

MCCodeLength == (empty :> 0) @@ (code :> 1) @@ (bigcode :> 2)

MCAccount(nonce, balance, hash, incarnation) ==
    [nonce |-> nonce, balance |-> balance, code_hash |-> hash, incarnation |-> incarnation]

MCDb(value) ==
    [accounts |-> (eoa :> MCAccount(0, 150000, empty, 0)) @@ (con :> MCAccount(1, 3, code, 1))
                    @@ [a \in {miner, ripemd, new1, new2, new3} |-> None],
     storage |-> [a \in MCAddress |-> [i \in Incarnation |-> [k \in MCKey |->
                    IF a = con /\ i = 1 THEN value ELSE 0]]],
     incarnations |-> [a \in MCAddress |-> 0]]
MCInitialDb == {MCDb(1)}

MCTxnRecord(to, value, gas_limit, gas_price, nonce, access_list) ==
    [from |-> eoa, to |-> to, value |-> value, gas_limit |-> gas_limit, gas_price |-> gas_price,
     nonce |-> nonce, access_list |-> access_list, zero_bytes |-> 0, non_zero_bytes |-> 0]
MCAccessList == <<[account |-> con, key |-> None], [account |-> con, key |-> k1]>>
MCTxn ==
    {MCTxnRecord(con, 2, 21900, 1, 0, <<>>),
     MCTxnRecord(None, 2, 53650, 1, 0, <<>>), MCTxnRecord(None, 2, 21650, 1, 0, <<>>),
     MCTxnRecord(con, 129000, 21900, 1, 0, <<>>), MCTxnRecord(con, 0, 25600, 0, 0, MCAccessList),
     MCTxnRecord(ripemd, 1, 21300, 2, 1, <<>>)}
MCCallee == {con, ripemd, new3}
MCHeir == {con, new1}

MCOmmer == {[depth |-> 6, beneficiary |-> new1]}
MCPrecompileRun == {[gas |-> 300, ok |-> TRUE], [gas |-> 0, ok |-> FALSE]}
MCDaoChildren == <<con>>

=============================================================================
