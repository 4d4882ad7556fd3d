---------------------------- MODULE MC_Encodings ----------------------------
(***************************************************************************)
(* Integers of two and three bytes at their edges, addresses of two bytes, *)
(* hashes of three, and data around the 56 bytes where headers get longer. *)
(***************************************************************************)
EXTENDS Encodings

MCEmptyHash == <<7, 7, 7>>
H1 == <<0, 1, 200>>
A1 == <<128, 5>>
Zeros(n) == [i \in 1..n |-> 0]

Accounts ==
    {[nonce |-> n, balance |-> b, incarnation |-> i, code_hash |-> c] :
        n \in {0, 1, 256}, b \in {0, 127, 65536, 16777215}, i \in {0, 1, 65535}, c \in {MCEmptyHash, H1}}

Txn(type, chain_id) ==
    [type |-> type, nonce |-> 0, gas_price |-> 200, gas_limit |-> 65535, to |-> A1, value |-> 127,
     data |-> <<>>, odd_y_parity |-> TRUE, chain_id |-> chain_id, r |-> 128, s |-> 16777215,
     access_list |-> <<>>]
Entry(keys) == [account |-> A1, storage_keys |-> keys]

Legacy ==
    {[Txn(None, id) EXCEPT !.data = d, !.to = to, !.odd_y_parity = odd] :
        id \in {None, 0, 1, 46, 47, 110}, d \in {<<>>, <<9>>, <<128>>, Zeros(31), Zeros(55), Zeros(56)},
        to \in {None, A1}, odd \in BOOLEAN}
Typed ==
    {[Txn(kEip2930TransactionType, id) EXCEPT !.access_list = al, !.data = d] :
        id \in {0, 1, 200}, d \in {<<>>, Zeros(31), Zeros(56)},
        al \in {<<>>, <<Entry(<<>>)>>, <<Entry(<<H1>>), Entry(<<H1, H1>>)>>}}

Header(number, extra) ==
    [parent_hash |-> H1, ommers_hash |-> H1, beneficiary |-> A1, state_root |-> H1,
     transactions_root |-> H1, receipts_root |-> H1, logs_bloom |-> Zeros(kBloomByteLength),
     difficulty |-> 128, number |-> number, gas_limit |-> 300, gas_used |-> 0, timestamp |-> 1,
     extra_data |-> extra, mix_hash |-> H1, nonce |-> Zeros(kNonceLength)]
Headers == {Header(n, x) : n \in {0, 255}, x \in {<<>>, <<127>>, Zeros(3)}}

Bodies ==
    {[transactions |-> t, ommers |-> o] :
        t \in {<<>>, <<Txn(None, 1)>>, <<Txn(kEip2930TransactionType, 1), Txn(None, None)>>},
        o \in {<<>>, <<Header(1, <<>>)>>}}
StoredBodies ==
    {[base_txn_id |-> b, txn_count |-> n, ommers |-> o] :
        b \in {0, 65535}, n \in {0, 128}, o \in {<<>>, <<Header(1, <<>>)>>}}

Logs ==
    {[address |-> A1, topics |-> t, data |-> d] :
        t \in {<<>>, <<H1>>, <<H1, H1>>}, d \in {<<>>, <<1>>, Zeros(40), Zeros(56)}}
Receipts ==
    {[type |-> t, success |-> ok, cumulative_gas_used |-> g, bloom |-> Zeros(kBloomByteLength), logs |-> l] :
        t \in {None, kEip2930TransactionType}, ok \in BOOLEAN, g \in {0, 300},
        l \in {<<>>} \cup {<<x>> : x \in Logs}}
RlpAccounts ==
    {[nonce |-> n, balance |-> b, storage_root |-> H1, code_hash |-> MCEmptyHash] :
        n \in {0, 65535}, b \in {0, 128}}

Of(format, values) == {[format |-> format, value |-> v] : v \in values}

MCItems ==
    UNION {Of("account", Accounts), Of("account_without_code", Accounts),
           Of("transaction", Legacy \cup Typed), Of("signing", Legacy \cup Typed),
           Of("header", Headers), Of("sealing", Headers), Of("body", Bodies),
           Of("stored_body", StoredBodies), Of("log", Logs), Of("receipt", Receipts),
           Of("account_rlp", RlpAccounts)}

MCDamaged ==
    UNION {Of("account", {a \in Accounts : a.nonce = 256 /\ a.incarnation # 1}),
           Of("transaction", {t \in Legacy : t.chain_id \in {None, 46} /\ t.odd_y_parity /\ t.to # None
                                             /\ Len(t.data) \in {0, 1, 55}}),
           Of("transaction", {t \in Typed : t.data = <<>> /\ Len(t.access_list) < 2}),
           Of("header", {Header(255, <<127>>)}),
           Of("body", {b \in Bodies : Len(b.transactions) + Len(b.ommers) \in {0, 1}}),
           Of("stored_body", {b \in StoredBodies : b.ommers = <<>>}),
           Of("log", {l \in Logs : Len(l.topics) < 2 /\ Len(l.data) < 41})}

MCDamageBytes == {0, 1, 129, 184, 192, 248}
=============================================================================
