---------------------------- MODULE LookupStages ----------------------------
(***************************************************************************)
(* The stages that derive one table from another: the hashed state         *)
(* (cmd/hashstate.cpp), the lookup of transactions (cmd/tx_lookup.cpp) and *)
(* of header numbers (cmd/blockhashes.cpp), and the tools that check them  *)
(* (cmd/check_hashstate.cpp, check_tx_lookup.cpp, check_blockhashes.cpp).  *)
(***************************************************************************)
EXTENDS IndexStages

CONSTANT Keccak(_)   \* an injection of addresses, transactions and byte strings in the numbers

\* The hash of what is left of a key that holds no location.
HashOfNothing == 0

PlainAccounts(db) == {a \in Address : db.plain_accounts[a] # None}
PlainSlots(db) == {k \in DOMAIN db.plain_storage : db.plain_storage[k] # 0}
PlainCodes(db) == {k \in DOMAIN db.plain_contract_code : db.plain_contract_code[k] # None}

\* The location of a slot is in the data of PlainState, so that the hashed key has none.
HashedSlotKey(k) == <<Keccak(k[1]), k[2], HashOfNothing>>
HashedSlot(db, k) == [key |-> HashedSlotKey(k), location |-> k[3], value |-> db.plain_storage[k]]

\* MDB_APPEND and MDB_APPENDDUP into tables that are meant to be empty.
PromoteCleanState(db) ==
    LET accounts == Load(db.hashed_accounts,
                         InOrder({Entry(<<Keccak(a)>>, db.plain_accounts[a]) : a \in PlainAccounts(db)}, KeyLess),
                         TRUE)
        slots == {HashedSlot(db, k) : k \in PlainSlots(db)}
        appended == \A s \in slots, t \in db.hashed_storage : LexLess(t.key, s.key)
    IN [ok |-> accounts.ok /\ appended,
        db |-> [db EXCEPT !.hashed_accounts = accounts.table, !.hashed_storage = @ \cup slots]]
PromoteCleanCode(db) ==
    LET code == Load(db.contract_code,
                     InOrder({Entry(<<Keccak(k[1]), k[2]>>, db.plain_contract_code[k]) : k \in PlainCodes(db)},
                             KeyLess),
                     TRUE)
    IN [ok |-> code.ok, db |-> [db EXCEPT !.contract_code = code.table]]

\* Mutant: the first block after the last one hashed is left out.
ChangedSinceNext(db) ==
    {c.address : c \in {d \in db.account_changes :
                          d.block > GetStageProgress(db, kHashStateKey) + 1}}
\* The accounts with changes after the last block that was hashed.
ChangedSince(db) ==
    {c.address : c \in {d \in db.account_changes :
                          d.block >= GetStageProgress(db, kHashStateKey) + 1}}

\* promote: accounts and code hashes that the state no longer has are skipped and stay in
\* the hashed tables.  A slot is looked up by a key PlainState does not have, so that the
\* hashed storage never changes.
Promote(db) ==
    LET live == {a \in ChangedSince(db) : db.plain_accounts[a] # None}
        contracts == {a \in live : /\ db.plain_accounts[a].incarnation # 0
                                   /\ <<a, db.plain_accounts[a].incarnation>> \in PlainCodes(db)}
        hashed(S) == {<<Keccak(a)>> : a \in S}
        codes == {<<Keccak(a), db.plain_accounts[a].incarnation>> : a \in contracts}
        addressOf(h) == CHOOSE a \in live : Keccak(a) = h[1]
    IN [db EXCEPT !.hashed_accounts =
                      [h \in hashed(live) |-> db.plain_accounts[addressOf(h)]] @@ @,
                  !.contract_code =
                      [h \in codes |-> db.plain_contract_code[addressOf(h), h[2]]] @@ @]

ClearHashState(db) ==
    SetStageProgress([db EXCEPT !.hashed_accounts = EmptyTable, !.hashed_storage = {},
                                !.contract_code = EmptyTable], kHashStateKey, 0)

HashState(db, full, incrementally, reset) ==
    LET start == IF full \/ reset THEN ClearHashState(db) ELSE db
        by_changes == GetStageProgress(start, kHashStateKey) # 0 \/ incrementally
        state == PromoteCleanState(start)
        code == PromoteCleanCode(state.db)
        done(d) == Committed(SetStageProgress(d, kHashStateKey,
                                              GetStageProgress(d, kExecutionKey)))
    IN IF reset THEN Committed(start)
       ELSE IF by_changes THEN done(Promote(start))
       ELSE IF state.ok /\ code.ok THEN done(code.db)
       ELSE Thrown(db)

\* Mutant: the first of the bodies is left out.
BodiesAfter(db, number) ==
    InOrder({k \in DOMAIN db.bodies : k[1] > number}, LexLess)
BodiesFrom(db, number) ==
    InOrder({k \in DOMAIN db.bodies : k[1] >= number}, LexLess)
TxnsOf(db, key) == ReadTransactions(db, db.bodies[key].base_txn_id, db.bodies[key].txn_count)

LookupsAppend(db, last_processed) == db.tx_lookup = EmptyTable

\* Every body counts, those of blocks that are not canonical too.  The table is loaded in
\* append mode when it is empty.
TxLookup(db, full) ==
    LET last_processed == IF full THEN 0 ELSE GetStageProgress(db, kTxLookupKey)
        bodies == BodiesFrom(db, last_processed + 1)
        entriesOf(k) == [i \in DOMAIN TxnsOf(db, k) |-> Entry(<<Keccak(TxnsOf(db, k)[i])>>, k[1])]
        entries == FlattenSeq([i \in DOMAIN bodies |-> entriesOf(bodies[i])])
        l == Load(db.tx_lookup, entries, LookupsAppend(db, last_processed))
    IN IF entries = <<>> THEN Nothing(db)
       ELSE IF ~l.ok THEN Thrown(db)
       ELSE Committed(SetStageProgress([db EXCEPT !.tx_lookup = l.table], kTxLookupKey,
                                       Last(bodies)[1]))

\* The canonical hashes from the next block on; a gap between them is an error.
BlockHashes(db) ==
    LET expected == GetStageProgress(db, kBlockHashesKey) + 1
        numbers == {n \in expected .. Uint64Max : <<n>> \in DOMAIN db.canonical_hashes}
        l == Load(db.header_numbers,
                  InOrder({Entry(<<db.canonical_hashes[<<n>>]>>, n) : n \in numbers}, KeyLess),
                  db.header_numbers = EmptyTable)
    IN IF expected \notin numbers THEN Nothing(db)
       ELSE IF numbers # expected .. Max(numbers) \/ ~l.ok THEN Thrown(db)
       ELSE Committed(SetStageProgress([db EXCEPT !.header_numbers = l.table], kBlockHashesKey,
                                       Max(numbers)))

\* What check_blockhashes complains about.
CheckBlockHashes(db) ==
    {n \in DOMAIN db.canonical_hashes :
       Get(db.header_numbers, <<db.canonical_hashes[n]>>) # n[1]}

\* What check_tx_lookup complains about.  The expected number counts the bodies.
CheckTxLookup(db) ==
    LET bodies == BodiesFrom(db, 0) IN
    UNION {{t \in ToSet(TxnsOf(db, bodies[i])) : Get(db.tx_lookup, <<Keccak(t)>>) # i - 1} :
             i \in DOMAIN bodies}

\* What check_hashstate complains about: accounts and code hashes.
CheckHashState(db) ==
    {a \in PlainAccounts(db) : Get(db.hashed_accounts, <<Keccak(a)>>) # db.plain_accounts[a]}
CheckHashedCode(db) ==
    {k \in PlainCodes(db) :
       Get(db.contract_code, <<Keccak(k[1]), k[2]>>) # db.plain_contract_code[k]}
=============================================================================
