------------------------------ MODULE DbBuffer ------------------------------
(***************************************************************************)
(* db::Buffer (db/buffer.cpp): the changes of the blocks executed since    *)
(* the last flush, laid over the database.  Reads go to the buffer first   *)
(* and then to the database, as of historical_block if there is one.       *)
(***************************************************************************)
EXTENDS Database

NewBuffer(historical_block) ==
    [historical_block |-> historical_block, block_number |-> 0, changed_storage |-> {},
     accounts |-> EmptyTable, storage |-> EmptyTable, incarnations |-> EmptyTable,
     code |-> EmptyTable, account_changes |-> {}, storage_changes |-> {},
     receipts |-> EmptyTable, logs |-> EmptyTable, batch_size |-> 0]

\* The batch grows by one for every entry that is new; its bytes are not modelled.
BumpBatchSize(b, is_new) == IF is_new THEN [b EXCEPT !.batch_size = @ + 1] ELSE b

BufferAccount(b, db, a) ==
    IF a \in DOMAIN b.accounts THEN b.accounts[a] ELSE ReadAccount(db, a, b.historical_block)
BufferStorage(b, db, a, incarnation, location) ==
    LET key == <<a, incarnation, location>> IN
    IF key \in DOMAIN b.storage THEN b.storage[key]
    ELSE ReadStorage(db, a, incarnation, location, b.historical_block)
\* Mutant: the incarnations of the batch itself are not looked up.
PreviousIncarnationOfDbOnly(b, db, a) == ReadPreviousIncarnation(db, a, b.historical_block)
PreviousIncarnation(b, db, a) ==
    IF a \in DOMAIN b.incarnations THEN b.incarnations[a]
    ELSE ReadPreviousIncarnation(db, a, b.historical_block)

\* Mutant: the contracts whose storage changed in the last block are not forgotten.
BeginBlockKeeping(b, block_number) == [b EXCEPT !.block_number = block_number]
BeginBlock(b, block_number) ==
    [b EXCEPT !.block_number = block_number, !.changed_storage = {}]

\* The account as of before the block, without its code hash unless it is deleted.
EncodedInitial(initial, deleted) ==
    IF initial = None \/ deleted THEN initial ELSE [initial EXCEPT !.code_hash = EmptyHash]

RecordAccountChange(b, a, value) ==
    LET same(c) == c.block = b.block_number /\ c.address = a IN
    [BumpBatchSize(b, \A c \in b.account_changes : ~same(c)) EXCEPT
       !.account_changes = {c \in @ : ~same(c)}
                             \cup {[block |-> b.block_number, address |-> a, value |-> value]}]

\* A deleted account is recorded even if there was none before the block.
UpdateAccount(b, a, initial, current) ==
    LET deleted == current = None
        c == RecordAccountChange(b, a, EncodedInitial(initial, deleted))
        d == [BumpBatchSize(c, a \notin DOMAIN c.accounts) EXCEPT !.accounts = Put(@, a, current)]
    IN IF current = initial /\ ~deleted /\ a \notin b.changed_storage THEN b
       ELSE IF current = initial THEN c
       ELSE IF ~deleted \/ initial.incarnation = 0 THEN d
       ELSE [BumpBatchSize(d, a \notin DOMAIN d.incarnations)
               EXCEPT !.incarnations = Put(@, a, initial.incarnation)]

UpdateAccountCode(b, a, incarnation, code_hash) ==
    [BumpBatchSize(b, <<a, incarnation>> \notin DOMAIN b.code)
       EXCEPT !.code = Put(@, <<a, incarnation>>, code_hash)]

UpdateStorage(b, a, incarnation, location, initial, current) ==
    LET key == <<a, incarnation, location>>
        change == [block |-> b.block_number, address |-> a, incarnation |-> incarnation,
                   location |-> location, value |-> initial]
        c == [BumpBatchSize(b, change \notin b.storage_changes)
                EXCEPT !.changed_storage = @ \cup {a}, !.storage_changes = @ \cup {change}]
    IN IF current = initial THEN b
       ELSE [BumpBatchSize(c, key \notin DOMAIN c.storage) EXCEPT !.storage = Put(@, key, current)]

\* The logs are stored for each transaction that has some, the receipts for each block.
InsertReceipts(b, block_number, logs) ==
    LET with == {i \in DOMAIN logs : logs[i] # {}}
        keys == {<<block_number, i>> : i \in with}
    IN [b EXCEPT !.logs = [k \in keys |-> logs[k[2]]] @@ @,
                 !.receipts = Put(@, <<block_number>>, Len(logs)),
                 !.batch_size = @ + Cardinality(with) + 1]

\* Every account and slot of the buffer replaces what the table has; a deleted
\* account and a slot that is zero are taken out of it.
WriteToStateTable(b, db) ==
    [db EXCEPT !.plain_accounts = b.accounts @@ @, !.plain_storage = b.storage @@ @]

WriteToDb(b, db) ==
    [WriteToStateTable(b, db) EXCEPT
       !.incarnation_map = b.incarnations @@ @,
       !.plain_contract_code = b.code @@ @,
       !.account_changes = @ \cup b.account_changes,
       !.storage_changes = @ \cup b.storage_changes,
       !.receipts = b.receipts @@ @,
       !.logs = b.logs @@ @]
=============================================================================
