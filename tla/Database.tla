------------------------------ MODULE Database ------------------------------
(***************************************************************************)
(* The chain database: the tables the staged sync reads and writes, and    *)
(* the access layer over them (db/access_layer.cpp, db/stages.cpp).  An    *)
(* account is a record of balance, incarnation and code hash; a change set *)
(* holds the values from before a block, None for an account that did not  *)
(* exist.                                                                  *)
(***************************************************************************)
EXTENDS Tables

CONSTANTS Address,      \* positive numbers
          Location,     \* sequences of bytes of a fixed length
          EmptyHash,
          NoChange,          \* the history knows no change from a block on
          MissingSenders     \* the exception of read_body

\* UINT64_MAX, above every block number.
Uint64Max == 99

kExecutionKey == "Execution"
kSendersKey == "Senders"
kBlockBodiesKey == "Bodies"
kHashStateKey == "HashState"
kAccountHistoryKey == "AccountHistoryIndex"
kStorageHistoryIndexKey == "StorageHistoryIndex"
kLogIndexKey == "LogIndex"
kTxLookupKey == "TxLookup"
kBlockHashesKey == "BlockHashes"
kAllStages == {kExecutionKey, kSendersKey, kBlockBodiesKey, kHashStateKey, kAccountHistoryKey,
               kStorageHistoryIndexKey, kLogIndexKey, kTxLookupKey, kBlockHashesKey}

GetStageProgress(db, stage) == db.progress[stage]
SetStageProgress(db, stage, block_num) == [db EXCEPT !.progress[stage] = block_num]

Account(balance, incarnation, code_hash) ==
    [balance |-> balance, incarnation |-> incarnation, code_hash |-> code_hash]

\* Bytes of the keys of db/util.cpp that the order of a table depends on.
AccountHistoryKey(address, block_number) == <<address, block_number>>
StorageHistoryKey(address, location, block_number) == <<address>> \o location \o <<block_number>>

ReadTransactions(db, base_id, count) ==
    LET end == CHOOSE e \in base_id .. base_id + count :
               /\ base_id .. e - 1 \subseteq DOMAIN db.eth_tx
               /\ e \notin DOMAIN db.eth_tx \/ e = base_id + count
    IN [i \in 1 .. end - base_id |-> db.eth_tx[base_id + i - 1]]

\* The transactions of a body; MissingSenders when the senders do not match them.
ReadBody(db, number, hash) ==
    LET body == Get(db.bodies, <<number, hash>>)
        txns == ReadTransactions(db, body.base_txn_id, body.txn_count)
        senders == Get(db.senders, <<number, hash>>)
    IN CASE body = None -> None
         [] body # None /\ (IF senders = None THEN 0 ELSE senders) # Len(txns) -> MissingSenders
         [] OTHER -> txns

ReadBlock(db, number) ==
    LET hash == Get(db.canonical_hashes, <<number>>) IN
    IF hash = None THEN None
    ELSE IF <<number, hash>> \notin db.headers THEN None ELSE ReadBody(db, number, hash)

\* Mutant: the first member above n.
BitmapSeekAbove(bitmap, n) ==
    LET above == {b \in bitmap : b > n} IN
    IF above = {} THEN None ELSE CHOOSE b \in above : \A c \in above : b <= c
\* bitmap::seek: the first member that is not below n.
BitmapSeek(bitmap, n) ==
    LET above == {b \in bitmap : b >= n} IN
    IF above = {} THEN None ELSE CHOOSE b \in above : \A c \in above : b <= c

\* The change sets hold at most one value of an account for a block.
ChangeOf(changes) == IF changes = {} THEN NoChange ELSE (CHOOSE c \in changes : TRUE).value

HistoricalAccount(db, address, block_number) ==
    LET key == Seek(db.account_history, AccountHistoryKey(address, block_number))
        change_block == BitmapSeek(db.account_history[key], block_number)
    IN CASE key = None -> NoChange
         [] key # None /\ key[1] # address -> NoChange
         [] key # None /\ key[1] = address /\ change_block = None -> NoChange
         [] OTHER -> ChangeOf({c \in db.account_changes :
                                 c.block = change_block /\ c.address = address})

HistoricalStorage(db, address, incarnation, location, block_number) ==
    LET key == Seek(db.storage_history, StorageHistoryKey(address, location, block_number))
        found == /\ key # None
                 /\ Len(key) > Len(location)
                 /\ SubSeq(key, 1, 1 + Len(location)) = <<address>> \o location
        change_block == IF found THEN BitmapSeek(db.storage_history[key], block_number) ELSE None
    IN IF change_block = None THEN NoChange
       ELSE ChangeOf({c \in db.storage_changes :
                        /\ c.block = change_block /\ c.address = address
                        /\ c.incarnation = incarnation /\ c.location = location})

\* The code hash is left out of most change sets; it is kept per incarnation.
RestoreCodeHash(db, address, acc) ==
    LET hash == db.plain_contract_code[address, acc.incarnation] IN
    IF acc.incarnation > 0 /\ acc.code_hash = EmptyHash
    THEN [acc EXCEPT !.code_hash = IF hash = None THEN @ ELSE hash] ELSE acc

\* block_num is None for the current state.
ReadAccount(db, address, block_num) ==
    LET old == IF block_num = None THEN NoChange ELSE HistoricalAccount(db, address, block_num)
        encoded == IF old = NoChange THEN db.plain_accounts[address] ELSE old
    IN IF encoded = None THEN None ELSE RestoreCodeHash(db, address, encoded)

ReadStorage(db, address, incarnation, location, block_num) ==
    LET old == IF block_num = None THEN NoChange
               ELSE HistoricalStorage(db, address, incarnation, location, block_num)
    IN IF old = NoChange THEN db.plain_storage[address, incarnation, location] ELSE old

\* Not implemented for historical blocks: no incarnation is found.
ReadPreviousIncarnation(db, address, block_num) ==
    IF block_num = None THEN db.incarnation_map[address] ELSE 0

ReadAccountChanges(db, block_num) == {c \in db.account_changes : c.block = block_num}
=============================================================================
