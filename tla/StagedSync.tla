----------------------------- MODULE StagedSync -----------------------------
(***************************************************************************)
(* The staged sync: tools that share one chain database.  The downloader   *)
(* (external) adds blocks; check_senders recovers their senders; execute   *)
(* (cmd/execute.cpp) runs them through silkworm_execute_blocks             *)
(* (tg_api/silkworm_tg_api.cpp) batch by batch; the other stages index and *)
(* hash what execution has left.  LMDB has one writer at a time: a tool    *)
(* works on the database while it holds the write transaction, and what it *)
(* has not committed is gone when it crashes.                              *)
(*                                                                         *)
(* What a block does to the state is abstracted to one effect on each      *)
(* account it touches.  It reaches the buffer in the order of              *)
(* IntraBlockState::write_to_db: first the slots, then the accounts.       *)
(***************************************************************************)
EXTENDS SendersStage

CONSTANTS Chains,         \* the chains there may be, see Block
          GenesisBalance, \* address -> balance or None
          InitialHead,    \* the height of the chain at first
          ToBlock, BatchSize, RecoverFrom, UnwindTo,   \* command line arguments
          Beyond,         \* what may follow a buffer in memory
          CodeHash, MaxIncarnation,
          MaxRuns         \* bound: runs of the tools other than execute in a behaviour

VARIABLES chain,     \* the chain the downloader works on
          db,        \* the committed database
          session,   \* what execute is at, or None
          failed,    \* the stages whose last run threw
          lost,      \* blocks that were executed and whose changes were dropped
          runs

vars == <<chain, db, session, failed, lost, runs>>

ChainHead == Len(chain)
HashOf(n) == 10 + ((n * 7) % 10)   \* canonical hashes are not in the order of their blocks
SideHash(n) == 20 + n

(* ------------------------- Effects of a block ------------------------- *)

\* What an effect makes of an account, given the account and its last incarnation.
Outcome(effect, account, previous) ==
    LET balance == IF account = None THEN 0 ELSE account.balance
        last == IF account # None /\ account.incarnation # 0 THEN account.incarnation ELSE previous
    IN CASE effect.op = "pay" ->
              IF account = None THEN Account(1, 0, EmptyHash) ELSE [account EXCEPT !.balance = @ + 1]
         [] effect.op = "deploy" -> Account(balance, last + 1, CodeHash)
         [] effect.op = "destroy" -> None
         [] effect.op \in {"store", "touch"} -> account

StoresOf(effect) == IF effect.op \in {"deploy", "store"} THEN effect.slots ELSE {}

\* IntraBlockState::write_to_db for one account: its slots, the account, its code.
WriteSlots(b, base, effect, current) ==
    LET old(l) == BufferStorage(b, base, effect.address, current.incarnation, l) IN
    IF current = None THEN b
    ELSE FoldSet(LAMBDA l, c : UpdateStorage(c, effect.address, current.incarnation, l,
                                             old(l), 1 - old(l)), b, StoresOf(effect))
WriteAccount(b, base, effect, initial, current) ==
    LET c == UpdateAccount(b, effect.address, initial, current) IN
    IF /\ current # None
       /\ current.code_hash # EmptyHash
       /\ initial = None \/ initial.incarnation # current.incarnation
    THEN UpdateAccountCode(c, effect.address, current.incarnation, current.code_hash)
    ELSE c

\* execute_block of a valid block.
ExecuteBlock(b, base, number, block) ==
    LET initial(e) == BufferAccount(b, base, e.address)
        current(e) == Outcome(e, initial(e), PreviousIncarnation(b, base, e.address))
        slots == FoldSet(LAMBDA e, c : WriteSlots(c, base, e, current(e)),
                         BeginBlock(b, number), block.effects)
    IN FoldSet(LAMBDA e, c : WriteAccount(c, base, e, initial(e), current(e)), slots, block.effects)

(* ------------------ The state the chain prescribes -------------------- *)

GenesisState ==
    [accounts |-> [a \in Address |-> IF GenesisBalance[a] = None THEN None
                                     ELSE Account(GenesisBalance[a], 0, EmptyHash)],
     storage |-> [k \in Address \X (1 .. MaxIncarnation) \X Location |-> 0],
     previous |-> [a \in Address |-> 0]]

ApplyEffect(state, effect) ==
    LET a == effect.address
        before == state.accounts[a]
        after == Outcome(effect, before, state.previous[a])
    IN [state EXCEPT !.accounts[a] = after,
                     !.previous[a] = IF after = None /\ before # None /\ before.incarnation # 0
                                    THEN before.incarnation ELSE @,
                     !.storage = [k \in DOMAIN @ |->
                        IF /\ after # None /\ k[1] = a /\ k[3] \in StoresOf(effect)
                           /\ k[2] = after.incarnation
                        THEN 1 - @[k] ELSE @[k]]]

\* The state after the first n blocks.
StateAt(n) ==
    FoldLeft(LAMBDA s, block : FoldSet(LAMBDA e, t : ApplyEffect(t, e), s, block.effects),
             GenesisState, SubSeq(chain, 1, n))

(* -------------------------- The first database ------------------------ *)

\* initialize_with_genesis: the allocations, with a change set of block 0, and the
\* genesis block.  The storage mode, and the record of the migrations that execute asks
\* for, are what Turbo-Geth leaves in its databases.
Genesis(receipts_mode, migrated) ==
    LET allocated == {a \in Address : GenesisBalance[a] # None} IN
    [plain_accounts |-> GenesisState.accounts, plain_storage |-> GenesisState.storage,
     plain_contract_code |-> [k \in Address \X (1 .. MaxIncarnation) |-> None],
     incarnation_map |-> GenesisState.previous,
     account_changes |-> {[block |-> 0, address |-> a, value |-> None] : a \in allocated},
     storage_changes |-> {},
     headers |-> {<<0, HashOf(0)>>}, canonical_hashes |-> (<<0>> :> HashOf(0)),
     bodies |-> (<<0, HashOf(0)>> :> [base_txn_id |-> 0, txn_count |-> 0]),
     eth_tx |-> EmptyTable, header_numbers |-> (<<HashOf(0)>> :> 0),
     receipts |-> (<<0>> :> 0), logs |-> EmptyTable, senders |-> EmptyTable,
     account_history |-> EmptyTable, storage_history |-> EmptyTable,
     log_address_index |-> EmptyTable, log_topic_index |-> EmptyTable,
     hashed_accounts |-> EmptyTable, hashed_storage |-> {}, contract_code |-> EmptyTable,
     tx_lookup |-> EmptyTable, receipts_mode |-> receipts_mode, migrated |-> migrated,
     progress |-> [s \in kAllStages |-> 0]]

\* External: Turbo-Geth stores a body, its transactions under the next free ids.
StoreBody(d, key, txns) ==
    LET base == Cardinality(DOMAIN d.eth_tx) IN
    [d EXCEPT !.bodies = Put(@, key, [base_txn_id |-> base, txn_count |-> Len(txns)]),
              !.eth_tx = [i \in base .. base + Len(txns) - 1 |-> txns[i - base + 1]] @@ @,
              !.headers = @ \cup {key}]

\* External: the canonical block n, and a block that has lost the race for its height.
Downloaded(d, n) ==
    LET block == chain[n]
        e == StoreBody(d, <<n, HashOf(n)>>, block.txns)
        f == IF block.side = <<>> THEN e ELSE StoreBody(e, <<n, SideHash(n)>>, block.side)
    IN SetStageProgress([f EXCEPT !.canonical_hashes = Put(@, <<n>>, HashOf(n))], kBlockBodiesKey, n)

Init == /\ chain \in Chains
        /\ \E receipts_mode, migrated \in BOOLEAN :
             db = FoldLeft(LAMBDA d, n : Downloaded(d, n), Genesis(receipts_mode, migrated),
                           [n \in 1 .. InitialHead |-> n])
        /\ session = None
        /\ failed = {}
        /\ lost = {}
        /\ runs = 0

Height == GetStageProgress(db, kBlockBodiesKey)
WriterFree == session # None => session.phase = "between"
Progress == GetStageProgress(db, kExecutionKey)

(* ------------------------------ execute ------------------------------- *)

Session(previous_progress, to, batch) ==
    [phase |-> "between", current |-> previous_progress, to |-> to, batch |-> batch,
     buffer |-> None]

\* main of execute, up to its loop.
StartExecute(to, batch) ==
    /\ session = None
    /\ Progress + 1 <= to
    /\ session' = Session(Progress, to, batch)
    /\ UNCHANGED <<chain, db, failed, lost, runs>>

\* The next turn of the loop: a transaction, and a buffer for silkworm_execute_blocks.
BeginBatch ==
    /\ session # None
    /\ session.phase = "between"
    /\ session' = [session EXCEPT !.phase = "batch", !.buffer = NewBuffer(None)]
    /\ UNCHANGED <<chain, db, failed, lost, runs>>

\* The loop is left when the next block is past the last one wanted.
NextTurn(s, last) ==
    IF last + 1 > s.to THEN None
    ELSE [s EXCEPT !.phase = "between", !.buffer = None, !.current = last]

Executed(s, number) ==
    LET b == ExecuteBlock(s.buffer, db, number, chain[number]) IN
    IF db.receipts_mode THEN InsertReceipts(b, number, chain[number].logs) ELSE b

BatchIsOver(s, b, number) == b.batch_size >= s.batch \/ number + 1 > s.to

\* A block is executed on the buffer, and the batch goes on.
ExecuteNext ==
    LET number == session.current + 1
        b == Executed(session, number)
    IN /\ session # None
       /\ session.phase = "batch"
       /\ db.migrated
       /\ ReadBlock(db, number) \notin {None, MissingSenders}
       /\ chain[number].valid
       /\ ~BatchIsOver(session, b, number)
       /\ session' = [session EXCEPT !.buffer = b, !.current = number]
       /\ UNCHANGED <<chain, db, failed, lost, runs>>

\* The last block of a batch: the buffer is written, the progress set, all committed.
CommitBatch ==
    LET number == session.current + 1
        b == Executed(session, number)
    IN /\ session # None
       /\ session.phase = "batch"
       /\ db.migrated
       /\ ReadBlock(db, number) \notin {None, MissingSenders}
       /\ chain[number].valid
       /\ BatchIsOver(session, b, number)
       /\ db' = SetStageProgress(WriteToDb(b, db), kExecutionKey, number)
       /\ session' = NextTurn(session, number)
       /\ UNCHANGED <<chain, failed, lost, runs>>

\* kSilkwormBlockNotFound: the buffer is not written, but the progress is set to the last
\* block executed and committed.
BlockNotFound ==
    /\ session # None
    /\ session.phase = "batch"
    /\ db.migrated
    /\ ReadBlock(db, session.current + 1) = None
    /\ db' = SetStageProgress(db, kExecutionKey, session.current)
    /\ lost' = lost \cup (Progress + 1 .. session.current)
    /\ session' = None
    /\ UNCHANGED <<chain, failed, runs>>

\* Mutant: an error does not end the loop of execute.
ExecuteErrorRetried ==
    /\ session # None
    /\ session.phase = "batch"
    /\ ReadBlock(db, session.current + 1) = MissingSenders
    /\ session' = [session EXCEPT !.phase = "between", !.current = Progress]
    /\ UNCHANGED <<chain, db, failed, lost, runs>>
\* kSilkwormIncompatibleDbFormat, kSilkwormMissingSenders, kSilkwormInvalidBlock: execute
\* returns without a commit.
ExecuteError ==
    /\ session # None
    /\ session.phase = "batch"
    /\ \/ ~db.migrated
       \/ ReadBlock(db, session.current + 1) = MissingSenders
       \/ /\ ReadBlock(db, session.current + 1) # None
          /\ ~chain[session.current + 1].valid
    /\ session' = None
    /\ UNCHANGED <<chain, db, failed, lost, runs>>

Crash ==
    /\ session # None
    /\ session' = None
    /\ UNCHANGED <<chain, db, failed, lost, runs>>

(* ---------------------------- Other tools ----------------------------- *)

\* External: one more block.
Download ==
    /\ WriterFree
    /\ Height < ChainHead
    /\ db' = Downloaded(db, Height + 1)
    /\ UNCHANGED <<chain, session, failed, lost, runs>>

\* A run of the tool of a stage, from beginning to commit or exception.
Run(stage, result) ==
    /\ WriterFree
    /\ runs < MaxRuns
    /\ runs' = runs + 1
    /\ db' = result.db
    /\ failed' = IF result.ok THEN failed \ {stage} ELSE failed \cup {stage}
    /\ UNCHANGED <<chain, session, lost>>

RunRecover == \E from \in RecoverFrom, force \in BOOLEAN :
                  Run(kSendersKey, Recover(db, from, Uint64Max, force))
RunUnwind == \E to \in UnwindTo : /\ to <= GetStageProgress(db, kSendersKey)
                                  /\ Run(kSendersKey, [ok |-> TRUE, db |-> Unwind(db, to)])
\* The flags of history_index, log_index and tx_lookup are read uninitialised when they
\* are not given on the command line.
RunHistoryIndex == \E storage, full \in BOOLEAN, beyond \in Beyond :
    Run(IF storage THEN kStorageHistoryIndexKey ELSE kAccountHistoryKey,
        HistoryIndex(db, storage, full, beyond))
RunLogIndex == \E full \in BOOLEAN : Run(kLogIndexKey, LogIndex(db, full))
RunHashState == \E full, incrementally, reset \in BOOLEAN :
    Run(kHashStateKey, HashState(db, full, incrementally, reset))
RunTxLookup == \E full \in BOOLEAN : Run(kTxLookupKey, TxLookup(db, full))
RunBlockHashes == Run(kBlockHashesKey, BlockHashes(db))

Execute == BeginBatch \/ ExecuteNext \/ CommitBatch \/ BlockNotFound \/ ExecuteError

Next == \/ \E to \in ToBlock, batch \in BatchSize : StartExecute(to, batch)
        \/ Execute
        \/ Crash
        \/ Download
        \/ RunRecover \/ RunUnwind
        \/ RunHistoryIndex \/ RunLogIndex \/ RunHashState \/ RunTxLookup \/ RunBlockHashes

\* Once started, execute goes on until it is done or killed: weak fairness of Execute, which
\* is enabled as long as there is a session, and alone changes it until its end.
Fairness == []<>(session = None) \/ []<><<session # None>>_session

Spec == Init /\ [][Next]_vars /\ Fairness

(* ----------------------------- Properties ----------------------------- *)

\* The committed plain state is the state after exactly the blocks that the progress of the
\* execution stage counts, however the blocks were cut into batches, wherever execute was
\* killed, and whichever tools ran in between (Buffer::write_to_db, execute main).
CommittedStateIsChainState ==
    lost = {} => LET state == StateAt(Progress) IN
                 /\ db.plain_accounts = state.accounts
                 /\ db.plain_storage = state.storage
                 /\ db.incarnation_map = state.previous

\* All changes are in the index of the history of accounts.
HistoryIsIndexed ==
    \A c \in db.account_changes : c.block <= GetStageProgress(db, kAccountHistoryKey)

\* With an index that is up to date, read_account of a block returns every account as it
\* was before that block, code hash and incarnation included.
AccountHistoryIsExact ==
    lost = {} /\ HistoryIsIndexed =>
        \A n \in 1 .. Progress, a \in Address :
            ReadAccount(db, a, n) = StateAt(n - 1).accounts[a]

\* check_changes finds what execute has stored: executing a block again on the state as it
\* was before it yields the change set of accounts that the database has.
ChangeSetsAreReproducible ==
    lost = {} /\ HistoryIsIndexed =>
        \A n \in 1 .. Progress :
            ExecuteBlock(NewBuffer(n), db, n, chain[n]).account_changes = ReadAccountChanges(db, n)

\* Once hashstate has caught up with execution, check_hashstate complains about no account
\* that has changed since the genesis block, and about the code of no contract that is
\* alive, whatever mix of modes got it there.
HashedAccountsFollow ==
    (Progress > 0 /\ GetStageProgress(db, kHashStateKey) = Progress) =>
        /\ \A a \in CheckHashState(db) :
             \A c \in db.account_changes : c.address = a => c.block = 0
        /\ \A k \in CheckHashedCode(db) :
             db.plain_accounts[k[1]] # None => db.plain_accounts[k[1]].incarnation # k[2]

\* A canonical transaction is looked up in a block that has it, which is the canonical one
\* unless a block that is not canonical has it too; a canonical hash leads to its number;
\* and as long as all blocks are canonical, check_tx_lookup has nothing to complain about.
LookupsAreExact ==
    /\ \A n \in 1 .. GetStageProgress(db, kTxLookupKey) :
         \A t \in ToSet(chain[n].txns) :
            Get(db.tx_lookup, <<Keccak(t)>>) \in
                {k[1] : k \in {l \in DOMAIN db.bodies : t \in ToSet(TxnsOf(db, l))}}
    /\ \A n \in CheckBlockHashes(db) : n[1] > GetStageProgress(db, kBlockHashesKey)
    /\ (\A n \in 1 .. Height : chain[n].side = <<>>) =>
         \A n \in 1 .. GetStageProgress(db, kTxLookupKey) :
            ToSet(chain[n].txns) \cap CheckTxLookup(db) = {}




\* Every run of execute comes to an end: each turn of its loop gets past at least one block.
ExecuteTerminates == session # None ~> session = None

\* Blocks that were executed and counted as progress are in the database.
ExecutedBlocksAreCommitted == lost = {}

\* With an index that is up to date, read_storage of a block returns every slot of the
\* contract as it was before that block.
StorageHistoryIsExact ==
    (/\ lost = {}
     /\ kStorageHistoryIndexKey \notin failed
     /\ \A c \in db.storage_changes : c.block <= GetStageProgress(db, kStorageHistoryIndexKey)) =>
        \A n \in 1 .. Progress, k \in DOMAIN db.plain_storage :
            ReadStorage(db, k[1], k[2], k[3], n) = StateAt(n - 1).storage[k]
=============================================================================
