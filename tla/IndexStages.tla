---------------------------- MODULE IndexStages -----------------------------
(***************************************************************************)
(* The stages that index what execution has left in the database: the      *)
(* account and storage history (cmd/history_index.cpp) and the addresses   *)
(* and topics of the logs (cmd/log_index.cpp).  An index maps a key to the *)
(* bitmap of the blocks it occurs in.  A bitmap that exceeds               *)
(* kBitmapChunkLimit is meant to be cut (db/bitmap.cpp) into chunks, each  *)
(* stored under its largest block and the last one under UINT64_MAX.       *)
(*                                                                         *)
(* A tool works in one LMDB transaction and commits at the end; Done tells *)
(* whether it got there, and the database then.                            *)
(***************************************************************************)
EXTENDS DbBuffer

CONSTANTS kBitmapChunkLimit,      \* members of a bitmap that fit in a chunk
          kBitmapBufferSizeLimit  \* occurrences kept in memory before they are collected

Committed(db) == [ok |-> TRUE, db |-> db]
Nothing(db) == [ok |-> TRUE, db |-> db]
Thrown(db) == [ok |-> FALSE, db |-> db]

Merged(table, key, bitmap) ==
    LET previous == Get(table, key) IN IF previous = None THEN bitmap ELSE bitmap \cup previous

\* The search for the cutting point ends before its first step, i = maximum - minimum
\* being above j = 0.  The chunk is the bitmap without its maximum, and the maximum is
\* removed with the rest.
CutLeft(bitmap) ==
    IF Cardinality(bitmap) <= kBitmapChunkLimit THEN [chunk |-> bitmap, rest |-> {}]
    ELSE LET from == Min(bitmap)
             i == Max(bitmap) - from
         IN [chunk |-> bitmap \cap (from .. from + i - 1), rest |-> bitmap \ (from .. from + i)]

RECURSIVE PutChunks(_, _, _, _)
PutChunks(l, key, bitmap, append) ==
    IF bitmap = {} THEN l
    ELSE LET cut == CutLeft(bitmap)
             suffix == IF cut.rest = {} THEN Uint64Max ELSE Max(cut.chunk)
         IN PutChunks(PutFlags(l, key \o <<suffix>>, cut.chunk, append), key, cut.rest, append)

\* The loader both tools give the collector.  Extending a bitmap is never an append.
LoadBitmap(l, entry, append) ==
    LET last_chunk_index == entry.key \o <<Uint64Max>>
        extends == last_chunk_index \in DOMAIN l.table
    IN PutChunks(l, entry.key, Merged(l.table, last_chunk_index, entry.value),
                 append /\ ~extends)
LoadBitmaps(table, entries, append) ==
    FoldLeft(LAMBDA l, e : LoadBitmap(l, e, append), Loading(table), SortSeq(entries, KeyLess))

\* Occurrences are records of key and block in the order of the blocks.  Whenever the
\* memory is full, the bitmaps found so far are collected and started anew.
Bitmaps(occurrences) ==
    LET keys == {o.key : o \in ToSet(occurrences)}
        bitmap(k) == {o.block : o \in {x \in ToSet(occurrences) : x.key = k}}
    IN InOrder({Entry(k, bitmap(k)) : k \in keys}, KeyLess)
Collected(occurrences) ==
    LET n == kBitmapBufferSizeLimit
        part(p) == SubSeq(occurrences, n * (p - 1) + 1, n * p)
        rest == SubSeq(occurrences, n * (Len(occurrences) \div n) + 1, Len(occurrences))
    IN FlattenSeq([p \in 1 .. Len(occurrences) \div n |-> Bitmaps(part(p))]) \o Bitmaps(rest)

InOrderOfBlocks(occurrences) ==
    InOrder(occurrences, LAMBDA o, p : o.block < p.block \/ (o.block = p.block /\ KeyLess(o, p)))

\* std::string(char[]): up to the first NUL; without one it runs on into whatever
\* follows the array in memory.
CString(bytes, beyond) ==
    LET nul == SelectInSeq(bytes, LAMBDA b : b = 0) IN
    IF nul = 0 THEN bytes \o beyond ELSE SubSeq(bytes, 1, nul - 1)

CompositeKey(storage, change, beyond) ==
    IF storage THEN CString(<<change.address>> \o change.location, beyond) ELSE <<change.address>>

HistoryIndex(db, storage, full, beyond) ==
    LET stage_key == IF storage THEN kStorageHistoryIndexKey ELSE kAccountHistoryKey
        last_processed == IF full THEN 0 ELSE GetStageProgress(db, stage_key)
        index == IF full THEN EmptyTable
                 ELSE IF storage THEN db.storage_history ELSE db.account_history
        changes == {c \in (IF storage THEN db.storage_changes ELSE db.account_changes) :
                      c.block >= last_processed}
        occurrences == InOrderOfBlocks({[key |-> CompositeKey(storage, c, beyond),
                                         block |-> c.block] : c \in changes})
        l == LoadBitmaps(index, Collected(occurrences), last_processed = 0)
        indexed == IF storage THEN [db EXCEPT !.storage_history = l.table]
                   ELSE [db EXCEPT !.account_history = l.table]
    IN IF changes = {} THEN Nothing(db)
       ELSE IF ~l.ok THEN Thrown(db)
       ELSE Committed(SetStageProgress(indexed, stage_key, Max({c.block : c \in changes})))

\* listener_log_index::on_bytes: 20 bytes are an address, 32 a topic.
OnBytes(logs, kind) ==
    InOrderOfBlocks(UNION {{[key |-> <<i.key>>, block |-> k[1]] :
                              i \in {j \in logs[k] : j.kind = kind}} : k \in DOMAIN logs})

\* The last block is processed again.
LogsFrom(db, last_processed) ==
    Restrict(db.logs, {k \in DOMAIN db.logs : k[1] >= last_processed})

LogIndex(db, full) ==
    LET last_processed == IF full THEN 0 ELSE GetStageProgress(db, kLogIndexKey)
        logs == LogsFrom(db, last_processed)
        load(table, kind) == LoadBitmaps(IF full THEN EmptyTable ELSE table,
                                         Collected(OnBytes(logs, kind)), last_processed = 0)
        topics == load(db.log_topic_index, "topic")
        addresses == load(db.log_address_index, "address")
        indexed == [db EXCEPT !.log_topic_index = topics.table,
                              !.log_address_index = addresses.table]
    IN IF ~topics.ok \/ ~addresses.ok THEN Thrown(db)
       ELSE Committed(SetStageProgress(indexed, kLogIndexKey,
                                       Max({k[1] : k \in DOMAIN logs} \cup {0})))
=============================================================================
