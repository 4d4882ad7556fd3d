---------------------------- MODULE SendersStage ----------------------------
(***************************************************************************)
(* The senders' stage as the database sees it (cmd/check_senders.cpp): the *)
(* range of blocks that RecoveryFarm::recover takes on, the rows it loads, *)
(* and unwind.  How the workers recover the senders is the subject of      *)
(* RecoveryFarm; a row holds as many senders as the block has              *)
(* transactions.                                                           *)
(***************************************************************************)
EXTENDS LookupStages

\* Unwinding to a height up to 1 clears the table.
Unwind(db, new_height) ==
    LET gone == {k \in DOMAIN db.senders : new_height <= 1 \/ k[1] >= new_height + 1} IN
    SetStageProgress([db EXCEPT !.senders = Del(@, gone)], kSendersKey, new_height)

CanonicalFrom(db, number) == {k[1] : k \in {l \in DOMAIN db.canonical_hashes : l[1] >= number}}

\* All canonical headers from height_from on, to the end of the table.
FillCanonicalHeaders(db, height_from, height_to) ==
    LET numbers == CanonicalFrom(db, height_from) IN
    /\ height_from \in numbers
    /\ numbers = height_from .. height_to

\* The blocks with transactions in order.  Results are matched with the headers from the
\* first one on, whether or not their blocks have transactions.
RecoveredRows(db, height_from, height_to) ==
    LET hash(n) == db.canonical_hashes[<<n>>]
        txns(n) == TxnsOf(db, <<n, hash(n)>>)
        blocks == InOrder({n \in height_from .. height_to : txns(n) # <<>>}, <)
    IN [i \in DOMAIN blocks |->
          Entry(<<blocks[i], hash(height_from + i - 1)>>, Len(txns(blocks[i])))]

Recover(db, from, to, force) ==
    LET done == GetStageProgress(db, kSendersKey)
        start == IF from > done + 1 THEN done + 1 ELSE from
        redo == start <= done /\ force
        unwound == IF redo THEN Unwind(db, IF start # 0 THEN start - 1 ELSE start) ELSE db
        height_from == IF start <= done /\ ~force THEN done + 1 ELSE start
        bodies == GetStageProgress(db, kBlockBodiesKey)
        height_to == IF to > bodies THEN bodies ELSE to
        rows == RecoveredRows(db, height_from, height_to)
        l == Load(unwound.senders, rows, TRUE)
        last == Max({k[1] : k \in DOMAIN l.table})
    IN IF height_from > height_to \/ ~FillCanonicalHeaders(db, height_from, height_to) THEN Thrown(db)
       ELSE IF rows = <<>> THEN Committed(unwound)
       ELSE IF ~l.ok THEN Thrown(db)
       ELSE Committed(SetStageProgress([unwound EXCEPT !.senders = l.table], kSendersKey, last))
=============================================================================
