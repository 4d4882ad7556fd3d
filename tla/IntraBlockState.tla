-------------------------- MODULE IntraBlockState --------------------------
(***************************************************************************)
(* The journalled state at work: the EVM calls the methods of one          *)
(* IntraBlockState in any order its call frames allow, transaction after   *)
(* transaction of a block.  An action Do... applies the method of that     *)
(* name to the object ibs.                                                 *)
(*                                                                         *)
(* Auxiliary (read by no guard): the field "saved" of a snapshot, the      *)
(* observable state when it was taken; and txn_start, the observable state *)
(* when the running transaction began.                                     *)
(***************************************************************************)
EXTENDS Journal

CONSTANTS
    SpuriousDragon,  \* rev >= EVMC_SPURIOUS_DRAGON: EIP-161 is in force
    Amount,          \* the amounts of ether and gas refund that are moved
    InitialDb,       \* the contents the StateBuffer may start with
    MaxJournal, MaxSnapshots, MaxLogs, MaxRefund, MaxTransactions, MaxNonce   \* bounds

ASSUME BoundsAssumption ==
    /\ Amount \subseteq Nat /\ SpuriousDragon \in BOOLEAN
    /\ \A bound \in {MaxNonce, MaxJournal, MaxSnapshots, MaxLogs, MaxRefund, MaxTransactions} :
         bound \in Nat

\* Only contracts, whose incarnation is positive, have storage in db.
ASSUME DbAssumption ==
    /\ InitialDb \subseteq StateBuffer
    /\ \A db \in InitialDb : \A a \in Address, k \in Key : db.storage[a][0][k] = Zero

VARIABLES
    ibs,         \* the IntraBlockState object
    snapshots,   \* the live Snapshot values, innermost frame last
    cursor,      \* journal entries not undone: the i of revert_to_snapshot
    reverting,   \* inside revert_to_snapshot
    phase,       \* "idle" between transactions, "executing" inside one
    txns,        \* transactions begun in this block
    txn_start

vars == <<ibs, snapshots, cursor, reverting, phase, txns, txn_start>>

-----------------------------------------------------------------------------
(***************************************************************************)
(* The actions.  A guard that is not in the method is the condition under  *)
(* which the EVM calls it (execution/evm.cpp, execution/processor.cpp).    *)
(***************************************************************************)
Init == /\ \E db \in InitialDb : ibs = Fresh(db)
        /\ snapshots = <<>>
        /\ cursor = 0
        /\ reverting = FALSE
        /\ phase = "idle"
        /\ txns = 0
        /\ txn_start = Observable(ibs)

Step(s) == /\ phase = "executing" /\ ~reverting
           /\ Len(s.journal) <= MaxJournal
           /\ ibs' = s
           /\ cursor' = Len(s.journal)
           /\ UNCHANGED <<snapshots, reverting, phase, txns, txn_start>>

DoGetObject(a) == Step(GetObject(ibs, a))
DoGetCode(a) == Step(GetCode(ibs, a))
DoGetStorage(a, k, original) == Step(GetStorage(ibs, a, k, original))
DoSetBalance(a) == Step(SetBalance(ibs, a, 0))
DoAddToBalance(a, n) == Step(AddToBalance(ibs, a, n))
DoSubtractFromBalance(a, n) == n <= Balance(ibs, a) /\ Step(SubtractFromBalance(ibs, a, n))
DoSetNonce(a) == Nonce(ibs, a) < MaxNonce /\ Step(SetNonce(ibs, a, Nonce(ibs, a) + 1))
DoSetCode(a, hash) ==
    /\ IncarnationOf(ibs, a) > 0 /\ CodeHash(ibs, a) = EmptyHash
    /\ Step(SetCode(ibs, a, hash))
DoCreateContract(a) ==
    /\ Nonce(ibs, a) = 0 /\ CodeHash(ibs, a) = EmptyHash
    /\ PrevIncarnation(ibs, a) < MaxIncarnation
    /\ Step(CreateContract(ibs, a))
DoTouch(a) == Step(Touch(ibs, a))
DoRecordSuicide(a) == IncarnationOf(ibs, a) > 0 /\ Step(RecordSuicide(ibs, a))
DoAccessAccount(a) == Step(AccessAccount(ibs, a))
DoAccessStorage(a, k) == Step(AccessStorage(ibs, a, k))
DoSetStorage(a, k, v) == IncarnationOf(ibs, a) > 0 /\ Step(SetStorage(ibs, a, k, v))
DoAddLog(l) == Len(ibs.logs) < MaxLogs /\ Step([ibs EXCEPT !.logs = Append(@, l)])
DoAddRefund(n) == ibs.refund + n <= MaxRefund /\ Step([ibs EXCEPT !.refund = (@ + n) % UintMod])
DoSubtractRefund(n) == n <= ibs.refund /\ Step([ibs EXCEPT !.refund = (@ - n) % UintMod])

DoTakeSnapshot ==
    /\ phase = "executing" /\ ~reverting
    /\ Len(snapshots) < MaxSnapshots
    /\ snapshots' = Append(snapshots, [journal_size |-> Len(ibs.journal),
                                       log_size |-> Len(ibs.logs),
                                       refund |-> ibs.refund,
                                       saved |-> Observable(ibs)])
    /\ UNCHANGED <<ibs, cursor, reverting, phase, txns, txn_start>>

\* The frame that holds the innermost snapshot succeeds.
DropSnapshot ==
    /\ phase = "executing" /\ ~reverting /\ snapshots # <<>>
    /\ snapshots' = SubSeq(snapshots, 1, Len(snapshots) - 1)
    /\ UNCHANGED <<ibs, cursor, reverting, phase, txns, txn_start>>

\* The frame fails: revert_to_snapshot is entered, ...
RevertToSnapshot ==
    /\ phase = "executing" /\ ~reverting /\ snapshots # <<>>
    /\ reverting' = TRUE
    /\ UNCHANGED <<ibs, snapshots, cursor, phase, txns, txn_start>>

Top == snapshots[Len(snapshots)]

\* ... its loop undoes one entry, ...
RevertEntry ==
    /\ reverting /\ cursor > Top.journal_size
    /\ ibs' = Revert(ibs, ibs.journal[cursor].delta)
    /\ cursor' = cursor - 1
    /\ UNCHANGED <<snapshots, reverting, phase, txns, txn_start>>

\* Mutant: the loop stops one entry short.
RevertDoneOneShort ==
    /\ reverting /\ cursor <= Top.journal_size + 1
    /\ ibs' = [ibs EXCEPT !.journal = SubSeq(@, 1, Top.journal_size),
                          !.logs = SubSeq(@, 1, Top.log_size),
                          !.refund = Top.refund]
    /\ cursor' = Top.journal_size
    /\ snapshots' = SubSeq(snapshots, 1, Len(snapshots) - 1)
    /\ reverting' = FALSE
    /\ UNCHANGED <<phase, txns, txn_start>>

\* Mutant: the refund of the failed frame is kept.
RevertDoneKeepsRefund ==
    /\ reverting /\ cursor = Top.journal_size
    /\ ibs' = [ibs EXCEPT !.journal = SubSeq(@, 1, Top.journal_size),
                          !.logs = SubSeq(@, 1, Top.log_size)]
    /\ snapshots' = SubSeq(snapshots, 1, Len(snapshots) - 1)
    /\ reverting' = FALSE
    /\ UNCHANGED <<cursor, phase, txns, txn_start>>

\* ... and it truncates the journal and the logs and resets the refund.
RevertDone ==
    /\ reverting /\ cursor = Top.journal_size
    /\ ibs' = [ibs EXCEPT !.journal = SubSeq(@, 1, Top.journal_size),
                          !.logs = SubSeq(@, 1, Top.log_size),
                          !.refund = Top.refund]
    /\ snapshots' = SubSeq(snapshots, 1, Len(snapshots) - 1)
    /\ reverting' = FALSE
    /\ UNCHANGED <<cursor, phase, txns, txn_start>>

\* execute_transaction begins ...
BeginTransaction ==
    /\ phase = "idle" /\ txns < MaxTransactions
    /\ ibs' = ClearJournalAndSubstate(ibs)
    /\ txn_start' = Observable(ibs')
    /\ cursor' = 0
    /\ phase' = "executing"
    /\ txns' = txns + 1
    /\ UNCHANGED <<snapshots, reverting>>

\* ... and ends, when every frame has returned.
EndTransaction ==
    /\ phase = "executing" /\ ~reverting /\ snapshots = <<>>
    /\ LET s == DestructSuicides(ibs)
       IN ibs' = FinalizeTransaction(IF SpuriousDragon THEN DestructTouchedDead(s) ELSE s)
    /\ phase' = "idle"
    /\ UNCHANGED <<snapshots, cursor, reverting, txns, txn_start>>

AccountOp ==
    \E a \in Address :
      \/ DoGetObject(a) \/ DoSetBalance(a) \/ DoCreateContract(a) \/ DoRecordSuicide(a)
      \/ \E n \in Amount : DoAddToBalance(a, n) \/ DoSubtractFromBalance(a, n)
      \/ \E k \in Key : \/ \E original \in BOOLEAN : DoGetStorage(a, k, original)
                        \/ \E v \in Value : DoSetStorage(a, k, v)

CodeOp == \E a \in Address : \/ DoGetCode(a) \/ DoSetNonce(a)
                            \/ \E hash \in Code : DoSetCode(a, hash)

SubstateOp ==
    \/ \E a \in Address : \/ DoTouch(a) \/ DoAccessAccount(a)
                          \/ \E k \in Key : DoAccessStorage(a, k)
    \/ \E l \in LogEntry : DoAddLog(l)
    \/ \E n \in Amount : DoAddRefund(n) \/ DoSubtractRefund(n)

FrameOp == DoTakeSnapshot \/ DropSnapshot \/ RevertToSnapshot \/ RevertEntry \/ RevertDone

TransactionOp == BeginTransaction \/ EndTransaction

Next == AccountOp \/ CodeOp \/ SubstateOp \/ FrameOp \/ TransactionOp

Spec == Init /\ [][Next]_vars

-----------------------------------------------------------------------------
(***************************************************************************)
(* Correctness.                                                            *)
(***************************************************************************)
ObservableType == [view: ViewType, logs: Seq(LogEntry), refund: Uint]

SnapshotType == [journal_size: Nat, log_size: Nat, refund: Uint, saved: ObservableType]

\* The data members of IntraBlockState and of its snapshots keep their types.
TypeOK == /\ ibs \in IntraBlockStateType
          /\ snapshots \in Seq(SnapshotType)
          /\ cursor \in Nat
          /\ reverting \in BOOLEAN
          /\ phase \in {"idle", "executing"}
          /\ txns \in Nat
          /\ txn_start \in ObservableType

\* Inside a transaction the journal can be undone entry by entry: each entry
\* restores what was observable before it, and revert_to_snapshot, stopped
\* anywhere in its loop, has restored what was observable at that point.
JournalInvertible ==
    phase = "executing" =>
      /\ cursor <= Len(ibs.journal)
      /\ ~reverting => cursor = Len(ibs.journal)
      /\ Linked(ibs, cursor)
      /\ cursor < Len(ibs.journal) =>
           LET d == ibs.journal[cursor + 1].delta
           IN /\ View(ibs) = ibs.journal[cursor + 1].before
              /\ IsStorageDelta(d) => ibs.storage[d.address] = WipedStorage(d)

\* Every live snapshot, not only the innermost, still identifies the state
\* that was observable when it was taken, logs and refund included, and none
\* separates the two entries of a create_contract.
SnapshotsRecoverable ==
    /\ reverting => snapshots # <<>>
    /\ phase = "idle" => snapshots = <<>>
    /\ \A n \in 1 .. Len(snapshots) :
         LET p == snapshots[n]
         IN /\ p.journal_size <= cursor
            /\ Separable(ibs, p.journal_size)
            /\ p.log_size <= Len(ibs.logs)
            /\ p.saved = [view |-> ViewAt(ibs, p.journal_size),
                          logs |-> SubSeq(ibs.logs, 1, p.log_size),
                          refund |-> p.refund]
            /\ \A m \in 1 .. n : /\ snapshots[m].journal_size <= p.journal_size
                                 /\ snapshots[m].log_size <= p.log_size

\* revert_to_snapshot restores exactly what was observable when the snapshot
\* was taken (RIPEMD-160's touch apart).
RevertRestores == [][RevertDone => Observable(ibs)' = Top.saved]_vars

\* RIPEMD-160's touch outlives the failure of the frame that touched it
\* (touch: "See Yellow Paper, Appendix K", the anomaly of the main network).
RipemdTouchSurvives == [][reverting /\ Ripemd \in ibs.touched => Ripemd \in ibs'.touched]_vars

\* EIP-2200: get_original_storage returns the value the slot had when the
\* transaction began, whatever was written, reverted or cached since, as long
\* as the account is not created anew.
OriginalIsTxnStart ==
    phase = "executing" /\ ~reverting =>
      \A a \in Address : SameGeneration(txn_start.view.objects[a], ObjectOf(ibs, a)) =>
        \A k \in Key : /\ txn_start.view.slots[a][k].current = txn_start.view.slots[a][k].original
                       /\ OriginalValue(ibs.db, ObjectOf(ibs, a), ibs.storage[a], a, k)
                            = txn_start.view.slots[a][k].current

\* What write_to_db would record as the change set of the block is the state
\* of the database at the beginning of the block (buffer.hpp: "account/storage
\* values at the beginning of a block"), for accounts and for storage.
ChangeSetIsBlockStart ==
    ~reverting =>
      \A a \in Address :
        LET obj == ibs.objects[a] sto == ibs.storage[a] IN
        /\ obj # None => obj.initial = ibs.db.accounts[a]
        /\ Alive(obj) /\ sto # None =>
             \A k \in Key : sto.committed[k] # None =>
               sto.committed[k].initial = IF SameIncarnation(obj)
                                          THEN ibs.db.storage[a][obj.current.incarnation][k]
                                          ELSE Zero

\* An account that does not exist between two transactions (destructed, or
\* never created) leaves no cached slot behind that a later account at the
\* same address could read.
NoOrphanedStorage ==
    phase = "idle" =>
      \A a \in Address : ibs.storage[a] # None /\ ~Exists(ibs, a) =>
        \A k \in Key : /\ ibs.storage[a].current[k] = None
                       /\ ibs.storage[a].committed[k] = None
                            \/ ibs.storage[a].committed[k].original = Zero

\* write_to_db finds in code_ the bytes of every code hash it stores.
CodeKnown ==
    ~reverting =>
      \A a \in Address :
        LET obj == ibs.objects[a] IN
        Alive(obj) /\ ~SameIncarnation(obj) => obj.current.code_hash \in ibs.code \cup {EmptyHash}

\* types/account.hpp: "contracts that were previously destructed and then
\* re-created will have an incarnation greater than 1"; an incarnation whose
\* storage is in the database is never given to another contract.
RecreatedIncarnationIsNew ==
    [][\A a \in Address :
         DoCreateContract(a) /\ ibs.db.accounts[a] # None =>
           ibs'.objects[a].current.incarnation > ibs.db.accounts[a].incarnation]_vars

\* The journal implements the stack of state copies.
Snapshots == INSTANCE SnapshotStack WITH
    state <- Observable(ibs),
    saved <- [n \in 1 .. Len(snapshots) |-> snapshots[n].saved],
    failed <- reverting

=============================================================================
