----------------------- MODULE IntraBlockStateProofs -----------------------
(***************************************************************************)
(* The theorems about the journalled state: type correctness, invertibility*)
(* of the journal, recoverability of every live snapshot, exactness of     *)
(* revert_to_snapshot, the refinement of SnapshotStack, and what the state *)
(* keeps for the whole block and for the running transaction.              *)
(***************************************************************************)
EXTENDS IntraBlockState, IntraBlockStateHistory

\* Zenon proves the leaves that name no other prover.
USE ZenonT(30)

(***************************************************************************)
(* The methods that only IntraBlockState's own callers use.                *)
(***************************************************************************)

\* add_to_balance, which wraps at the width of balances, can be undone.
LEMMA AddToBalanceExtends ==
    ASSUME NEW s, NEW a \in Address, NEW n \in Nat, Good(s)
    PROVE  Extends(s, AddToBalance(s, a, n))
<1>1. Balance(s, a) \in Uint
  BY BalanceType DEF Good
<1>2. (Balance(s, a) + n) % UintMod \in Uint
  BY SMTT(30), <1>1, WidthAssumption DEF Uint
<1>3. QED BY <1>2, SetBalanceExtends DEF AddToBalance

\* So is subtract_from_balance.
LEMMA SubtractFromBalanceExtends ==
    ASSUME NEW s, NEW a \in Address, NEW n \in Nat, Good(s)
    PROVE  Extends(s, SubtractFromBalance(s, a, n))
<1>1. Balance(s, a) \in Uint
  BY BalanceType DEF Good
<1>2. (Balance(s, a) - n) % UintMod \in Uint
  BY SMTT(30), <1>1, WidthAssumption DEF Uint
<1>3. QED BY <1>2, SetBalanceExtends DEF SubtractFromBalance

\* get_code caches only.
LEMMA GetCodeExtends ==
    ASSUME NEW s, NEW a \in Address, Good(s)
    PROVE  Extends(s, GetCode(s, a))
<1> DEFINE t == GetObject(s, a)
           codes == t.code \cup ({CodeHash(s, a)} \ {EmptyHash})
<1>1. Extends(s, t) /\ Good(t)
  BY GetObjectQuiet DEF Extends
<1> HIDE DEF t
<1>2. CodeHash(s, a) \in Code
  <2>1. ObjectOf(s, a) \in Object \cup {None}
    BY ObjectOfType DEF Good
  <2>2. QED BY <2>1, ValuesAssumption DEF CodeHash, Exists, Alive, Object, Account
<1>3. codes \in SUBSET Code
  BY <1>1, <1>2 DEF Good, IntraBlockStateType
<1> HIDE DEF codes
<1>4. Extends(t, [t EXCEPT !.code = codes])
  BY <1>1, <1>3, CodeQuiet
<1>5. Extends(s, [t EXCEPT !.code = codes])
  BY <1>1, <1>4, ExtendsTransitive
<1>6. QED BY <1>5 DEF GetCode, codes, t

(***************************************************************************)
(* The inductive invariant and its preservation, one lemma per action.     *)
(***************************************************************************)
Inv == TypeOK /\ JournalInvertible /\ SnapshotsRecoverable

\* Snapshot values carry sizes and a refund.
LEMMA SnapshotsTyped ==
    ASSUME Inv
    PROVE  /\ snapshots \in Seq(SnapshotType) /\ Len(snapshots) \in Nat
           /\ \A n \in 1 .. Len(snapshots) :
                /\ snapshots[n] \in SnapshotType
                /\ snapshots[n].journal_size \in Nat /\ snapshots[n].log_size \in Nat
                /\ snapshots[n].refund \in Uint
<1>1. snapshots \in Seq(SnapshotType) /\ Len(snapshots) \in Nat
  BY SMTT(30) DEF Inv, TypeOK
<1>2. \A n \in 1 .. Len(snapshots) : snapshots[n] \in SnapshotType
  BY SMTT(30), <1>1
<1>3. \A p \in SnapshotType : p.journal_size \in Nat /\ p.log_size \in Nat /\ p.refund \in Uint
  BY DEF SnapshotType
<1>4. QED BY <1>1, <1>2, <1>3

\* Outside revert_to_snapshot the whole journal can be undone.
LEMMA ExecutingGood ==
    ASSUME Inv, phase = "executing", ~reverting
    PROVE  Good(ibs) /\ cursor = Len(ibs.journal)
BY DEF Inv, TypeOK, JournalInvertible, Good

\* A step of the EVM that continues the state preserves the invariant.
LEMMA StepInv ==
    ASSUME Inv, NEW t, Continues(ibs, t), Step(t)
    PROVE  Inv'
<1>1. /\ phase = "executing" /\ ~reverting /\ ibs' = t /\ cursor' = Len(t.journal)
      /\ UNCHANGED <<snapshots, reverting, phase, txns, txn_start>>
  BY DEF Step
<1>2. Good(ibs) /\ cursor = Len(ibs.journal)
  BY <1>1, ExecutingGood
<1>3. /\ t \in IntraBlockStateType /\ Len(t.journal) \in Nat /\ Len(ibs.journal) \in Nat
      /\ Len(t.logs) \in Nat /\ Len(ibs.logs) \in Nat
  BY SMTT(30), <1>2 DEF Continues, Good, IntraBlockStateType
<1>4. TypeOK'
  BY <1>1, <1>3 DEF Inv, TypeOK
<1>5. JournalInvertible'
  BY SMTT(30), <1>1, <1>3 DEF JournalInvertible, Continues, Good
<1>6. SnapshotsRecoverable'
  <2>1. \A n \in 1 .. Len(snapshots) : /\ snapshots[n].journal_size \in Nat
                                       /\ snapshots[n].log_size \in Nat
    BY SnapshotsTyped
  <2>2. ASSUME NEW n \in 1 .. Len(snapshots)
        PROVE  LET p == snapshots[n]
               IN /\ p.journal_size <= Len(t.journal)
                  /\ Separable(t, p.journal_size)
                  /\ p.log_size <= Len(t.logs)
                  /\ p.saved = [view |-> ViewAt(t, p.journal_size),
                                logs |-> SubSeq(t.logs, 1, p.log_size),
                                refund |-> p.refund]
    <3> DEFINE p == snapshots[n]
    <3>1. /\ p.journal_size <= cursor /\ Separable(ibs, p.journal_size)
          /\ p.log_size <= Len(ibs.logs)
          /\ p.saved = [view |-> ViewAt(ibs, p.journal_size),
                        logs |-> SubSeq(ibs.logs, 1, p.log_size), refund |-> p.refund]
      BY DEF Inv, SnapshotsRecoverable
    <3>2. p.journal_size \in Nat /\ p.log_size \in Nat
      BY <2>1
    <3> HIDE DEF p
    <3>3. p.journal_size \in 0 .. Len(ibs.journal) /\ p.log_size \in 0 .. Len(ibs.logs)
      BY SMTT(30), <1>2, <1>3, <3>1, <3>2
    <3>4. /\ ViewAt(t, p.journal_size) = ViewAt(ibs, p.journal_size)
          /\ SubSeq(t.logs, 1, p.log_size) = SubSeq(ibs.logs, 1, p.log_size)
      BY <3>3 DEF Continues
    <3>5. Separable(t, p.journal_size)
      BY <1>3, <3>1, <3>3, ContinuesSeparable
    <3>6. p.journal_size <= Len(t.journal) /\ p.log_size <= Len(t.logs)
      BY SMTT(60), <1>3, <3>3 DEF Continues
    <3>7. QED BY <3>1, <3>4, <3>5, <3>6 DEF p
  <2>3. QED BY <1>1, <2>2 DEF Inv, SnapshotsRecoverable
<1>7. QED BY <1>4, <1>5, <1>6 DEF Inv

\* What a snapshot stands for is well typed.
LEMMA ObservableTyped ==
    ASSUME NEW s \in IntraBlockStateType
    PROVE  Observable(s) \in ObservableType
BY ViewTypeOK DEF Observable, ObservableType, IntraBlockStateType

\* take_snapshot preserves the invariant.
LEMMA TakeSnapshotInv ==
    ASSUME Inv, DoTakeSnapshot
    PROVE  Inv'
<1> DEFINE m == Len(snapshots)
           q == [journal_size |-> Len(ibs.journal), log_size |-> Len(ibs.logs),
                 refund |-> ibs.refund, saved |-> Observable(ibs)]
<1>1. /\ phase = "executing" /\ ~reverting /\ snapshots' = Append(snapshots, q)
      /\ UNCHANGED <<ibs, cursor, reverting, phase, txns, txn_start>>
  BY DEF DoTakeSnapshot
<1>2. Good(ibs) /\ cursor = Len(ibs.journal)
  BY <1>1, ExecutingGood
<1>3. /\ ibs \in IntraBlockStateType /\ Len(ibs.journal) \in Nat /\ Len(ibs.logs) \in Nat
      /\ ibs.refund \in Uint /\ ibs.logs \in Seq(LogEntry)
  BY SMTT(30), <1>2 DEF Good, IntraBlockStateType
<1>4. q \in SnapshotType
  BY <1>3, ObservableTyped DEF SnapshotType
<1>5. /\ q.journal_size = Len(ibs.journal) /\ q.log_size = Len(ibs.logs)
      /\ q.refund = ibs.refund /\ q.saved = Observable(ibs)
  OBVIOUS
<1>6. /\ snapshots \in Seq(SnapshotType) /\ m \in Nat
      /\ \A n \in 1 .. m : snapshots[n].journal_size \in Nat /\ snapshots[n].log_size \in Nat
  BY SnapshotsTyped
<1> HIDE DEF q
<1>7. /\ snapshots' \in Seq(SnapshotType) /\ Len(snapshots') = m + 1
      /\ \A n \in 1 .. m : snapshots'[n] = snapshots[n]
      /\ snapshots'[m + 1] = q
  BY SMTT(30), <1>1, <1>4, <1>6
<1>8. TypeOK'
  BY <1>1, <1>7 DEF Inv, TypeOK
<1>9. JournalInvertible'
  BY <1>1 DEF Inv, JournalInvertible
<1>10. Separable(ibs, q.journal_size)
  <2>1. CASE Len(ibs.journal) = 0
    BY SMTT(30), <1>5, <2>1 DEF Separable
  <2>2. CASE Len(ibs.journal) > 0
    <3>1. Len(ibs.journal) \in 1 .. Len(ibs.journal) /\ NextDelta(ibs, Len(ibs.journal)) = None
      BY SMTT(30), <1>3, <2>2 DEF NextDelta
    <3>2. QED BY <1>2, <1>5, <3>1 DEF Separable, Good, Linked
  <2>3. QED BY SMTT(30), <1>3, <2>1, <2>2
<1>11. q.saved = [view |-> ViewAt(ibs, q.journal_size), logs |-> SubSeq(ibs.logs, 1, q.log_size),
                  refund |-> q.refund]
  <2>1. ViewAt(ibs, Len(ibs.journal)) = View(ibs)
    BY SMTT(30), <1>3 DEF ViewAt
  <2>2. SubSeq(ibs.logs, 1, Len(ibs.logs)) = ibs.logs
    BY SMTT(30), <1>3
  <2>3. QED BY SMTT(60), <1>5, <2>1, <2>2 DEF Observable
<1>12. \A n \in 1 .. m : snapshots[n].journal_size <= cursor /\ snapshots[n].log_size <= Len(ibs.logs)
  BY DEF Inv, SnapshotsRecoverable
<1>13. ASSUME NEW n \in 1 .. m + 1
       PROVE  LET p == snapshots'[n]
              IN /\ p.journal_size <= cursor
                 /\ Separable(ibs, p.journal_size)
                 /\ p.log_size <= Len(ibs.logs)
                 /\ p.saved = [view |-> ViewAt(ibs, p.journal_size),
                               logs |-> SubSeq(ibs.logs, 1, p.log_size),
                               refund |-> p.refund]
                 /\ \A k \in 1 .. n : /\ snapshots'[k].journal_size <= p.journal_size
                                      /\ snapshots'[k].log_size <= p.log_size
  <2>1. CASE n = m + 1
    <3>1. snapshots'[n] = q
      BY <1>7, <2>1
    <3>2. \A k \in 1 .. n : k = m + 1 \/ k \in 1 .. m
      BY SMTT(30), <1>6, <2>1
    <3>3. \A k \in 1 .. n : /\ snapshots'[k].journal_size <= q.journal_size
                            /\ snapshots'[k].log_size <= q.log_size
      BY SMTT(60), <1>2, <1>3, <1>5, <1>7, <1>12, <3>2
    <3>4. q.journal_size <= cursor /\ q.log_size <= Len(ibs.logs)
      BY SMTT(30), <1>2, <1>3, <1>5
    <3>5. QED BY <1>10, <1>11, <3>1, <3>3, <3>4
  <2>2. CASE n \in 1 .. m
    <3>1. \A k \in 1 .. n : k \in 1 .. m /\ snapshots'[k] = snapshots[k]
      BY SMTT(60), <1>6, <1>7, <2>2
    <3>2. snapshots'[n] = snapshots[n]
      BY <1>7, <2>2
    <3>3. QED BY <2>2, <3>1, <3>2 DEF Inv, SnapshotsRecoverable
  <2>3. QED BY SMTT(30), <1>6, <2>1, <2>2
<1>14. SnapshotsRecoverable'
  BY <1>1, <1>7, <1>13 DEF SnapshotsRecoverable
<1>15. QED BY <1>8, <1>9, <1>14 DEF Inv

\* Dropping the innermost snapshot keeps the outer ones.
LEMMA PoppedSnapshots ==
    ASSUME Inv, snapshots # <<>>, snapshots' = SubSeq(snapshots, 1, Len(snapshots) - 1)
    PROVE  /\ Len(snapshots) \in Nat \ {0}
           /\ snapshots' \in Seq(SnapshotType)
           /\ Len(snapshots') = Len(snapshots) - 1
           /\ \A n \in 1 .. Len(snapshots) - 1 : snapshots'[n] = snapshots[n]
<1>1. snapshots \in Seq(SnapshotType)
  BY SnapshotsTyped
<1>2. Len(snapshots) \in Nat \ {0}
  BY SMTT(30), <1>1
<1>3. Len(snapshots) - 1 \in 0 .. Len(snapshots) /\ 0 \in 0 .. Len(snapshots) - 1
  BY SMTT(30), <1>2
<1>4. QED BY <1>1, <1>2, <1>3, PrefixOfPrefix

\* The return of a frame that succeeds preserves the invariant.
LEMMA DropSnapshotInv ==
    ASSUME Inv, DropSnapshot
    PROVE  Inv'
<1> DEFINE m == Len(snapshots)
<1>1. /\ phase = "executing" /\ ~reverting /\ snapshots # <<>>
      /\ snapshots' = SubSeq(snapshots, 1, m - 1)
      /\ UNCHANGED <<ibs, cursor, reverting, phase, txns, txn_start>>
  BY DEF DropSnapshot
<1>2. /\ m \in Nat \ {0} /\ snapshots' \in Seq(SnapshotType) /\ Len(snapshots') = m - 1
      /\ \A n \in 1 .. m - 1 : snapshots'[n] = snapshots[n]
  BY <1>1, PoppedSnapshots
<1>3. TypeOK'
  BY SMTT(60), <1>1, <1>2 DEF Inv, TypeOK
<1>4. JournalInvertible'
  BY <1>1 DEF Inv, JournalInvertible
<1>5. \A n \in 1 .. m - 1 : n \in 1 .. m /\ \A k \in 1 .. n : k \in 1 .. m - 1
  BY SMTT(30), <1>2
<1>6. SnapshotsRecoverable'
  BY SMTT(30), <1>1, <1>2, <1>5 DEF Inv, SnapshotsRecoverable
<1>7. QED BY <1>3, <1>4, <1>6 DEF Inv

\* Entering revert_to_snapshot preserves the invariant.
LEMMA RevertToSnapshotInv ==
    ASSUME Inv, RevertToSnapshot
    PROVE  Inv'
<1>1. /\ phase = "executing" /\ ~reverting /\ snapshots # <<>> /\ reverting' = TRUE
      /\ UNCHANGED <<ibs, snapshots, cursor, phase, txns, txn_start>>
  BY DEF RevertToSnapshot
<1>2. TypeOK'
  BY <1>1 DEF Inv, TypeOK
<1>3. JournalInvertible'
  BY <1>1 DEF Inv, JournalInvertible
<1>4. SnapshotsRecoverable'
  BY <1>1 DEF Inv, SnapshotsRecoverable
<1>5. QED BY <1>2, <1>3, <1>4 DEF Inv

\* While revert_to_snapshot runs, the view is the one of the entry at cursor.
LEMMA ViewAtCursor ==
    ASSUME Inv, phase = "executing"
    PROVE  View(ibs) = ViewAt(ibs, cursor)
BY DEF Inv, TypeOK, JournalInvertible, ViewAt, IntraBlockStateType

\* revert_to_snapshot runs inside a transaction, with a snapshot to go to.
LEMMA RevertingExecutes ==
    ASSUME Inv, reverting
    PROVE  /\ phase = "executing" /\ snapshots # <<>>
           /\ Len(snapshots) \in 1 .. Len(snapshots)
           /\ Top = snapshots[Len(snapshots)] /\ Top.journal_size \in Nat /\ Top.log_size \in Nat
           /\ Top.refund \in Uint
<1>1. snapshots # <<>> /\ snapshots \in Seq(SnapshotType) /\ Len(snapshots) \in Nat
  BY SnapshotsTyped DEF Inv, SnapshotsRecoverable
<1>2. Len(snapshots) \in 1 .. Len(snapshots)
  BY SMTT(30), <1>1
<1>3. phase = "executing"
  BY <1>1 DEF Inv, TypeOK, SnapshotsRecoverable
<1>4. QED BY <1>1, <1>2, <1>3, SnapshotsTyped DEF Top

\* One turn of the loop of revert_to_snapshot preserves the invariant.
LEMMA RevertEntryInv ==
    ASSUME Inv, RevertEntry
    PROVE  Inv'
<1> DEFINE d == ibs.journal[cursor].delta
           before == ibs.journal[cursor].before
           next == NextDelta(ibs, cursor)
           t == Revert(ibs, d)
           m == Len(snapshots)
<1>1. /\ reverting /\ cursor > Top.journal_size /\ ibs' = t /\ cursor' = cursor - 1
      /\ UNCHANGED <<snapshots, reverting, phase, txns, txn_start>>
  BY DEF RevertEntry
<1>2. /\ phase = "executing" /\ m \in 1 .. m /\ Top = snapshots[m] /\ Top.journal_size \in Nat
  BY <1>1, RevertingExecutes
<1>3. /\ ibs \in IntraBlockStateType /\ ibs.journal \in Seq(Entry) /\ Len(ibs.journal) \in Nat
      /\ cursor \in Nat /\ cursor <= Len(ibs.journal)
  BY SMTT(30), <1>2 DEF Inv, TypeOK, JournalInvertible, IntraBlockStateType, Entry
<1>4. cursor \in 1 .. Len(ibs.journal) /\ cursor - 1 \in Nat /\ cursor - 1 < Len(ibs.journal)
  BY SMTT(30), <1>1, <1>2, <1>3
<1>5. ibs.journal[cursor] \in Entry
  BY SMTT(30), <1>3, <1>4
<1>6. d \in Delta /\ before \in ViewType
  BY <1>5 DEF Entry
<1>7. ViewAt(ibs, cursor - 1) = before
  BY SMTT(30), <1>3, <1>4 DEF ViewAt
<1>8. Link(ibs.db, d, before, View(ibs), next)
  <2>1. Link(ibs.db, d, ViewAt(ibs, cursor - 1), ViewAt(ibs, cursor), next)
    <3>1. cursor \in 1 .. cursor
      BY SMTT(30), <1>4
    <3>2. QED BY <1>2, <3>1 DEF Inv, JournalInvertible, Linked
  <2>2. QED BY <1>2, <1>7, <2>1, ViewAtCursor
<1>9. /\ next \in Delta \cup {None}
      /\ next # None /\ IsStorageDelta(next) => ibs.storage[next.address] = WipedStorage(next)
  <2>1. CASE cursor < Len(ibs.journal)
    <3>1. next = ibs.journal[cursor + 1].delta /\ cursor + 1 \in 1 .. Len(ibs.journal)
      BY SMTT(30), <1>3, <2>1 DEF NextDelta
    <3>2. ibs.journal[cursor + 1] \in Entry
      BY SMTT(30), <1>3, <3>1
    <3>3. next \in Delta
      BY <3>1, <3>2 DEF Entry
    <3>4. IsStorageDelta(next) => ibs.storage[next.address] = WipedStorage(next)
      BY <1>2, <2>1, <3>1 DEF Inv, JournalInvertible
    <3>5. QED BY <3>3, <3>4
  <2>2. CASE ~(cursor < Len(ibs.journal))
    BY <2>2 DEF NextDelta
  <2>3. QED BY <2>1, <2>2
<1> HIDE DEF d, before, next
<1>10. /\ t \in IntraBlockStateType
       /\ t.db = ibs.db /\ t.logs = ibs.logs /\ t.journal = ibs.journal /\ t.refund = ibs.refund
       /\ View(t) = before
       /\ IsStorageDelta(d) => t.storage[d.address] = WipedStorage(d)
  BY <1>3, <1>6, <1>8, <1>9, RevertUndoes
<1> HIDE DEF t
<1>11. TypeOK'
  BY <1>1, <1>4, <1>10 DEF Inv, TypeOK
<1>12. \A n \in 0 .. cursor - 1 : ViewAt(t, n) = ViewAt(ibs, n)
  BY SMTT(30), <1>3, <1>4, <1>10 DEF ViewAt
<1>13. \A n \in Nat : NextDelta(t, n) = NextDelta(ibs, n)
  BY <1>10 DEF NextDelta
<1>14. Linked(t, cursor - 1)
  <2>1. ASSUME NEW j \in 1 .. cursor - 1
        PROVE  Link(t.db, t.journal[j].delta, ViewAt(t, j - 1), ViewAt(t, j), NextDelta(t, j))
    <3>1. j \in 1 .. cursor /\ j \in 0 .. cursor - 1 /\ j - 1 \in 0 .. cursor - 1 /\ j \in Nat
      BY SMTT(30), <1>4
    <3>2. Link(ibs.db, ibs.journal[j].delta, ViewAt(ibs, j - 1), ViewAt(ibs, j), NextDelta(ibs, j))
      BY <1>2, <3>1 DEF Inv, JournalInvertible, Linked
    <3>3. QED BY <1>10, <1>12, <1>13, <3>1, <3>2
  <2>2. QED BY <2>1 DEF Linked
<1>15. JournalInvertible'
  <2>1. (cursor - 1) + 1 = cursor
    BY SMTT(30), <1>4
  <2>2. QED BY SMTT(30), <1>1, <1>3, <1>4, <1>10, <1>14, <2>1 DEF JournalInvertible, d, before
<1>16. ASSUME NEW n \in 1 .. m
       PROVE  LET p == snapshots[n]
              IN /\ p.journal_size <= cursor - 1
                 /\ Separable(t, p.journal_size)
                 /\ p.log_size <= Len(t.logs)
                 /\ p.saved = [view |-> ViewAt(t, p.journal_size),
                               logs |-> SubSeq(t.logs, 1, p.log_size),
                               refund |-> p.refund]
  <2> DEFINE p == snapshots[n]
  <2>1. /\ p.journal_size <= Top.journal_size /\ Separable(ibs, p.journal_size)
        /\ p.log_size <= Len(ibs.logs)
        /\ p.saved = [view |-> ViewAt(ibs, p.journal_size),
                      logs |-> SubSeq(ibs.logs, 1, p.log_size), refund |-> p.refund]
    BY <1>2 DEF Inv, SnapshotsRecoverable
  <2>2. p.journal_size \in Nat
    BY SnapshotsTyped
  <2> HIDE DEF p
  <2>3. p.journal_size \in 0 .. cursor - 1 /\ p.journal_size <= cursor - 1
    BY SMTT(30), <1>1, <1>2, <1>4, <2>1, <2>2
  <2>4. ViewAt(t, p.journal_size) = ViewAt(ibs, p.journal_size)
    BY <1>12, <2>3
  <2>5. Separable(t, p.journal_size)
    <3>1. CASE p.journal_size = 0
      BY SMTT(30), <3>1 DEF Separable
    <3>2. CASE p.journal_size > 0
      <4>1. p.journal_size - 1 \in 0 .. cursor - 1
        BY SMTT(30), <1>4, <2>3, <3>2
      <4>2. ViewAt(t, p.journal_size - 1) = ViewAt(ibs, p.journal_size - 1)
        BY <1>12, <4>1
      <4>3. QED BY <1>10, <2>1, <2>4, <4>2 DEF Separable
    <3>3. QED BY SMTT(30), <2>2, <3>1, <3>2
  <2>6. QED BY SMTT(60), <1>10, <2>1, <2>3, <2>4, <2>5 DEF p
<1>17. SnapshotsRecoverable'
  BY <1>1, <1>16 DEF Inv, SnapshotsRecoverable
<1>18. QED BY <1>11, <1>15, <1>17 DEF Inv

\* The truncation at the end of revert_to_snapshot.
LEMMA TruncateView ==
    ASSUME Inv, RevertDone
    PROVE  /\ ibs' \in IntraBlockStateType /\ View(ibs') = View(ibs) /\ ibs'.db = ibs.db
           /\ ibs'.journal = SubSeq(ibs.journal, 1, cursor)
           /\ ibs'.logs = SubSeq(ibs.logs, 1, Top.log_size)
           /\ ibs'.refund = Top.refund
           /\ cursor \in 0 .. Len(ibs.journal) /\ Top.log_size \in 0 .. Len(ibs.logs)
           /\ ibs.journal \in Seq(Entry) /\ ibs.logs \in Seq(LogEntry)
<1> DEFINE jr == SubSeq(ibs.journal, 1, cursor)
           lg == SubSeq(ibs.logs, 1, Top.log_size)
           rf == Top.refund
<1>1. /\ reverting /\ cursor = Top.journal_size
      /\ ibs' = [ibs EXCEPT !.journal = jr, !.logs = lg, !.refund = rf]
  BY DEF RevertDone
<1>2. /\ phase = "executing" /\ Len(snapshots) \in 1 .. Len(snapshots) /\ Top = snapshots[Len(snapshots)]
      /\ Top.log_size \in Nat /\ rf \in Uint
  BY <1>1, RevertingExecutes
<1>3. /\ ibs \in IntraBlockStateType /\ ibs.journal \in Seq(Entry) /\ ibs.logs \in Seq(LogEntry)
      /\ cursor \in Nat /\ cursor <= Len(ibs.journal)
  BY <1>2 DEF Inv, TypeOK, JournalInvertible, IntraBlockStateType, Entry
<1>4. Top.log_size <= Len(ibs.logs)
  BY <1>2 DEF Inv, SnapshotsRecoverable
<1>5. cursor \in 0 .. Len(ibs.journal) /\ Top.log_size \in 0 .. Len(ibs.logs)
  BY SMTT(30), <1>2, <1>3, <1>4
<1>6. jr \in Seq(Entry) /\ lg \in Seq(LogEntry)
  BY SMTT(30), <1>3, <1>5
<1> HIDE DEF jr, lg, rf
<1>7. /\ ibs' \in IntraBlockStateType /\ SameAccounts(ibs, ibs') /\ SameSubstate(ibs, ibs')
      /\ ibs'.journal = jr /\ ibs'.logs = lg /\ ibs'.refund = rf
  BY <1>1, <1>2, <1>3, <1>6 DEF IntraBlockStateType, Entry, SameAccounts, SameSubstate
<1>8. View(ibs') = View(ibs)
  BY <1>7, ViewOfSubstate DEF View, SameSubstate
<1>9. QED BY <1>3, <1>5, <1>7, <1>8 DEF jr, lg, rf, SameAccounts

\* The end of revert_to_snapshot preserves the invariant.  This is where no
\* snapshot may separate the two entries of a create_contract.
LEMMA RevertDoneInv ==
    ASSUME Inv, RevertDone
    PROVE  Inv'
<1> DEFINE t == ibs'
           m == Len(snapshots)
<1>1. /\ reverting /\ cursor = Top.journal_size
      /\ snapshots' = SubSeq(snapshots, 1, m - 1) /\ reverting' = FALSE
      /\ UNCHANGED <<cursor, phase, txns, txn_start>>
  BY DEF RevertDone
<1>2. /\ phase = "executing" /\ snapshots # <<>> /\ m \in 1 .. m /\ Top = snapshots[m]
  BY <1>1, RevertingExecutes
<1>3. /\ m \in Nat \ {0} /\ snapshots' \in Seq(SnapshotType) /\ Len(snapshots') = m - 1
      /\ \A n \in 1 .. m - 1 : snapshots'[n] = snapshots[n]
  BY <1>1, <1>2, PoppedSnapshots
<1>4. /\ t \in IntraBlockStateType /\ View(t) = View(ibs) /\ t.db = ibs.db
      /\ t.journal = SubSeq(ibs.journal, 1, cursor)
      /\ t.logs = SubSeq(ibs.logs, 1, Top.log_size)
      /\ cursor \in 0 .. Len(ibs.journal) /\ Top.log_size \in 0 .. Len(ibs.logs)
      /\ ibs.journal \in Seq(Entry) /\ ibs.logs \in Seq(LogEntry)
  BY TruncateView
<1> HIDE DEF t
<1>5. /\ Len(t.journal) = cursor /\ \A j \in 1 .. cursor : t.journal[j] = ibs.journal[j]
  <2>1. 0 \in 0 .. cursor
    BY SMTT(30), <1>4
  <2>2. QED BY SMTT(30), <1>4, <2>1, PrefixOfPrefix
<1>6. /\ Len(t.logs) = Top.log_size
      /\ \A n \in 0 .. Top.log_size : SubSeq(t.logs, 1, n) = SubSeq(ibs.logs, 1, n)
  <2>1. 0 \in 0 .. Top.log_size
    BY SMTT(30), <1>4
  <2>2. QED BY SMTT(30), <1>4, <2>1, PrefixOfPrefix
<1>7. \A n \in 0 .. cursor : ViewAt(t, n) = ViewAt(ibs, n)
  <2>1. ASSUME NEW n \in 0 .. cursor
        PROVE  ViewAt(t, n) = ViewAt(ibs, n)
    <3>1. CASE n = cursor
      <4>1. ViewAt(t, n) = View(t)
        BY SMTT(30), <1>4, <1>5, <3>1 DEF ViewAt
      <4>2. QED BY <1>2, <1>4, <3>1, <4>1, ViewAtCursor
    <3>2. CASE n < cursor
      <4>1. n + 1 \in 1 .. cursor /\ n < Len(ibs.journal)
        BY SMTT(30), <1>4, <3>2
      <4>2. QED BY <1>5, <3>2, <4>1 DEF ViewAt
    <3>3. QED BY SMTT(30), <1>4, <3>1, <3>2
  <2>2. QED BY <2>1
<1>8. TypeOK'
  BY <1>1, <1>3, <1>4 DEF Inv, TypeOK, t
<1>9. Linked(t, cursor)
  <2>1. ASSUME NEW j \in 1 .. cursor
        PROVE  Link(t.db, t.journal[j].delta, ViewAt(t, j - 1), ViewAt(t, j), NextDelta(t, j))
    <3>1. j \in 0 .. cursor /\ j - 1 \in 0 .. cursor
      BY SMTT(30), <1>4
    <3>2. CASE j = cursor
      <4>1. Separable(ibs, cursor)
        BY <1>1, <1>2 DEF Inv, SnapshotsRecoverable
      <4>2. cursor > 0
        BY SMTT(30), <1>4, <3>2
      <4>3. Link(ibs.db, ibs.journal[j].delta, ViewAt(ibs, j - 1), ViewAt(ibs, j), None)
        BY <3>2, <4>1, <4>2 DEF Separable
      <4>4. NextDelta(t, j) = None
        BY SMTT(30), <1>4, <1>5, <3>2 DEF NextDelta
      <4>5. QED BY <1>4, <1>5, <1>7, <3>1, <4>3, <4>4
    <3>3. CASE j < cursor
      <4>1. Link(ibs.db, ibs.journal[j].delta, ViewAt(ibs, j - 1), ViewAt(ibs, j), NextDelta(ibs, j))
        BY <1>2 DEF Inv, JournalInvertible, Linked
      <4>2. j + 1 \in 1 .. cursor /\ j < Len(ibs.journal)
        BY SMTT(30), <1>4, <3>3
      <4>3. NextDelta(t, j) = NextDelta(ibs, j)
        BY <1>5, <3>3, <4>2 DEF NextDelta
      <4>4. QED BY <1>4, <1>5, <1>7, <3>1, <4>1, <4>3
    <3>4. QED BY SMTT(30), <1>4, <3>2, <3>3
  <2>2. QED BY <2>1 DEF Linked
<1>10. JournalInvertible'
  BY SMTT(30), <1>1, <1>4, <1>5, <1>9 DEF JournalInvertible, t
<1>11. ASSUME NEW n \in 1 .. m - 1
       PROVE  LET p == snapshots[n]
              IN /\ p.journal_size <= cursor
                 /\ Separable(t, p.journal_size)
                 /\ p.log_size <= Len(t.logs)
                 /\ p.saved = [view |-> ViewAt(t, p.journal_size),
                               logs |-> SubSeq(t.logs, 1, p.log_size),
                               refund |-> p.refund]
                 /\ \A k \in 1 .. n : /\ snapshots[k].journal_size <= p.journal_size
                                      /\ snapshots[k].log_size <= p.log_size
  <2> DEFINE p == snapshots[n]
  <2>0. n \in 1 .. m
    BY SMTT(30), <1>3
  <2>1. /\ p.journal_size <= cursor /\ Separable(ibs, p.journal_size)
        /\ p.saved = [view |-> ViewAt(ibs, p.journal_size),
                      logs |-> SubSeq(ibs.logs, 1, p.log_size), refund |-> p.refund]
        /\ \A k \in 1 .. n : /\ snapshots[k].journal_size <= p.journal_size
                             /\ snapshots[k].log_size <= p.log_size
    BY <2>0 DEF Inv, SnapshotsRecoverable
  <2>2. p.log_size <= Top.log_size
    BY <1>2, <2>0 DEF Inv, SnapshotsRecoverable
  <2>3. p.journal_size \in Nat /\ p.log_size \in Nat
    BY <2>0, SnapshotsTyped
  <2> HIDE DEF p
  <2>4. p.journal_size \in 0 .. cursor /\ p.log_size \in 0 .. Top.log_size
    BY SMTT(30), <1>4, <2>1, <2>2, <2>3
  <2>5. /\ ViewAt(t, p.journal_size) = ViewAt(ibs, p.journal_size)
        /\ SubSeq(t.logs, 1, p.log_size) = SubSeq(ibs.logs, 1, p.log_size)
    BY <1>6, <1>7, <2>4
  <2>6. Separable(t, p.journal_size)
    <3>1. CASE p.journal_size = 0
      BY SMTT(30), <3>1 DEF Separable
    <3>2. CASE p.journal_size > 0
      <4>1. p.journal_size - 1 \in 0 .. cursor /\ p.journal_size \in 1 .. cursor
        BY SMTT(30), <1>4, <2>4, <3>2
      <4>2. ViewAt(t, p.journal_size - 1) = ViewAt(ibs, p.journal_size - 1)
        BY <1>7, <4>1
      <4>3. QED BY SMTT(60), <1>4, <1>5, <2>1, <2>5, <4>1, <4>2 DEF Separable
    <3>3. QED BY SMTT(30), <2>3, <3>1, <3>2
  <2>7. QED BY <1>6, <2>1, <2>2, <2>5, <2>6 DEF p
<1>12. SnapshotsRecoverable'
  <2>1. ~reverting' /\ phase' # "idle" /\ cursor' = cursor /\ ibs' = t
    BY <1>1, <1>2 DEF t
  <2>2. \A n \in 1 .. m - 1 : \A k \in 1 .. n : k \in 1 .. m - 1
    BY SMTT(30), <1>3
  <2>3. QED BY <1>3, <1>11, <2>1, <2>2 DEF SnapshotsRecoverable
<1>13. QED BY <1>8, <1>10, <1>12 DEF Inv

\* The beginning of execute_transaction preserves the invariant.
LEMMA BeginTransactionInv ==
    ASSUME Inv, BeginTransaction
    PROVE  Inv'
<1>1. /\ phase = "idle" /\ ibs' = ClearJournalAndSubstate(ibs) /\ txn_start' = Observable(ibs')
      /\ cursor' = 0 /\ phase' = "executing" /\ txns' = txns + 1 /\ UNCHANGED <<snapshots, reverting>>
  BY DEF BeginTransaction
<1>2. snapshots = <<>> /\ ~reverting
  BY <1>1 DEF Inv, SnapshotsRecoverable
<1>3. ibs' \in IntraBlockStateType /\ ibs'.journal = <<>>
  BY <1>1, ClearType DEF Inv, TypeOK
<1>4. txn_start' \in ObservableType
  BY <1>1, <1>3, ObservableTyped
<1>5. TypeOK'
  BY SMTT(30), <1>1, <1>3, <1>4 DEF Inv, TypeOK
<1>6. JournalInvertible'
  BY SMTT(30), <1>1, <1>2, <1>3 DEF JournalInvertible, Linked
<1>7. SnapshotsRecoverable'
  BY SMTT(30), <1>1, <1>2 DEF SnapshotsRecoverable
<1>8. QED BY <1>5, <1>6, <1>7 DEF Inv

\* The end of execute_transaction preserves the invariant.
LEMMA EndTransactionInv ==
    ASSUME Inv, EndTransaction
    PROVE  Inv'
<1> DEFINE s == DestructSuicides(ibs)
           t == IF SpuriousDragon THEN DestructTouchedDead(s) ELSE s
<1>1. /\ ~reverting /\ snapshots = <<>> /\ ibs' = FinalizeTransaction(t) /\ phase' = "idle"
      /\ UNCHANGED <<snapshots, cursor, reverting, txns, txn_start>>
  BY DEF EndTransaction
<1>2. ibs \in IntraBlockStateType /\ ibs.self_destructs \in SUBSET Address
  BY DEF Inv, TypeOK, IntraBlockStateType
<1>3. s \in IntraBlockStateType
  BY <1>2, DestructType DEF DestructSuicides
<1> HIDE DEF s
<1>4. t \in IntraBlockStateType
  BY <1>3, DestructTouchedDeadType
<1> HIDE DEF t
<1>5. ibs' \in IntraBlockStateType
  BY <1>1, <1>4, FinalizeType
<1>6. TypeOK'
  BY <1>1, <1>5 DEF Inv, TypeOK
<1>7. JournalInvertible' /\ SnapshotsRecoverable'
  BY SMTT(30), <1>1 DEF JournalInvertible, SnapshotsRecoverable
<1>8. QED BY <1>6, <1>7 DEF Inv

\* A change of the logs or the refund counter only.
LEMMA OutsideJournal ==
    ASSUME NEW s, NEW t \in IntraBlockStateType, Good(s),
           SameAccounts(s, t), SameSubstate(s, t), t.journal = s.journal
    PROVE  /\ Good(t) /\ Len(s.journal) <= Len(t.journal)
           /\ \A n \in 1 .. Len(s.journal) : t.journal[n].delta = s.journal[n].delta
           /\ \A n \in 0 .. Len(s.journal) : ViewAt(t, n) = ViewAt(s, n)
<1>1. View(t) = View(s)
  BY ViewOfSubstate DEF View, SameSubstate
<1>2. \A n : ViewAt(t, n) = ViewAt(s, n) /\ NextDelta(t, n) = NextDelta(s, n)
  BY <1>1 DEF ViewAt, NextDelta
<1>3. Linked(t, Len(t.journal))
  BY SMTT(30), <1>2 DEF Linked, Good, SameAccounts
<1>4. Len(s.journal) \in Nat
  BY SMTT(30) DEF Good, IntraBlockStateType
<1>5. QED BY SMTT(30), <1>2, <1>3, <1>4 DEF Good

\* add_log leaves every snapshot usable: the logs it counted are a prefix.
LEMMA AddLogContinues ==
    ASSUME NEW s, NEW l \in LogEntry, Good(s)
    PROVE  Continues(s, [s EXCEPT !.logs = Append(s.logs, l)])
<1> DEFINE lg == Append(s.logs, l)
           t == [s EXCEPT !.logs = lg]
<1>1. s \in IntraBlockStateType /\ s.logs \in Seq(LogEntry)
  BY DEF Good, IntraBlockStateType
<1>2. /\ lg \in Seq(LogEntry) /\ Len(s.logs) <= Len(lg)
      /\ \A n \in 0 .. Len(s.logs) : SubSeq(lg, 1, n) = SubSeq(s.logs, 1, n)
  BY SMTT(30), <1>1
<1> HIDE DEF lg
<1>3. /\ t \in IntraBlockStateType /\ SameAccounts(s, t) /\ SameSubstate(s, t)
      /\ t.journal = s.journal /\ t.logs = lg
  BY <1>1, <1>2 DEF IntraBlockStateType, SameAccounts, SameSubstate
<1> HIDE DEF t
<1>4. Continues(s, t)
  BY <1>2, <1>3, OutsideJournal DEF Continues, SameAccounts
<1>5. QED BY <1>4 DEF t, lg

\* add_refund and subtract_refund leave every snapshot usable.
LEMMA RefundContinues ==
    ASSUME NEW s, NEW refund \in Uint, Good(s)
    PROVE  Continues(s, [s EXCEPT !.refund = refund])
<1> DEFINE t == [s EXCEPT !.refund = refund]
<1>1. s \in IntraBlockStateType /\ Len(s.logs) \in Nat
  BY SMTT(30) DEF Good, IntraBlockStateType
<1>2. /\ t \in IntraBlockStateType /\ SameAccounts(s, t) /\ SameSubstate(s, t)
      /\ t.journal = s.journal /\ t.logs = s.logs
  BY <1>1 DEF IntraBlockStateType, SameAccounts, SameSubstate
<1> HIDE DEF t
<1>3. Continues(s, t)
  BY SMTT(30), <1>1, <1>2, OutsideJournal DEF Continues, SameAccounts
<1>4. QED BY <1>3 DEF t

\* A journalled operation, taken as a step, preserves the invariant.
LEMMA ExtendsInv ==
    ASSUME Inv, NEW t, Good(ibs) => Extends(ibs, t), Step(t)
    PROVE  Inv'
<1>1. Good(ibs)
  BY ExecutingGood DEF Step
<1>2. QED BY <1>1, ExtendsContinues, StepInv

\* An account with an incarnation exists.
LEMMA AliveContract ==
    ASSUME NEW a, IncarnationOf(ibs, a) > 0
    PROVE  Alive(ObjectOf(ibs, a))
BY SMTT(30) DEF IncarnationOf, Exists

\* The operations on balances, contracts and storage preserve the invariant.
LEMMA AccountOpInv ==
    ASSUME Inv, AccountOp
    PROVE  Inv'
<1>1. PICK a \in Address :
        \/ DoGetObject(a) \/ DoSetBalance(a) \/ DoCreateContract(a) \/ DoRecordSuicide(a)
        \/ \E n \in Amount : DoAddToBalance(a, n) \/ DoSubtractFromBalance(a, n)
        \/ \E k \in Key : \/ \E original \in BOOLEAN : DoGetStorage(a, k, original)
                          \/ \E v \in Value : DoSetStorage(a, k, v)
  BY DEF AccountOp
<1>2. CASE DoGetObject(a)
  <2>1. Good(ibs) => Extends(ibs, GetObject(ibs, a))
    BY GetObjectQuiet
  <2>2. QED BY <1>2, <2>1, ExtendsInv DEF DoGetObject
<1>3. CASE DoSetBalance(a)
  <2>1. Good(ibs) => Extends(ibs, SetBalance(ibs, a, 0))
    <3>1. 0 \in Uint
      BY SMTT(30), WidthAssumption, BoundsAssumption DEF Uint
    <3>2. QED BY <3>1, SetBalanceExtends
  <2>2. QED BY <1>3, <2>1, ExtendsInv DEF DoSetBalance
<1>4. CASE DoCreateContract(a)
  <2>1. Good(ibs) => Extends(ibs, CreateContract(ibs, a))
    BY <1>4, CreateContractExtends DEF DoCreateContract
  <2>2. QED BY <1>4, <2>1, ExtendsInv DEF DoCreateContract
<1>5. CASE DoRecordSuicide(a)
  <2>1. Good(ibs) => Extends(ibs, RecordSuicide(ibs, a))
    BY RecordSuicideExtends
  <2>2. QED BY <1>5, <2>1, ExtendsInv DEF DoRecordSuicide
<1>6. ASSUME NEW n \in Amount, DoAddToBalance(a, n)
      PROVE  Inv'
  <2>1. n \in Nat
    BY BoundsAssumption
  <2>2. Good(ibs) => Extends(ibs, AddToBalance(ibs, a, n))
    BY <2>1, AddToBalanceExtends
  <2>3. QED BY <1>6, <2>2, ExtendsInv DEF DoAddToBalance
<1>7. ASSUME NEW n \in Amount, DoSubtractFromBalance(a, n)
      PROVE  Inv'
  <2>1. n \in Nat
    BY BoundsAssumption
  <2>2. Good(ibs) => Extends(ibs, SubtractFromBalance(ibs, a, n))
    BY <2>1, SubtractFromBalanceExtends
  <2>3. QED BY <1>7, <2>2, ExtendsInv DEF DoSubtractFromBalance
<1>8. ASSUME NEW k \in Key, NEW original \in BOOLEAN, DoGetStorage(a, k, original)
      PROVE  Inv'
  <2>1. Good(ibs) => Extends(ibs, GetStorage(ibs, a, k, original))
    BY GetStorageExtends
  <2>2. QED BY <1>8, <2>1, ExtendsInv DEF DoGetStorage
<1>9. ASSUME NEW k \in Key, NEW v \in Value, DoSetStorage(a, k, v)
      PROVE  Inv'
  <2>1. Good(ibs) => Extends(ibs, SetStorage(ibs, a, k, v))
    BY <1>9, AliveContract, SetStorageExtends DEF DoSetStorage
  <2>2. QED BY <1>9, <2>1, ExtendsInv DEF DoSetStorage
<1>10. QED BY SMTT(60), <1>1, <1>2, <1>3, <1>4, <1>5, <1>6, <1>7, <1>8, <1>9

\* The operations on code and nonces preserve the invariant.
LEMMA CodeOpInv ==
    ASSUME Inv, CodeOp
    PROVE  Inv'
<1>1. PICK a \in Address : DoGetCode(a) \/ DoSetNonce(a) \/ \E hash \in Code : DoSetCode(a, hash)
  BY DEF CodeOp
<1>2. CASE DoGetCode(a)
  <2>1. Good(ibs) => Extends(ibs, GetCode(ibs, a))
    BY GetCodeExtends
  <2>2. QED BY <1>2, <2>1, ExtendsInv DEF DoGetCode
<1>3. CASE DoSetNonce(a)
  <2>1. Nonce(ibs, a) + 1 \in Nat
    <3>1. ObjectOf(ibs, a) \in Object \cup {None}
      BY ObjectOfType DEF Inv, TypeOK
    <3>2. Nonce(ibs, a) \in Nat
      BY <3>1 DEF Nonce, Exists, Alive, Object, Account
    <3>3. QED BY SMTT(30), <3>2
  <2>2. Good(ibs) => Extends(ibs, SetNonce(ibs, a, Nonce(ibs, a) + 1))
    BY <2>1, SetNonceExtends
  <2>3. QED BY <1>3, <2>2, ExtendsInv DEF DoSetNonce
<1>4. ASSUME NEW hash \in Code, DoSetCode(a, hash)
      PROVE  Inv'
  <2>1. Good(ibs) => Extends(ibs, SetCode(ibs, a, hash))
    BY SetCodeExtends
  <2>2. QED BY <1>4, <2>1, ExtendsInv DEF DoSetCode
<1>5. QED BY <1>1, <1>2, <1>3, <1>4

\* The operations on the substate preserve the invariant.
LEMMA SubstateOpInv ==
    ASSUME Inv, SubstateOp
    PROVE  Inv'
<1>1. ASSUME NEW a \in Address, DoTouch(a)
      PROVE  Inv'
  <2>1. Good(ibs) => Extends(ibs, Touch(ibs, a))
    BY TouchExtends
  <2>2. QED BY <1>1, <2>1, ExtendsInv DEF DoTouch
<1>2. ASSUME NEW a \in Address, DoAccessAccount(a)
      PROVE  Inv'
  <2>1. Good(ibs) => Extends(ibs, AccessAccount(ibs, a))
    BY AccessAccountExtends
  <2>2. QED BY <1>2, <2>1, ExtendsInv DEF DoAccessAccount
<1>3. ASSUME NEW a \in Address, NEW k \in Key, DoAccessStorage(a, k)
      PROVE  Inv'
  <2>1. Good(ibs) => Extends(ibs, AccessStorage(ibs, a, k))
    BY AccessStorageExtends
  <2>2. QED BY <1>3, <2>1, ExtendsInv DEF DoAccessStorage
<1>4. ASSUME NEW l \in LogEntry, DoAddLog(l)
      PROVE  Inv'
  <2>1. Good(ibs)
    BY <1>4, ExecutingGood DEF DoAddLog, Step
  <2>2. QED BY <1>4, <2>1, AddLogContinues, StepInv DEF DoAddLog
<1>5. ASSUME NEW n \in Amount, DoAddRefund(n)
      PROVE  Inv'
  <2>1. Good(ibs)
    BY <1>5, ExecutingGood DEF DoAddRefund, Step
  <2>5. ibs.refund \in Uint
    BY DEF Inv, TypeOK, IntraBlockStateType
  <2>2. (ibs.refund + n) % UintMod \in Uint
    BY SMTT(30), <2>5, WidthAssumption, BoundsAssumption DEF Uint
  <2>3. Continues(ibs, [ibs EXCEPT !.refund = (ibs.refund + n) % UintMod])
    BY <2>1, <2>2, RefundContinues
  <2>4. QED BY <1>5, <2>3, StepInv DEF DoAddRefund
<1>6. ASSUME NEW n \in Amount, DoSubtractRefund(n)
      PROVE  Inv'
  <2>1. Good(ibs)
    BY <1>6, ExecutingGood DEF DoSubtractRefund, Step
  <2>5. ibs.refund \in Uint
    BY DEF Inv, TypeOK, IntraBlockStateType
  <2>2. (ibs.refund - n) % UintMod \in Uint
    BY SMTT(30), <2>5, WidthAssumption, BoundsAssumption DEF Uint
  <2>3. Continues(ibs, [ibs EXCEPT !.refund = (ibs.refund - n) % UintMod])
    BY <2>1, <2>2, RefundContinues
  <2>4. QED BY <1>6, <2>3, StepInv DEF DoSubtractRefund
<1>7. QED BY <1>1, <1>2, <1>3, <1>4, <1>5, <1>6 DEF SubstateOp

-----------------------------------------------------------------------------
\* A fresh IntraBlockState satisfies the invariant.
LEMMA InitInv ==
    ASSUME Init
    PROVE  Inv
<1>1. PICK db \in InitialDb : ibs = Fresh(db)
  BY DEF Init
<1>2. /\ snapshots = <<>> /\ cursor = 0 /\ reverting = FALSE /\ phase = "idle" /\ txns = 0
      /\ txn_start = Observable(ibs)
  BY DEF Init
<1>3. ibs \in IntraBlockStateType
  <2>1. db \in StateBuffer
    BY DbAssumption
  <2>2. 0 \in Uint
    BY SMTT(30), WidthAssumption, BoundsAssumption DEF Uint
  <2>3. [a \in Address |-> None] \in [Address -> Object \cup {None}]
        /\ [a \in Address |-> None] \in [Address -> Storage \cup {None}]
    OBVIOUS
  <2>4. <<>> \in Seq([delta: Delta, before: ViewType]) /\ <<>> \in Seq(LogEntry)
    BY SMTT(30)
  <2>5. QED BY <1>1, <2>1, <2>2, <2>3, <2>4 DEF Fresh, IntraBlockStateType
<1>4. txn_start \in ObservableType
  BY <1>2, <1>3, ObservableTyped
<1>5. TypeOK
  <2>1. snapshots \in Seq(SnapshotType)
    BY SMTT(30), <1>2
  <2>2. cursor \in Nat /\ reverting \in BOOLEAN /\ phase \in {"idle", "executing"} /\ txns \in Nat
    BY <1>2
  <2>3. QED BY <1>3, <1>4, <2>1, <2>2 DEF TypeOK
<1>6. JournalInvertible /\ SnapshotsRecoverable
  BY SMTT(30), <1>2 DEF JournalInvertible, SnapshotsRecoverable
<1>7. QED BY <1>5, <1>6 DEF Inv

\* Every step preserves the invariant.
LEMMA NextInv ==
    ASSUME Inv, [Next]_vars
    PROVE  Inv'
<1>1. CASE AccountOp
  BY <1>1, AccountOpInv
<1>2. CASE CodeOp
  BY <1>2, CodeOpInv
<1>3. CASE SubstateOp
  BY <1>3, SubstateOpInv
<1>4. CASE FrameOp
  BY <1>4, TakeSnapshotInv, DropSnapshotInv, RevertToSnapshotInv, RevertEntryInv, RevertDoneInv
     DEF FrameOp
<1>5. CASE TransactionOp
  BY <1>5, BeginTransactionInv, EndTransactionInv DEF TransactionOp
<1>6. CASE UNCHANGED vars
  <2>1. TypeOK'
    BY SMTT(60), <1>6 DEF vars, Inv, TypeOK
  <2>2. JournalInvertible'
    BY <1>6 DEF vars, Inv, JournalInvertible
  <2>3. SnapshotsRecoverable'
    BY <1>6 DEF vars, Inv, SnapshotsRecoverable
  <2>4. QED BY <2>1, <2>2, <2>3 DEF Inv
<1>7. QED BY <1>1, <1>2, <1>3, <1>4, <1>5, <1>6 DEF Next

\* The inductive invariant holds in every reachable state of the journalled
\* state, whatever the sets of addresses, keys and values and all the bounds.
THEOREM Invariance == Spec => []Inv
<1>1. Init => Inv
  BY InitInv
<1>2. Inv /\ [Next]_vars => Inv'
  BY NextInv
<1>3. QED BY <1>1, <1>2, PTL DEF Spec

\* The data members of IntraBlockState and its snapshots keep their types.
THEOREM TypeCorrect == Spec => []TypeOK
<1>1. Inv => TypeOK
  BY DEF Inv
<1>2. QED BY <1>1, Invariance, PTL

\* Every entry of the journal restores what was observable before it, and
\* revert_to_snapshot is exact at every turn of its loop.
THEOREM JournalIsInvertible == Spec => []JournalInvertible
<1>1. Inv => JournalInvertible
  BY DEF Inv
<1>2. QED BY <1>1, Invariance, PTL

\* Every live snapshot, at any depth, still identifies the state it was
\* taken in, and none separates the entries of a create_contract.
THEOREM SnapshotsAreRecoverable == Spec => []SnapshotsRecoverable
<1>1. Inv => SnapshotsRecoverable
  BY DEF Inv
<1>2. QED BY <1>1, Invariance, PTL

\* The end of revert_to_snapshot.
LEMMA RevertDoneRestores ==
    ASSUME Inv, RevertDone
    PROVE  Observable(ibs') = Top.saved
<1>1. reverting /\ cursor = Top.journal_size
  BY DEF RevertDone
<1>2. /\ phase = "executing" /\ Len(snapshots) \in 1 .. Len(snapshots) /\ Top = snapshots[Len(snapshots)]
  BY <1>1, RevertingExecutes
<1>3. Top.saved = [view |-> ViewAt(ibs, cursor), logs |-> SubSeq(ibs.logs, 1, Top.log_size),
                   refund |-> Top.refund]
  BY <1>1, <1>2 DEF Inv, SnapshotsRecoverable
<1>4. /\ View(ibs') = View(ibs) /\ ibs'.logs = SubSeq(ibs.logs, 1, Top.log_size)
      /\ ibs'.refund = Top.refund
  BY TruncateView
<1>5. View(ibs) = ViewAt(ibs, cursor)
  BY <1>2, ViewAtCursor
<1>6. QED BY <1>3, <1>4, <1>5 DEF Observable

\* revert_to_snapshot restores exactly what was observable when the snapshot
\* was taken, logs and refund included.
THEOREM RevertIsExact == Spec => RevertRestores
<1>1. Inv /\ [Next]_vars => [RevertDone => Observable(ibs)' = Top.saved]_vars
  BY RevertDoneRestores
<1>2. QED BY <1>1, Invariance, PTL DEF Spec, RevertRestores

-----------------------------------------------------------------------------
(***************************************************************************)
(* Refinement of SnapshotStack.                                            *)
(***************************************************************************)
Saved == [n \in 1 .. Len(snapshots) |-> snapshots[n].saved]

\* The saved copies when the innermost snapshot is dropped.
LEMMA SavedPopped ==
    ASSUME Inv, snapshots # <<>>, snapshots' = SubSeq(snapshots, 1, Len(snapshots) - 1)
    PROVE  /\ Saved # <<>> /\ Saved' = SubSeq(Saved, 1, Len(Saved) - 1)
           /\ Saved[Len(Saved)] = Top.saved
<1>1. /\ Len(snapshots) \in Nat \ {0} /\ Len(snapshots') = Len(snapshots) - 1
      /\ \A n \in 1 .. Len(snapshots) - 1 : snapshots'[n] = snapshots[n]
  BY PoppedSnapshots
<1>2. Saved' = [n \in 1 .. Len(snapshots) - 1 |-> snapshots[n].saved]
  BY <1>1 DEF Saved
<1>3. Saved \in Seq({snapshots[n].saved : n \in 1 .. Len(snapshots)}) /\ Len(Saved) = Len(snapshots)
  BY SMTT(30), <1>1 DEF Saved
<1>4. SubSeq(Saved, 1, Len(snapshots) - 1) = [n \in 1 .. Len(snapshots) - 1 |-> snapshots[n].saved]
  BY SMTT(30), <1>1, <1>3 DEF Saved
<1>5. Saved # <<>>
  BY <1>1, <1>3
<1>6. Saved[Len(Saved)] = Top.saved
  BY SMTT(30), <1>1, <1>3 DEF Saved, Top
<1>7. QED BY <1>2, <1>3, <1>4, <1>5, <1>6

\* Every step is a step of the stack of state copies, or a stutter.
LEMMA RefinementStep ==
    ASSUME Inv, [Next]_vars
    PROVE  [Snapshots!Next]_<<Observable(ibs), Saved, reverting>>
<1>1. CASE snapshots' = snapshots /\ reverting' = reverting
  <2>1. Saved' = Saved
    BY <1>1 DEF Saved
  <2>2. QED BY <1>1, <2>1 DEF Snapshots!Next, Snapshots!Change, Saved
<1>2. CASE DoTakeSnapshot
  <2> DEFINE q == [journal_size |-> Len(ibs.journal), log_size |-> Len(ibs.logs),
                   refund |-> ibs.refund, saved |-> Observable(ibs)]
  <2>1. ~reverting /\ snapshots' = Append(snapshots, q) /\ ibs' = ibs /\ reverting' = reverting
    BY <1>2 DEF DoTakeSnapshot
  <2>2. q.saved = Observable(ibs)
    OBVIOUS
  <2> HIDE DEF q
  <2>3. snapshots \in Seq(SnapshotType) /\ Len(snapshots) \in Nat
    BY SnapshotsTyped
  <2>4. Saved' = Append(Saved, Observable(ibs))
    BY SMTT(30), <2>1, <2>2, <2>3 DEF Saved
  <2>5. QED BY <2>1, <2>4 DEF Snapshots!Next, Snapshots!OpenFrame, Saved
<1>3. CASE DropSnapshot
  <2>1. /\ ~reverting /\ snapshots # <<>> /\ snapshots' = SubSeq(snapshots, 1, Len(snapshots) - 1)
        /\ ibs' = ibs /\ reverting' = reverting
    BY <1>3 DEF DropSnapshot
  <2>2. Saved # <<>> /\ Saved' = SubSeq(Saved, 1, Len(Saved) - 1)
    BY <2>1, SavedPopped
  <2>3. QED BY <2>1, <2>2 DEF Snapshots!Next, Snapshots!CloseFrame, Saved
<1>4. CASE RevertToSnapshot
  <2>1. ~reverting /\ reverting' = TRUE /\ snapshots # <<>> /\ ibs' = ibs /\ snapshots' = snapshots
    BY <1>4 DEF RevertToSnapshot
  <2>2. Saved' = Saved /\ Saved # <<>>
    BY SMTT(30), <2>1, SnapshotsTyped DEF Saved
  <2>3. QED BY <2>1, <2>2 DEF Snapshots!Next, Snapshots!FailFrame, Saved
<1>5. CASE RevertDone
  <2>1. /\ reverting /\ snapshots' = SubSeq(snapshots, 1, Len(snapshots) - 1) /\ reverting' = FALSE
    BY <1>5 DEF RevertDone
  <2>2. snapshots # <<>>
    BY <2>1, RevertingExecutes
  <2>3. Saved' = SubSeq(Saved, 1, Len(Saved) - 1) /\ Saved[Len(Saved)] = Top.saved
    BY <2>1, <2>2, SavedPopped
  <2>4. Observable(ibs') = Saved[Len(Saved)]
    BY <1>5, <2>3, RevertDoneRestores
  <2>5. QED BY <2>1, <2>3, <2>4 DEF Snapshots!Next, Snapshots!RollBack, Saved
<1>6. QED
  <2>1. ASSUME NEW t, Step(t)
        PROVE  snapshots' = snapshots /\ reverting' = reverting
    BY <2>1 DEF Step
  <2>2. AccountOp => snapshots' = snapshots /\ reverting' = reverting
    BY <2>1 DEF AccountOp, DoGetObject, DoSetBalance, DoCreateContract, DoRecordSuicide,
                DoAddToBalance, DoSubtractFromBalance, DoGetStorage, DoSetStorage
  <2>3. CodeOp => snapshots' = snapshots /\ reverting' = reverting
    BY <2>1 DEF CodeOp, DoGetCode, DoSetNonce, DoSetCode
  <2>4. SubstateOp => snapshots' = snapshots /\ reverting' = reverting
    BY <2>1 DEF SubstateOp, DoTouch, DoAccessAccount, DoAccessStorage, DoAddLog, DoAddRefund,
                DoSubtractRefund
  <2>5. TransactionOp => snapshots' = snapshots /\ reverting' = reverting
    BY DEF TransactionOp, BeginTransaction, EndTransaction
  <2>6. RevertEntry => snapshots' = snapshots /\ reverting' = reverting
    BY DEF RevertEntry
  <2>7. QED BY <1>1, <1>2, <1>3, <1>4, <1>5, <2>2, <2>3, <2>4, <2>5, <2>6 DEF Next, FrameOp, vars

\* The journal implements the stack of state copies: for the EVM, a snapshot
\* is as good as a copy of the whole state.
THEOREM Refinement == Spec => Snapshots!Spec
<1>1. Init => Snapshots!Init
  BY SMTT(30) DEF Init, Snapshots!Init
<1>2. Inv /\ [Next]_vars => [Snapshots!Next]_<<Observable(ibs), Saved, reverting>>
  BY RefinementStep
<1>3. QED BY <1>1, <1>2, Invariance, PTL DEF Spec, Snapshots!Spec, Saved

(***************************************************************************)
(* The inductive invariant of the block and its preservation.              *)
(***************************************************************************)
Sizes == {snapshots[n].journal_size : n \in 1 .. Len(snapshots)}

BlockInv ==
    /\ Inv /\ CleanDb(ibs.db)
    /\ phase = "idle" => Settled(ibs)
    /\ phase = "executing" =>
         /\ History(ibs, cursor, txn_start.view, Sizes)
         /\ \A a \in Address, k \in Key :
              txn_start.view.slots[a][k].current = txn_start.view.slots[a][k].original

\* A fresh IntraBlockState satisfies it.
LEMMA InitBlock ==
    ASSUME Init
    PROVE  BlockInv
<1>1. PICK db \in InitialDb : ibs = Fresh(db)
  BY DEF Init
<1>2. phase = "idle" /\ Inv
  BY InitInv DEF Init
<1>3. ibs.db = db /\ \A a \in Address : ibs.objects[a] = None /\ ibs.storage[a] = None
  BY <1>1 DEF Fresh
<1>4. CleanDb(ibs.db)
  BY <1>3, DbAssumption DEF CleanDb
<1>5. Settled(ibs)
  BY <1>3 DEF Settled, Founded, Fits
<1>6. QED BY <1>2, <1>4, <1>5 DEF BlockInv

\* Outside revert_to_snapshot the state is Fine.
LEMMA ExecutingFine ==
    ASSUME BlockInv, phase = "executing", ~reverting
    PROVE  Fine(ibs, txn_start.view, Sizes) /\ txn_start.view \in ViewType
<1>1. Good(ibs) /\ cursor = Len(ibs.journal)
  BY ExecutingGood DEF BlockInv
<1>2. Fine(ibs, txn_start.view, Sizes)
  BY <1>1 DEF BlockInv, Fine, Kept
<1>3. txn_start \in ObservableType
  BY DEF BlockInv, Inv, TypeOK
<1>4. QED BY <1>2, <1>3 DEF ObservableType

\* A step of the EVM that keeps the history preserves the invariant.
LEMMA StepBlock ==
    ASSUME BlockInv, Inv', NEW t, Step(t),
           txn_start.view \in ViewType /\ Fine(ibs, txn_start.view, Sizes)
             => Fine(t, txn_start.view, Sizes)
    PROVE  BlockInv'
<1>1. /\ phase = "executing" /\ ~reverting /\ ibs' = t /\ cursor' = Len(t.journal)
      /\ UNCHANGED <<snapshots, reverting, phase, txns, txn_start>>
  BY DEF Step
<1>2. Fine(t, txn_start.view, Sizes)
  BY <1>1, ExecutingFine
<1>3. Sizes' = Sizes
  BY <1>1 DEF Sizes
<1>4. History(t, Len(t.journal), txn_start.view, Sizes) /\ CleanDb(t.db)
  BY <1>2 DEF Fine, Kept
<1>5. QED BY <1>1, <1>3, <1>4 DEF BlockInv

\* add_log and the refund counter are outside the history.
LEMMA OutsideFine ==
    ASSUME NEW s, NEW t \in IntraBlockStateType, NEW v, NEW B, Fine(s, v, B),
           SameAccounts(s, t), SameSubstate(s, t), t.journal = s.journal, t.code = s.code
    PROVE  Fine(t, v, B)
<1>1. Good(s) /\ Good(t)
  BY OutsideJournal DEF Fine
<1>2. View(t) = View(s)
  BY <1>1, ViewOfSubstate DEF View, SameSubstate, Good
<1>3. Knows(s, t)
  BY DEF Knows, SameAccounts
<1>4. Stores(s, t)
  <2>1. \A b \in Address : ObjectOf(t, b) = ObjectOf(s, b)
    BY DEF ObjectOf, SameAccounts
  <2>2. QED BY <2>1, FineFits DEF Stores, SameAccounts
<1>5. Kept(t, v, B)
  BY <1>1, <1>2, <1>3, <1>4, QuietKept DEF Fine
<1>6. QED BY <1>1, <1>5 DEF Fine, SameAccounts

\* add_log keeps the history.
LEMMA AddLogFine ==
    ASSUME NEW s, NEW l \in LogEntry, NEW v, NEW B, Fine(s, v, B)
    PROVE  Fine([s EXCEPT !.logs = Append(s.logs, l)], v, B)
<1> DEFINE lg == Append(s.logs, l)
           t == [s EXCEPT !.logs = lg]
<1>1. s \in IntraBlockStateType /\ s.logs \in Seq(LogEntry)
  BY DEF Fine, Good, IntraBlockStateType
<1>2. lg \in Seq(LogEntry)
  BY SMTT(30), <1>1
<1> HIDE DEF lg
<1>3. /\ t \in IntraBlockStateType /\ SameAccounts(s, t) /\ SameSubstate(s, t)
      /\ t.journal = s.journal /\ t.code = s.code
  BY <1>1, <1>2 DEF IntraBlockStateType, SameAccounts, SameSubstate
<1> HIDE DEF t
<1>4. Fine(t, v, B)
  BY <1>3, OutsideFine
<1>5. QED BY <1>4 DEF t, lg

\* add_refund and subtract_refund keep the history.
LEMMA RefundFine ==
    ASSUME NEW s, NEW refund \in Uint, NEW v, NEW B, Fine(s, v, B)
    PROVE  Fine([s EXCEPT !.refund = refund], v, B)
<1> DEFINE t == [s EXCEPT !.refund = refund]
<1>1. s \in IntraBlockStateType
  BY DEF Fine, Good
<1>2. /\ t \in IntraBlockStateType /\ SameAccounts(s, t) /\ SameSubstate(s, t)
      /\ t.journal = s.journal /\ t.code = s.code
  BY <1>1 DEF IntraBlockStateType, SameAccounts, SameSubstate
<1> HIDE DEF t
<1>3. Fine(t, v, B)
  BY <1>2, OutsideFine
<1>4. QED BY <1>3 DEF t

\* The operations on balances, contracts and storage preserve the invariant.
LEMMA AccountOpBlock ==
    ASSUME BlockInv, Inv', AccountOp
    PROVE  BlockInv'
<1> DEFINE v == txn_start.view
<1>0. ibs \in IntraBlockStateType
  BY DEF BlockInv, Inv, TypeOK
<1>1. PICK a \in Address :
        \/ DoGetObject(a) \/ DoSetBalance(a) \/ DoCreateContract(a) \/ DoRecordSuicide(a)
        \/ \E n \in Amount : DoAddToBalance(a, n) \/ DoSubtractFromBalance(a, n)
        \/ \E k \in Key : \/ \E original \in BOOLEAN : DoGetStorage(a, k, original)
                          \/ \E x \in Value : DoSetStorage(a, k, x)
  BY DEF AccountOp
<1> HIDE DEF v
<1>2. CASE DoGetObject(a)
  <2>1. Fine(ibs, v, Sizes) => Fine(GetObject(ibs, a), v, Sizes)
    BY GetObjectFine
  <2>2. QED BY <1>2, <2>1, StepBlock DEF DoGetObject, v
<1>3. CASE DoSetBalance(a)
  <2>1. 0 \in Uint
    BY SMTT(30), WidthAssumption, BoundsAssumption DEF Uint
  <2>2. Fine(ibs, v, Sizes) => Fine(SetBalance(ibs, a, 0), v, Sizes)
    BY <2>1, SetBalanceFine
  <2>3. QED BY <1>3, <2>2, StepBlock DEF DoSetBalance, v
<1>4. CASE DoCreateContract(a)
  <2>1. v \in ViewType /\ Fine(ibs, v, Sizes) => Fine(CreateContract(ibs, a), v, Sizes)
    BY <1>4, CreateContractFine DEF DoCreateContract
  <2>2. QED BY <1>4, <2>1, StepBlock DEF DoCreateContract, v
<1>5. CASE DoRecordSuicide(a)
  <2>1. Fine(ibs, v, Sizes) => Fine(RecordSuicide(ibs, a), v, Sizes)
    BY RecordSuicideFine
  <2>2. QED BY <1>5, <2>1, StepBlock DEF DoRecordSuicide, v
<1>6. ASSUME NEW n \in Amount, DoAddToBalance(a, n)
      PROVE  BlockInv'
  <2>1. (Balance(ibs, a) + n) % UintMod \in Uint
    <3>1. Balance(ibs, a) \in Uint
      BY <1>0, BalanceType
    <3>2. QED BY SMTT(30), <3>1, WidthAssumption, BoundsAssumption DEF Uint
  <2>2. Fine(ibs, v, Sizes) => Fine(AddToBalance(ibs, a, n), v, Sizes)
    BY <2>1, SetBalanceFine DEF AddToBalance
  <2>3. QED BY <1>6, <2>2, StepBlock DEF DoAddToBalance, v
<1>7. ASSUME NEW n \in Amount, DoSubtractFromBalance(a, n)
      PROVE  BlockInv'
  <2>1. (Balance(ibs, a) - n) % UintMod \in Uint
    <3>1. Balance(ibs, a) \in Uint
      BY <1>0, BalanceType
    <3>2. QED BY SMTT(30), <3>1, WidthAssumption, BoundsAssumption DEF Uint
  <2>2. Fine(ibs, v, Sizes) => Fine(SubtractFromBalance(ibs, a, n), v, Sizes)
    BY <2>1, SetBalanceFine DEF SubtractFromBalance
  <2>3. QED BY <1>7, <2>2, StepBlock DEF DoSubtractFromBalance, v
<1>8. ASSUME NEW k \in Key, NEW original \in BOOLEAN, DoGetStorage(a, k, original)
      PROVE  BlockInv'
  <2>1. Fine(ibs, v, Sizes) => Fine(GetStorage(ibs, a, k, original), v, Sizes)
    BY GetStorageFine
  <2>2. QED BY <1>8, <2>1, StepBlock DEF DoGetStorage, v
<1>9. ASSUME NEW k \in Key, NEW x \in Value, DoSetStorage(a, k, x)
      PROVE  BlockInv'
  <2>1. IsContract(ObjectOf(ibs, a))
    BY SMTT(30), <1>9 DEF DoSetStorage, IncarnationOf, Exists, IsContract
  <2>2. Fine(ibs, v, Sizes) => Fine(SetStorage(ibs, a, k, x), v, Sizes)
    BY <2>1, SetStorageFine
  <2>3. QED BY <1>9, <2>2, StepBlock DEF DoSetStorage, v
<1>10. QED BY <1>1, <1>2, <1>3, <1>4, <1>5, <1>6, <1>7, <1>8, <1>9

\* The operations on code and nonces preserve the invariant.
LEMMA CodeOpBlock ==
    ASSUME BlockInv, Inv', CodeOp
    PROVE  BlockInv'
<1> DEFINE v == txn_start.view
<1>1. PICK a \in Address : DoGetCode(a) \/ DoSetNonce(a) \/ \E hash \in Code : DoSetCode(a, hash)
  BY DEF CodeOp
<1> HIDE DEF v
<1>2. CASE DoGetCode(a)
  <2>1. Fine(ibs, v, Sizes) => Fine(GetCode(ibs, a), v, Sizes)
    BY GetCodeFine
  <2>2. QED BY <1>2, <2>1, StepBlock DEF DoGetCode, v
<1>3. CASE DoSetNonce(a)
  <2>1. Nonce(ibs, a) + 1 \in Nat
    <3>1. ObjectOf(ibs, a) \in Object \cup {None}
      BY ObjectOfType DEF BlockInv, Inv, TypeOK
    <3>2. Nonce(ibs, a) \in Nat
      BY <3>1 DEF Nonce, Exists, Alive, Object, Account
    <3>3. QED BY SMTT(30), <3>2
  <2>2. Fine(ibs, v, Sizes) => Fine(SetNonce(ibs, a, Nonce(ibs, a) + 1), v, Sizes)
    BY <2>1, SetNonceFine
  <2>3. QED BY <1>3, <2>2, StepBlock DEF DoSetNonce, v
<1>4. ASSUME NEW hash \in Code, DoSetCode(a, hash)
      PROVE  BlockInv'
  <2>1. Fine(ibs, v, Sizes) => Fine(SetCode(ibs, a, hash), v, Sizes)
    BY SetCodeFine
  <2>2. QED BY <1>4, <2>1, StepBlock DEF DoSetCode, v
<1>5. QED BY <1>1, <1>2, <1>3, <1>4

\* The operations on the substate preserve the invariant.
LEMMA SubstateOpBlock ==
    ASSUME BlockInv, Inv', SubstateOp
    PROVE  BlockInv'
<1> DEFINE v == txn_start.view
<1>0. ibs.refund \in Uint
  BY DEF BlockInv, Inv, TypeOK, IntraBlockStateType
<1> HIDE DEF v
<1>1. ASSUME NEW a \in Address, DoTouch(a)
      PROVE  BlockInv'
  <2>1. Fine(ibs, v, Sizes) => Fine(Touch(ibs, a), v, Sizes)
    BY TouchFine
  <2>2. QED BY <1>1, <2>1, StepBlock DEF DoTouch, v
<1>2. ASSUME NEW a \in Address, DoAccessAccount(a)
      PROVE  BlockInv'
  <2>1. Fine(ibs, v, Sizes) => Fine(AccessAccount(ibs, a), v, Sizes)
    BY AccessAccountFine
  <2>2. QED BY <1>2, <2>1, StepBlock DEF DoAccessAccount, v
<1>3. ASSUME NEW a \in Address, NEW k \in Key, DoAccessStorage(a, k)
      PROVE  BlockInv'
  <2>1. Fine(ibs, v, Sizes) => Fine(AccessStorage(ibs, a, k), v, Sizes)
    BY AccessStorageFine
  <2>2. QED BY <1>3, <2>1, StepBlock DEF DoAccessStorage, v
<1>4. ASSUME NEW l \in LogEntry, DoAddLog(l)
      PROVE  BlockInv'
  <2>1. Fine(ibs, v, Sizes) => Fine([ibs EXCEPT !.logs = Append(ibs.logs, l)], v, Sizes)
    BY AddLogFine
  <2>2. QED BY <1>4, <2>1, StepBlock DEF DoAddLog, v
<1>5. ASSUME NEW n \in Amount, DoAddRefund(n)
      PROVE  BlockInv'
  <2>1. (ibs.refund + n) % UintMod \in Uint
    BY SMTT(30), <1>0, WidthAssumption, BoundsAssumption DEF Uint
  <2>2. Fine(ibs, v, Sizes) => Fine([ibs EXCEPT !.refund = (ibs.refund + n) % UintMod], v, Sizes)
    BY <2>1, RefundFine
  <2>3. QED BY <1>5, <2>2, StepBlock DEF DoAddRefund, v
<1>6. ASSUME NEW n \in Amount, DoSubtractRefund(n)
      PROVE  BlockInv'
  <2>1. (ibs.refund - n) % UintMod \in Uint
    BY SMTT(30), <1>0, WidthAssumption, BoundsAssumption DEF Uint
  <2>2. Fine(ibs, v, Sizes) => Fine([ibs EXCEPT !.refund = (ibs.refund - n) % UintMod], v, Sizes)
    BY <2>1, RefundFine
  <2>3. QED BY <1>6, <2>2, StepBlock DEF DoSubtractRefund, v
<1>7. QED BY <1>1, <1>2, <1>3, <1>4, <1>5, <1>6 DEF SubstateOp

-----------------------------------------------------------------------------
(***************************************************************************)
(* Frames and transactions.                                                *)
(***************************************************************************)

\* The sizes of the snapshots that remain when the innermost one is dropped.
LEMMA PoppedSizes ==
    ASSUME Inv, snapshots # <<>>, snapshots' = SubSeq(snapshots, 1, Len(snapshots) - 1)
    PROVE  Sizes' \subseteq Sizes
<1>1. /\ Len(snapshots) \in Nat \ {0} /\ Len(snapshots') = Len(snapshots) - 1
      /\ \A n \in 1 .. Len(snapshots) - 1 : snapshots'[n] = snapshots[n]
  BY PoppedSnapshots
<1>2. ASSUME NEW m \in Sizes'
      PROVE  m \in Sizes
  <2>1. PICK n \in 1 .. Len(snapshots') : m = snapshots'[n].journal_size
    BY DEF Sizes
  <2>2. n \in 1 .. Len(snapshots) /\ snapshots'[n] = snapshots[n]
    BY SMTT(30), <1>1, <2>1
  <2>3. QED BY <2>1, <2>2 DEF Sizes
<1>3. QED BY <1>2

\* take_snapshot preserves the invariant: no method has half done a
\* create_contract when it is called.
LEMMA TakeSnapshotBlock ==
    ASSUME BlockInv, Inv', DoTakeSnapshot
    PROVE  BlockInv'
<1> DEFINE m == Len(snapshots)
           q == [journal_size |-> Len(ibs.journal), log_size |-> Len(ibs.logs),
                 refund |-> ibs.refund, saved |-> Observable(ibs)]
<1>1. /\ phase = "executing" /\ ~reverting /\ snapshots' = Append(snapshots, q)
      /\ UNCHANGED <<ibs, cursor, reverting, phase, txns, txn_start>>
  BY SMTT(30) DEF DoTakeSnapshot
<1>2. q.journal_size = Len(ibs.journal) /\ Len(ibs.journal) \in Nat /\ ibs \in IntraBlockStateType
  <2>1. ibs \in IntraBlockStateType
    BY DEF BlockInv, Inv, TypeOK
  <2>2. ibs.journal \in Seq(Entry)
    BY <2>1 DEF IntraBlockStateType, Entry
  <2>3. Len(ibs.journal) \in Nat
    BY SMTT(30), <2>2
  <2>4. q.journal_size = Len(ibs.journal)
    OBVIOUS
  <2>5. QED BY <2>1, <2>3, <2>4
<1> HIDE DEF q
<1>3. snapshots \in Seq(SnapshotType) /\ m \in Nat
  BY SnapshotsTyped DEF BlockInv
<1>4. /\ Len(snapshots') = m + 1 /\ \A n \in 1 .. m : snapshots'[n] = snapshots[n]
      /\ snapshots'[m + 1] = q
  BY SMTT(30), <1>1, <1>3
<1>5. \A n \in Sizes' : n \in Sizes \/ n = Len(ibs.journal)
  <2>1. ASSUME NEW n \in 1 .. Len(snapshots')
        PROVE  snapshots'[n].journal_size \in Sizes \/ snapshots'[n].journal_size = Len(ibs.journal)
    <3>1. n \in 1 .. m \/ n = m + 1
      BY SMTT(30), <1>3, <1>4, <2>1
    <3>2. QED BY <1>2, <1>4, <3>1 DEF Sizes
  <2>2. QED BY <2>1 DEF Sizes
<1>6. Whole(ibs, Sizes)
  BY <1>1 DEF BlockInv, History
<1>7. /\ Len(ibs.journal) \in 0 .. Len(ibs.journal) /\ ~(Len(ibs.journal) < Len(ibs.journal))
  BY SMTT(30), <1>2
<1>8. Whole(ibs, Sizes')
  BY <1>5, <1>6, <1>7 DEF Whole
<1>9. History(ibs, cursor, txn_start.view, Sizes')
  BY <1>1, <1>8 DEF BlockInv, History
<1>10. QED BY <1>1, <1>9 DEF BlockInv

\* The return of a frame that succeeds preserves the invariant.
LEMMA DropSnapshotBlock ==
    ASSUME BlockInv, Inv', DropSnapshot
    PROVE  BlockInv'
<1>1. /\ phase = "executing" /\ snapshots # <<>>
      /\ snapshots' = SubSeq(snapshots, 1, Len(snapshots) - 1)
      /\ UNCHANGED <<ibs, cursor, reverting, phase, txns, txn_start>>
  BY SMTT(30) DEF DropSnapshot
<1>2. Sizes' \subseteq Sizes
  BY <1>1, PoppedSizes DEF BlockInv
<1>3. History(ibs, cursor, txn_start.view, Sizes')
  BY <1>1, <1>2 DEF BlockInv, History, Whole
<1>4. QED BY <1>1, <1>3 DEF BlockInv

\* One turn of the loop of revert_to_snapshot preserves the invariant.
LEMMA RevertEntryBlock ==
    ASSUME BlockInv, Inv', RevertEntry
    PROVE  BlockInv'
<1> DEFINE t == Revert(ibs, ibs.journal[cursor].delta)
<1>1. /\ reverting /\ cursor > Top.journal_size /\ ibs' = t /\ cursor' = cursor - 1
      /\ UNCHANGED <<snapshots, reverting, phase, txns, txn_start>>
  BY DEF RevertEntry
<1>2. phase = "executing" /\ Top.journal_size \in Nat
  BY SMTT(30), <1>1, RevertingExecutes DEF BlockInv
<1>3. /\ ibs \in IntraBlockStateType /\ cursor \in Nat /\ cursor <= Len(ibs.journal)
      /\ ibs.journal \in Seq(Entry)
  BY <1>2 DEF BlockInv, Inv, TypeOK, JournalInvertible, IntraBlockStateType, Entry
<1>4. cursor \in 1 .. Len(ibs.journal)
  BY SMTT(30), <1>1, <1>2, <1>3
<1>5. ibs.journal[cursor].delta \in Delta
  <2>1. ibs.journal[cursor] \in Entry
    BY SMTT(30), <1>3, <1>4
  <2>2. QED BY <2>1 DEF Entry
<1>6. /\ Linked(ibs, cursor) /\ View(ibs) = ViewAt(ibs, cursor)
      /\ cursor < Len(ibs.journal) /\ IsStorageDelta(ibs.journal[cursor + 1].delta) =>
           ibs.storage[ibs.journal[cursor + 1].delta.address]
             = WipedStorage(ibs.journal[cursor + 1].delta)
  BY <1>2, ViewAtCursor DEF BlockInv, Inv, JournalInvertible
<1>7. History(ibs, cursor, txn_start.view, Sizes) /\ CleanDb(ibs.db)
  BY <1>2 DEF BlockInv
<1>8. History(t, cursor - 1, txn_start.view, Sizes)
  BY <1>3, <1>4, <1>6, <1>7, RevertKept
<1>9. t.db = ibs.db
  BY <1>3, <1>5, RevertFields
<1> HIDE DEF t
<1>10. Sizes' = Sizes
  BY <1>1 DEF Sizes
<1>11. QED BY <1>1, <1>2, <1>7, <1>8, <1>9, <1>10 DEF BlockInv

\* The end of revert_to_snapshot preserves the invariant.
LEMMA RevertDoneBlock ==
    ASSUME BlockInv, Inv', RevertDone
    PROVE  BlockInv'
<1>1. /\ reverting /\ cursor = Top.journal_size
      /\ snapshots' = SubSeq(snapshots, 1, Len(snapshots) - 1)
      /\ UNCHANGED <<cursor, phase, txns, txn_start>>
      /\ ibs' = [ibs EXCEPT !.journal = SubSeq(ibs.journal, 1, Top.journal_size),
                            !.logs = SubSeq(ibs.logs, 1, Top.log_size),
                            !.refund = Top.refund]
  BY DEF RevertDone
<1>2. /\ phase = "executing" /\ snapshots # <<>> /\ Len(snapshots) \in 1 .. Len(snapshots)
      /\ Top = snapshots[Len(snapshots)] /\ Inv
  BY <1>1, RevertingExecutes DEF BlockInv
<1>3. /\ View(ibs') = View(ibs) /\ ibs'.db = ibs.db /\ ibs \in IntraBlockStateType
      /\ ibs'.journal = SubSeq(ibs.journal, 1, cursor) /\ cursor \in 0 .. Len(ibs.journal)
  BY <1>2, TruncateView DEF Inv, TypeOK
<1>4. ibs'.objects = ibs.objects /\ ibs'.storage = ibs.storage /\ ibs'.code = ibs.code
  BY <1>1, <1>3 DEF IntraBlockStateType
<1>5. cursor \in Sizes
  BY <1>1, <1>2 DEF Sizes
<1>6. \A m \in Sizes' : m \in Sizes /\ m <= cursor
  <2>1. Sizes' \subseteq Sizes
    BY <1>1, <1>2, PoppedSizes
  <2>2. \A n \in 1 .. Len(snapshots) : snapshots[n].journal_size <= cursor
    BY <1>2 DEF Inv, SnapshotsRecoverable
  <2>3. QED BY <2>1, <2>2 DEF Sizes
<1>7. View(ibs) = ViewAt(ibs, cursor)
  BY <1>2, ViewAtCursor
<1>8. History(ibs, cursor, txn_start.view, Sizes) /\ CleanDb(ibs.db)
  BY <1>2 DEF BlockInv
<1>9. ibs'.db = ibs.db /\ ibs'.objects = ibs.objects /\ ibs'.storage = ibs.storage /\ ibs'.code = ibs.code
  BY <1>3, <1>4
<1>10. History(ibs', cursor, txn_start.view, Sizes')
  BY <1>3, <1>5, <1>6, <1>7, <1>8, <1>9, TruncateKept
<1>11. QED BY <1>1, <1>2, <1>3, <1>8, <1>10 DEF BlockInv

\* Outside revert_to_snapshot every object starts from db and every storage
\* fits its object.
LEMMA SteadyFounded ==
    ASSUME BlockInv, ~reverting
    PROVE  Founded(ibs)
<1>1. CASE phase = "idle"
  BY <1>1 DEF BlockInv, Settled
<1>2. CASE phase = "executing"
  <2>1. Fine(ibs, txn_start.view, Sizes)
    BY <1>2, ExecutingFine
  <2>2. \A a \in Address : Fits(ibs.db, ObjectOf(ibs, a), ibs.storage[a], a)
    BY <2>1, FineFits
  <2>3. Recorded(ibs)
    BY <2>1 DEF Fine, Kept, History
  <2>4. QED BY <2>2, <2>3 DEF Recorded, Founded
<1>3. QED BY <1>1, <1>2 DEF BlockInv, Inv, TypeOK

\* The beginning of execute_transaction preserves the invariant.
LEMMA BeginTransactionBlock ==
    ASSUME BlockInv, Inv', BeginTransaction
    PROVE  BlockInv'
<1>1. /\ phase = "idle" /\ ibs' = ClearJournalAndSubstate(ibs) /\ txn_start' = Observable(ibs')
      /\ cursor' = 0 /\ phase' = "executing" /\ UNCHANGED <<snapshots, reverting>>
  BY DEF BeginTransaction
<1>2. snapshots = <<>>
  BY <1>1 DEF BlockInv, Inv, SnapshotsRecoverable
<1>3. Sizes' = {}
  BY SMTT(30), <1>1, <1>2 DEF Sizes
<1>4. ibs \in IntraBlockStateType /\ Settled(ibs)
  BY <1>1 DEF BlockInv, Inv, TypeOK
<1>5. /\ ibs'.db = ibs.db /\ History(ibs', 0, View(ibs'), {})
      /\ \A a \in Address, k \in Key : View(ibs').slots[a][k].current = View(ibs').slots[a][k].original
  BY <1>1, <1>4, ClearKept
<1>6. txn_start'.view = View(ibs')
  BY <1>1 DEF Observable
<1>7. CleanDb(ibs'.db)
  BY <1>5 DEF BlockInv
<1>8. phase' # "idle"
  BY <1>1
<1>9. QED BY <1>1, <1>3, <1>5, <1>6, <1>7, <1>8 DEF BlockInv

\* The end of execute_transaction preserves the invariant.
LEMMA EndTransactionBlock ==
    ASSUME BlockInv, Inv', EndTransaction
    PROVE  BlockInv'
<1> DEFINE s == DestructSuicides(ibs)
           t == IF SpuriousDragon THEN DestructTouchedDead(s) ELSE s
<1>1. ~reverting /\ ibs' = FinalizeTransaction(t) /\ phase' = "idle"
  BY DEF EndTransaction
<1>2. ibs \in IntraBlockStateType /\ ibs.self_destructs \in SUBSET Address /\ Founded(ibs)
  BY <1>1, SteadyFounded DEF BlockInv, Inv, TypeOK, IntraBlockStateType
<1>3. s \in IntraBlockStateType /\ Founded(s) /\ s.db = ibs.db
  BY <1>2, DestructType, DestructFounded DEF DestructSuicides
<1> HIDE DEF s
<1>4. t \in IntraBlockStateType /\ Founded(t) /\ t.db = ibs.db
  BY <1>3, DestructTouchedDeadType, DestructTouchedDeadFounded
<1> HIDE DEF t
<1>5. Settled(ibs') /\ ibs'.db = ibs.db
  BY <1>1, <1>4, FinalizeSettled
<1>6. CleanDb(ibs'.db)
  BY <1>5 DEF BlockInv
<1>7. phase' # "executing"
  BY <1>1
<1>8. QED BY <1>5, <1>6, <1>7 DEF BlockInv

\* Every step preserves the invariant.
LEMMA NextBlock ==
    ASSUME BlockInv, [Next]_vars
    PROVE  BlockInv'
<1>1. Inv'
  BY NextInv DEF BlockInv
<1>2. CASE AccountOp
  BY SMTT(30), <1>1, <1>2, AccountOpBlock
<1>3. CASE CodeOp
  BY <1>1, <1>3, CodeOpBlock
<1>4. CASE SubstateOp
  BY <1>1, <1>4, SubstateOpBlock
<1>5. ASSUME UNCHANGED <<ibs, snapshots, cursor, phase, txn_start>>
      PROVE  BlockInv'
  <2>1. Sizes' = Sizes
    BY <1>5 DEF Sizes
  <2>2. QED BY <1>1, <1>5, <2>1 DEF BlockInv
<1>6. CASE FrameOp
  <2>1. RevertToSnapshot => UNCHANGED <<ibs, snapshots, cursor, phase, txn_start>>
    BY DEF RevertToSnapshot
  <2>2. QED BY <1>1, <1>5, <1>6, <2>1, TakeSnapshotBlock, DropSnapshotBlock,
               RevertEntryBlock, RevertDoneBlock DEF FrameOp
<1>7. CASE TransactionOp
  BY <1>1, <1>7, BeginTransactionBlock, EndTransactionBlock DEF TransactionOp
<1>8. CASE UNCHANGED vars
  BY <1>5, <1>8 DEF vars
<1>9. QED BY <1>2, <1>3, <1>4, <1>6, <1>7, <1>8 DEF Next

-----------------------------------------------------------------------------
\* The invariant the theorems below are read off: the journal of the running
\* transaction, undone to any point, leads to objects and slots that start
\* from the database and from the transaction's start.
THEOREM BlockInvariance == Spec => []BlockInv
<1>1. Init => BlockInv
  BY InitBlock
<1>2. BlockInv /\ [Next]_vars => BlockInv'
  BY NextBlock
<1>3. QED BY <1>1, <1>2, PTL DEF Spec

\* Outside revert_to_snapshot, write_to_db finds in code_ the bytes of every
\* code hash that set_code gave to an object, whichever frames failed since.
THEOREM CodeIsKnown == Spec => []CodeKnown
<1>1. BlockInv => CodeKnown
  BY SteadyFounded DEF Founded, KnownObject, CodeKnown, Alive
<1>2. QED BY <1>1, BlockInvariance, PTL

\* Outside revert_to_snapshot, the initial accounts and the initial values
\* that write_to_db makes the block's change set of are those of the database
\* at the beginning of the block, after any number of transactions.
THEOREM ChangeSetStartsTheBlock == Spec => []ChangeSetIsBlockStart
<1>1. ASSUME BlockInv, ~reverting, NEW a \in Address
      PROVE  LET obj == ibs.objects[a] sto == ibs.storage[a] IN
             /\ obj # None => obj.initial = ibs.db.accounts[a]
             /\ Alive(obj) /\ sto # None =>
                  \A k \in Key : sto.committed[k] # None =>
                    sto.committed[k].initial = IF SameIncarnation(obj)
                                               THEN ibs.db.storage[a][obj.current.incarnation][k]
                                               ELSE Zero
  <2>1. Founded(ibs)
    BY <1>1, SteadyFounded
  <2>2. ibs.objects[a] # None => ObjectOf(ibs, a) = ibs.objects[a]
    BY DEF ObjectOf
  <2>3. QED BY <2>1, <2>2 DEF Founded, KnownObject, Fits, BlockStart, Alive
<1>2. BlockInv => ChangeSetIsBlockStart
  BY <1>1 DEF ChangeSetIsBlockStart
<1>3. QED BY <1>2, BlockInvariance, PTL

\* EIP-2200: between two calls of the EVM get_original_storage returns the
\* value that the slot had when the transaction began, as long as the account
\* has not been created anew.
THEOREM OriginalStartsTheTransaction == Spec => []OriginalIsTxnStart
<1>1. ASSUME BlockInv, phase = "executing", ~reverting, NEW a \in Address, NEW k \in Key,
             SameGeneration(txn_start.view.objects[a], ObjectOf(ibs, a))
      PROVE  /\ txn_start.view.slots[a][k].current = txn_start.view.slots[a][k].original
             /\ OriginalValue(ibs.db, ObjectOf(ibs, a), ibs.storage[a], a, k)
                  = txn_start.view.slots[a][k].current
  <2> DEFINE o == txn_start.view.objects[a]
             p == ObjectOf(ibs, a)
             n == Len(ibs.journal)
  <2>1. Fine(ibs, txn_start.view, Sizes) /\ txn_start.view \in ViewType
    BY <1>1, ExecutingFine
  <2>2. n \in Nat /\ n \in 0 .. n /\ ~(n < n)
    BY SMTT(30) DEF BlockInv, Inv, TypeOK, IntraBlockStateType
  <2>3. Later(txn_start.view, View(ibs))
    BY <2>1, <2>2 DEF Fine, Kept, History, Aged, ViewAt
  <2>4. /\ View(ibs).objects[a] = p
        /\ View(ibs).slots[a][k].original = OriginalValue(ibs.db, p, ibs.storage[a], a, k)
    BY DEF View, Slots
  <2>5. Alive(o) /\ p.current.incarnation = o.current.incarnation
    BY <1>1 DEF SameGeneration
  <2>6. \/ p.current.incarnation > o.current.incarnation
        \/ View(ibs).slots[a][k].original = txn_start.view.slots[a][k].original
    BY <2>3, <2>4, <2>5 DEF Later
  <2>7. o.current.incarnation \in Int
    <3>1. o \in Object \cup {None}
      BY <2>1 DEF ViewType
    <3>2. o.current \in Account
      BY <2>5, <3>1 DEF Alive, Object
    <3>3. o.current.incarnation \in Incarnation
      BY <3>2 DEF Account
    <3>4. QED BY SMTT(30), <3>3, WidthAssumption, BoundsAssumption DEF Incarnation
  <2>8. ~(p.current.incarnation > o.current.incarnation)
    BY SMTT(30), <2>5, <2>7
  <2>9. txn_start.view.slots[a][k].current = txn_start.view.slots[a][k].original
    BY <1>1 DEF BlockInv
  <2>10. QED BY <2>4, <2>6, <2>8, <2>9
<1>2. BlockInv => OriginalIsTxnStart
  BY <1>1 DEF OriginalIsTxnStart
<1>3. QED BY <1>2, BlockInvariance, PTL

\* Between two transactions an account that does not exist has no cached
\* slot with a value: destruct_suicides and destruct_touched_dead leave none
\* that a later account at the same address could read.
THEOREM StorageIsNotOrphaned == Spec => []NoOrphanedStorage
<1>1. BlockInv => NoOrphanedStorage
  BY DEF BlockInv, Settled, Founded, Fits, IsContract, Exists, NoOrphanedStorage
<1>2. QED BY <1>1, BlockInvariance, PTL

\* The failure of a frame never removes RIPEMD-160 from touched_: touch
\* journals no entry for it, so no turn of revert_to_snapshot undoes one.
THEOREM RipemdTouchIsKept == Spec => RipemdTouchSurvives
<1>1. ASSUME BlockInv, [Next]_vars, reverting, Ripemd \in ibs.touched
      PROVE  Ripemd \in ibs'.touched
  <2>1. phase = "executing"
    BY <1>1, RevertingExecutes DEF BlockInv
  <2>2. RevertEntry \/ RevertDone \/ UNCHANGED vars
    BY ZenonT(60), <1>1, <2>1 DEF Next, AccountOp, CodeOp, SubstateOp, FrameOp, TransactionOp,
         DoGetObject, DoSetBalance, DoCreateContract, DoRecordSuicide, DoAddToBalance,
         DoSubtractFromBalance, DoGetStorage, DoSetStorage, DoGetCode, DoSetNonce, DoSetCode,
         DoTouch, DoAccessAccount, DoAccessStorage, DoAddLog, DoAddRefund, DoSubtractRefund,
         Step, DoTakeSnapshot, DropSnapshot, RevertToSnapshot, BeginTransaction, EndTransaction
  <2>3. CASE RevertEntry
    <3> DEFINE d == ibs.journal[cursor].delta
    <3>1. ibs' = Revert(ibs, d) /\ cursor > Top.journal_size
      BY <2>3 DEF RevertEntry
    <3>2. Top.journal_size \in Nat
      BY <1>1, RevertingExecutes DEF BlockInv
    <3>3. /\ ibs \in IntraBlockStateType /\ cursor \in Nat /\ cursor <= Len(ibs.journal)
          /\ ibs.journal \in Seq(Entry)
      BY <1>1, <2>1 DEF BlockInv, Inv, TypeOK, JournalInvertible, IntraBlockStateType, Entry
    <3>4. cursor \in 1 .. Len(ibs.journal)
      BY SMTT(30), <3>1, <3>2, <3>3
    <3>5. ibs.journal[cursor] \in Entry
      BY SMTT(30), <3>3, <3>4
    <3>6. d \in Delta
      BY <3>5 DEF Entry
    <3>7. ~(d.type = "Touch" /\ d.address = Ripemd)
      BY <1>1, <2>1, <3>4 DEF BlockInv, History, Recorded
    <3> HIDE DEF d
    <3>8. ibs'.touched = IF d.type = "Touch" THEN ibs.touched \ {d.address} ELSE ibs.touched
      BY <3>1, <3>3, <3>6, RevertFields
    <3>9. QED BY <1>1, <3>7, <3>8
  <2>4. CASE RevertDone
    <3>1. ibs' = [ibs EXCEPT !.journal = SubSeq(ibs.journal, 1, Top.journal_size),
                             !.logs = SubSeq(ibs.logs, 1, Top.log_size),
                             !.refund = Top.refund]
      BY <2>4 DEF RevertDone
    <3>2. ibs \in IntraBlockStateType
      BY <1>1 DEF BlockInv, Inv, TypeOK
    <3>3. QED BY <1>1, <3>1, <3>2 DEF IntraBlockStateType
  <2>5. QED BY <1>1, <2>2, <2>3, <2>4 DEF vars
<1>2. BlockInv /\ [Next]_vars
        => [reverting /\ Ripemd \in ibs.touched => Ripemd \in ibs'.touched]_vars
  BY <1>1
<1>3. QED BY <1>2, BlockInvariance, PTL DEF Spec, RipemdTouchSurvives

=============================================================================
