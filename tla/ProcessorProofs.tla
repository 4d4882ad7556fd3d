-------------------------- MODULE ProcessorProofs ---------------------------
(***************************************************************************)
(* The theorems about the execution of transactions: gas is never created, *)
(* a failed transaction leaves no trace, and a static call changes no      *)
(* account, for any number of transactions, any nesting of calls and any   *)
(* sequence of host calls.                                                 *)
(***************************************************************************)
EXTENDS Processor, ProcessorLemmas, FiniteSetTheorems

\* Zenon proves the leaves that name no other prover.
USE ZenonT(30)

(***************************************************************************)
(* execute_transaction up to the EVM, and the outermost call or creation.  *)
(***************************************************************************)

\* What the sender pays in advance, which validate_transaction has made sure of.
LEMMA PaidInAdvance ==
    ASSUME NEW c, NEW x \in Transaction, Good(c), SameAccounts(s, c), s \in IntraBlockStateType,
           ValidateTransaction(x)
    PROVE  LET old  == AccountOf(ObjectOf(c, x.from))
               cost == x.gas_limit * x.gas_price
               paid == SubtractFromBalance(c, x.from, cost)
               new  == [old EXCEPT !.balance = @ - cost]
           IN /\ old \in Account /\ old.nonce = x.nonce /\ new \in Account
              /\ new.balance = old.balance - cost /\ x.value <= new.balance
              /\ Rewrites(c, paid, x.from, new) /\ Reaches(c, paid) /\ Good(paid)
<1> DEFINE a == x.from
           old == AccountOf(ObjectOf(c, a))
           cost == x.gas_limit * x.gas_price
           left == (Balance(c, a) - cost) % UintMod
           new == [old EXCEPT !.balance = @ - cost]
<1>1. /\ a \in Address /\ cost \in Nat /\ x.value \in Nat /\ x.nonce \in Nat
      /\ c \in IntraBlockStateType
  BY TransactionFields DEF Good
<1>2. /\ old \in Account /\ Balance(c, a) = old.balance /\ Nonce(c, a) = old.nonce
      /\ Balance(c, a) \in Uint
  BY <1>1, AccountOfType, NonceType
<1>3. Balance(c, a) = Balance(s, a) /\ Nonce(c, a) = Nonce(s, a)
  <2>1. ObjectOf(c, a) = ObjectOf(s, a)
    BY <1>1, SameAccountsView
  <2>2. QED BY <2>1 DEF Balance, Nonce, Exists
<1>4. old.nonce = x.nonce /\ cost + x.value <= old.balance
  BY <1>2, <1>3 DEF ValidateTransaction
<1>5. old.balance \in Uint /\ UintMod \in Nat \ {0}
  BY <1>2, WidthAssumption
<1> HIDE DEF cost, old
<1>6. /\ old.balance - cost \in Uint /\ x.value <= old.balance - cost
      /\ (old.balance - cost) % UintMod = old.balance - cost
  BY <1>1, <1>4, <1>5, Deducted
<1>7. left = old.balance - cost /\ left \in Uint
  BY <1>2, <1>6
<1>8. new = [old EXCEPT !.balance = left] /\ new.balance = left
  BY <1>2, <1>7 DEF Account
<1> HIDE DEF left
<1>9. /\ [old EXCEPT !.balance = left] \in Account
      /\ Rewrites(c, SetBalance(c, a, left), a, [old EXCEPT !.balance = left])
      /\ Reaches(c, SetBalance(c, a, left))
  BY <1>1, <1>7, SetBalanceEffect DEF old
<1>10. SubtractFromBalance(c, a, cost) = SetBalance(c, a, left)
  BY DEF SubtractFromBalance, left
<1>11. Good(SetBalance(c, a, left))
  BY <1>9 DEF Reaches, Extends
<1>12. /\ new.balance = old.balance - cost /\ x.value <= new.balance
  BY <1>6, <1>7, <1>8
<1> HIDE DEF new
<1>13. QED BY <1>2, <1>4, <1>8, <1>9, <1>10, <1>11, <1>12 DEF new, old, cost

\* execute_transaction up to the EVM, for a message call: what it leaves is
\* what a failure of the call leaves.
LEMMA PrepaidCall ==
    ASSUME NEW x \in Transaction, s \in IntraBlockStateType, ValidateTransaction(x), x.to # None
    PROVE  /\ Good(Prepaid(x)) /\ Prepaid(x).logs = <<>>
           /\ View(Prepaid(x)) \in Unmoved(View(s), x)
<1> DEFINE a == x.from
           cost == x.gas_limit * x.gas_price
           c == ClearJournalAndSubstate(s)
           accessed == AccessAccount(c, a)
           paid == SubtractFromBalance(accessed, a, cost)
           q == AccessAccount(paid, x.to)
           called == SetNonce(q, a, x.nonce + 1)
           u == Warmed(called, x.access_list)
           old == AccountOf(ObjectOf(accessed, a))
           acc1 == [old EXCEPT !.balance = @ - cost]
           acc2 == [acc1 EXCEPT !.nonce = x.nonce + 1]
<1>1. /\ a \in Address /\ x.to \in Address /\ x.nonce \in Nat
      /\ x.access_list \in Seq([account: Address, key: Key \cup {None}])
  BY TransactionFields
<1>2. Prepaid(x) = u
  BY DEF Prepaid
<1> HIDE DEF u
<1>3. Good(c) /\ SameAccounts(s, c) /\ c.logs = <<>> /\ c.self_destructs = {}
  BY Cleared
<1> HIDE DEF c
<1>4. Reaches(c, accessed) /\ Quiet(c, accessed)
  BY <1>1, <1>3, QuietReaches, AccessAccountQuiet
<1> HIDE DEF accessed
<1>5. /\ Good(accessed) /\ SameAccounts(s, accessed) /\ accessed.self_destructs = {}
      /\ accessed.logs = <<>>
  BY <1>3, <1>4, ReachesLogs DEF Quiet, SameAccounts
<1>6. /\ old \in Account /\ acc1 \in Account
      /\ Rewrites(accessed, paid, a, acc1) /\ Reaches(accessed, paid) /\ Good(paid)
  BY <1>5, PaidInAdvance
<1> HIDE DEF paid
<1>7. Reaches(paid, q) /\ Quiet(paid, q)
  BY <1>1, <1>6, QuietReaches, AccessAccountQuiet
<1> HIDE DEF q, acc1
<1>8. Good(q) /\ Rewrites(accessed, q, a, acc1)
  BY <1>6, <1>7, RewritesThenQuiet, ReachesLogs
<1>9. /\ acc2 \in Account /\ Rewrites(accessed, called, a, acc2)
      /\ Reaches(q, called) /\ Good(called)
  <2>1. x.nonce + 1 \in Nat
    BY <1>1, Successor
  <2>2. QED BY <1>1, <1>5, <1>6, <1>8, <2>1, ChargeNonce
<1> HIDE DEF called, acc2
<1>10. Reaches(called, u) /\ Good(u) /\ Quiet(called, u)
  BY <1>1, <1>9, WarmedReaches DEF u
<1>11. Rewrites(accessed, u, a, acc2)
  BY <1>9, <1>10, RewritesThenQuiet
<1>12. acc2 = ChargedAccount(old, x)
  BY <1>6 DEF acc1, acc2, ChargedAccount, Account
<1>13. u.logs = <<>>
  <2>1. q.logs = <<>>
    BY <1>5, <1>6, <1>7, ReachesLogs
  <2>2. QED BY <1>9, <1>10, <2>1, ReachesLogs
<1>14. View(u) \in Unmoved(View(s), x)
  BY <1>5, <1>9, <1>10, <1>11, <1>12, ChargedView
<1>15. QED BY <1>2, <1>10, <1>13, <1>14

\* For a contract creation, EVM::create uses the sender's nonce.
LEMMA PrepaidCreate ==
    ASSUME NEW x \in Transaction, s \in IntraBlockStateType, ValidateTransaction(x), x.to = None,
           NEW msg, msg.sender = x.from, NEW to \in Address
    PROVE  /\ Good(Prepaid(x)) /\ Prepaid(x).logs = <<>>
           /\ x.value <= Balance(Prepaid(x), x.from)
           /\ View(CreateBegin(Prepaid(x), msg, to)) \in Unmoved(View(s), x)
<1> DEFINE a == x.from
           cost == x.gas_limit * x.gas_price
           c == ClearJournalAndSubstate(s)
           accessed == AccessAccount(c, a)
           paid == SubtractFromBalance(accessed, a, cost)
           u == Warmed(paid, x.access_list)
           called == SetNonce(u, a, x.nonce + 1)
           v == AccessAccount(called, to)
           old == AccountOf(ObjectOf(accessed, a))
           acc1 == [old EXCEPT !.balance = @ - cost]
           acc2 == [acc1 EXCEPT !.nonce = x.nonce + 1]
<1>1. /\ a \in Address /\ x.nonce \in Nat
      /\ x.access_list \in Seq([account: Address, key: Key \cup {None}])
  BY TransactionFields
<1>2. Prepaid(x) = u
  BY DEF Prepaid
<1> HIDE DEF u
<1>3. Good(c) /\ SameAccounts(s, c) /\ c.logs = <<>> /\ c.self_destructs = {}
  BY Cleared
<1> HIDE DEF c
<1>4. Reaches(c, accessed) /\ Quiet(c, accessed)
  BY <1>1, <1>3, QuietReaches, AccessAccountQuiet
<1> HIDE DEF accessed
<1>5. /\ Good(accessed) /\ SameAccounts(s, accessed) /\ accessed.self_destructs = {}
      /\ accessed.logs = <<>>
  BY <1>3, <1>4, ReachesLogs DEF Quiet, SameAccounts
<1>6. /\ old \in Account /\ old.nonce = x.nonce /\ acc1 \in Account /\ x.value <= acc1.balance
      /\ Rewrites(accessed, paid, a, acc1) /\ Reaches(accessed, paid) /\ Good(paid)
  BY <1>5, PaidInAdvance
<1>7. acc1.nonce = x.nonce
  BY <1>6 DEF Account
<1> HIDE DEF paid, acc1
<1>8. Reaches(paid, u) /\ Good(u) /\ Quiet(paid, u)
  BY <1>1, <1>6, WarmedReaches DEF u
<1>9. Rewrites(accessed, u, a, acc1)
  BY <1>6, <1>8, RewritesThenQuiet
<1>10. AccountOf(ObjectOf(u, a)) = acc1
  <2>1. accessed \in IntraBlockStateType
    BY <1>5 DEF Good
  <2>2. QED BY SMTT(30), <1>1, <1>6, <1>9, <2>1, RewritesView
<1>11. Nonce(u, a) = x.nonce /\ Balance(u, a) = acc1.balance
  <2>1. u \in IntraBlockStateType
    BY <1>8 DEF Good
  <2>2. QED BY <1>1, <1>7, <1>10, <2>1, NonceType
<1>12. /\ acc2 \in Account /\ Rewrites(accessed, called, a, acc2)
       /\ Reaches(u, called) /\ Good(called)
  <2>1. x.nonce + 1 \in Nat
    BY <1>1, Successor
  <2>2. QED BY <1>1, <1>5, <1>6, <1>8, <1>9, <2>1, ChargeNonce
<1>13. CreateBegin(u, msg, to) = v
  BY <1>11 DEF CreateBegin
<1> HIDE DEF called, acc2
<1>14. Reaches(called, v) /\ Quiet(called, v) /\ Good(v)
  BY <1>12, QuietReaches, AccessAccountQuiet, ReachesLogs
<1> HIDE DEF v
<1>15. Rewrites(accessed, v, a, acc2)
  BY <1>12, <1>14, RewritesThenQuiet
<1>16. acc2 = ChargedAccount(old, x)
  BY <1>6 DEF acc1, acc2, ChargedAccount, Account
<1>17. u.logs = <<>>
  BY <1>5, <1>6, <1>8, ReachesLogs
<1>18. View(v) \in Unmoved(View(s), x)
  BY <1>5, <1>12, <1>14, <1>15, <1>16, ChargedView
<1>19. x.value <= Balance(u, a)
  BY <1>6, <1>11
<1>20. QED BY <1>2, <1>8, <1>13, <1>17, <1>18, <1>19

\* The outcome of EVM::execute(x), up to the interpreter.
Executed(x, p) == IF x.to = None THEN Create(Prepaid(x), rev, Message(x))
                  ELSE Call(Prepaid(x), rev, Message(x), p)

\* Once a valid transaction has begun, it executes with the gas that it brought.
LEMMA BeginStep ==
    ASSUME NEW x \in Transaction, NEW p \in [gas: Nat, ok: BOOLEAN], s \in IntraBlockStateType,
           ValidateTransaction(x), x.gas_limit - IntrinsicGas(x, rev) \in Nat,
           x.to = None => CanCreate(Prepaid(x), Message(x))
    PROVE  LET o == Executed(x, p)
           IN Executing(o.s, NextFrames(o, <<>>), NextResult(o, <<>>),
                        x.gas_limit - IntrinsicGas(x, rev), Unmoved(View(s), x))
<1> DEFINE o == Executed(x, p)
           gas == x.gas_limit - IntrinsicGas(x, rev)
           C == Unmoved(View(s), x)
           msg == Message(x)
           u == Prepaid(x)
<1>1. x.from \in Address /\ x.to \in Address \cup {None} /\ x.value \in Nat /\ gas \in Nat
  BY TransactionFields
<1>2. /\ msg.sender = x.from /\ msg.destination = x.to /\ msg.value = x.value /\ msg.gas = gas
      /\ msg.static = FALSE /\ msg.kind = IF x.to = None THEN "create" ELSE "call"
  BY DEF Message
<1> HIDE DEF gas, C, msg
<1>3. CASE x.to # None
  <2>1. Good(u) /\ u.logs = <<>> /\ View(u) \in C
    BY <1>3, PrepaidCall DEF C
  <2>2. CallMessage(u, msg)
    <3>1. /\ msg.kind \in {"call", "callcode", "delegatecall"} /\ msg.kind # "callcode"
          /\ msg.kind # "delegatecall"
      BY <1>2, <1>3
    <3>2. QED BY <1>1, <1>2, <1>3, <3>1 DEF CallMessage
  <2>3. o = Call(u, rev, msg, p)
    BY <1>3 DEF Executed, msg
  <2> HIDE DEF u
  <2>4. /\ Reaches(u, o.s) /\ Good(o.s)
        /\ o.frame = None => Settled(u, o, msg.gas)
        /\ o.frame # None => Entered(u, o, msg)
    <3> HIDE DEF o
    <3> DEFINE w == Call(u, rev, msg, p)
    <3>1. /\ Reaches(u, w.s) /\ Good(w.s)
          /\ w.frame = None => Settled(u, w, msg.gas)
          /\ w.frame # None => Entered(u, w, msg)
      BY <2>1, <2>2, CallOutcome
    <3>2. o = w
      BY <2>3
    <3> HIDE DEF w
    <3>3. QED BY <3>1, <3>2
  <2> HIDE DEF o
  <2>5. o.s.logs = <<>>
    BY <2>1, <2>4, ReachesLogs
  <2>6. CASE o.frame = None
    <3>1. o.status \in StatusCode /\ o.gas \in 0 .. gas /\ (o.status # "success" => View(o.s) \in C)
      BY <1>2, <2>1, <2>4, <2>6 DEF Settled
    <3>2. QED BY <1>1, <2>4, <2>5, <2>6, <3>1, AtOnce DEF o, gas, C
  <2>7. CASE o.frame # None
    <3>1. /\ o.frame \in FrameType /\ o.frame.snapshot = TakeSnapshot(u) /\ o.frame.gas = gas
          /\ ~o.frame.static /\ Alive(ObjectOf(o.s, o.frame.self))
      BY <1>2, <2>4, <2>7 DEF Entered
    <3>2. QED BY <1>1, <2>1, <2>4, <2>7, <3>1, FirstFrame DEF o, gas, C
  <2>8. QED BY <2>6, <2>7
<1>4. CASE x.to = None
  <2> DEFINE a == ContractAddress(u, msg)
             v == CreateBegin(u, msg, a)
  <2>1. a \in Address /\ PrevIncarnation(v, a) < MaxIncarnation
    BY <1>4 DEF CanCreate, msg
  <2> HIDE DEF a
  <2>2. Good(u) /\ u.logs = <<>> /\ x.value <= Balance(u, x.from) /\ View(v) \in C
    BY <1>2, <1>4, <2>1, PrepaidCreate DEF C
  <2>3. o = Create(u, rev, msg)
    BY <1>4 DEF Executed, msg
  <2> HIDE DEF u
  <2>4. /\ Reaches(u, v) /\ Good(v)
        /\ \/ /\ o = Result(u, "insufficient_balance", msg.gas)
              /\ Balance(u, msg.sender) < msg.value
           \/ o = Result(v, "invalid_instruction", 0)
           \/ o.frame # None /\ Deploying(v, o, msg, a)
    <3>1. msg.sender \in Address /\ msg.value \in Nat /\ msg.gas \in Nat /\ a = ContractAddress(u, msg)
      BY <1>1, <1>2 DEF a
    <3>2. QED BY <2>1, <2>2, <2>3, <3>1, CreateOutcome
  <2> HIDE DEF o, v
  <2>5. ~(Balance(u, msg.sender) < msg.value)
    <3>1. Balance(u, x.from) \in Uint
      BY <1>1, <2>2, BalanceType DEF Good
    <3>2. QED BY <1>1, <1>2, <2>2, <3>1, Covers
  <2>6. v.logs = <<>>
    BY <2>2, <2>4, ReachesLogs
  <2>7. CASE o = Result(v, "invalid_instruction", 0)
    <3>1. 0 \in 0 .. gas /\ "invalid_instruction" \in StatusCode
      BY <1>1, ZeroWithin DEF StatusCode
    <3>2. o.s = v /\ o.frame = None /\ o.gas \in 0 .. gas /\ o.status \in StatusCode
      BY <2>7, <3>1 DEF Result
    <3>3. QED BY <1>1, <2>2, <2>4, <2>6, <3>2, AtOnce DEF o, gas, C
  <2>8. CASE o.frame # None /\ Deploying(v, o, msg, a)
    <3>1. /\ o.frame \in FrameType /\ o.frame.snapshot = TakeSnapshot(v) /\ o.frame.gas = gas
          /\ ~o.frame.static /\ Alive(ObjectOf(o.s, o.frame.self)) /\ Reaches(v, o.s) /\ Good(o.s)
      BY <1>2, <2>8 DEF Deploying
    <3>2. QED BY <1>1, <2>2, <2>4, <2>6, <2>8, <3>1, FirstFrame DEF o, gas, C
  <2>9. QED BY <2>4, <2>5, <2>7, <2>8
<1>5. QED BY <1>3, <1>4

-----------------------------------------------------------------------------
\* What EVM::execute(txn) has to spend.
Budget == txn.gas_limit - IntrinsicGas(txn, rev)

\* The inductive invariant.  Between transactions the journal need not be whole
\* (destruct and finalize_transaction go past it), so only a running one has it.
ProcessorInvariant ==
    /\ phase \in {"begin", "idle", "executing", "rejected", "done"}
    /\ cumulative_gas_used \in 0 .. GasLimit
    /\ phase # "done" => s \in IntraBlockStateType
    /\ phase = "begin" => Good(s)
    /\ phase # "executing" => frames = <<>> /\ result = None
    /\ phase = "executing" =>
         /\ txn \in Transaction
         /\ Budget \in Nat
         /\ cumulative_gas_used + txn.gas_limit <= GasLimit
         /\ Executing(s, frames, result, Budget, Unmoved(start, txn))

\* A step of a running transaction.
LEMMA StillExecuting ==
    ASSUME ProcessorInvariant, phase = "executing",
           UNCHANGED <<rev, txn, phase, cumulative_gas_used, start>>,
           Executing(s', frames', result', Budget, Unmoved(start, txn))
    PROVE  ProcessorInvariant'
<1>1. Budget' = Budget
  BY DEF Budget, IntrinsicGas, ListedAccounts, ListedKeys
<1>2. Unmoved(start', txn') = Unmoved(start, txn)
  OBVIOUS
<1>3. s' \in IntraBlockStateType
  BY DEF Executing, Good
<1>4. Executing(s', frames', result', Budget', Unmoved(start', txn'))
  BY <1>1, <1>2
<1>5. /\ phase' = "executing" /\ cumulative_gas_used' \in 0 .. GasLimit
      /\ txn' \in Transaction /\ Budget' \in Nat
      /\ cumulative_gas_used' + txn'.gas_limit <= GasLimit
  BY <1>1 DEF ProcessorInvariant
<1>6. QED BY <1>3, <1>4, <1>5 DEF ProcessorInvariant

\* Deliver.
LEMMA Delivered ==
    ASSUME NEW o, NEW below, Deliver(o, below)
    PROVE  s' = o.s /\ frames' = NextFrames(o, below) /\ result' = NextResult(o, below)
BY DEF Deliver, NextFrames, NextResult

\* What is known while the innermost frame runs.
LEMMA RunningFrame ==
    ASSUME ProcessorInvariant, phase = "executing", frames # <<>>
    PROVE  /\ Executing(s, frames, result, Budget, Unmoved(start, txn)) /\ Budget \in Nat
           /\ Good(s) /\ Inner \in FrameType /\ FrameOK(s, Inner) /\ Inner.gas \in 0 .. Budget
           /\ Inner.self \in Address /\ Inner.sender \in Address /\ Inner.value \in Nat
           /\ Inner.static \in BOOLEAN
           /\ Alive(ObjectOf(s, Inner.self))
<1>1. Executing(s, frames, result, Budget, Unmoved(start, txn)) /\ Budget \in Nat
  BY DEF ProcessorInvariant
<1> HIDE DEF Budget
<1> DEFINE C == Unmoved(start, txn)
<1> HIDE DEF C
<1>2. /\ Good(s) /\ frames[Len(frames)] \in FrameType /\ FrameOK(s, frames[Len(frames)])
      /\ frames[Len(frames)].gas \in 0 .. Budget
  <2>1. Executing(s, frames, result, Budget, C)
    BY <1>1 DEF C
  <2>2. Budget \in Nat
    BY <1>1
  <2>3. QED BY <2>1, <2>2, InnerFrame
<1>3. Good(s) /\ Inner \in FrameType /\ FrameOK(s, Inner) /\ Inner.gas \in 0 .. Budget
  BY <1>2 DEF Inner
<1>4. QED BY <1>1, <1>3, FrameFields DEF FrameOK

\* What the interpreter charges.
LEMMA ChargedFrames ==
    ASSUME ProcessorInvariant, Running
    PROVE  /\ Inner.gas - OpGas \in 0 .. Budget
           /\ Charged = WithGas(frames, Inner.gas - OpGas)
<1>1. phase = "executing" /\ frames # <<>> /\ Inner.gas >= OpGas /\ OpGas \in Nat
  BY ProcessorAssumption DEF Running
<1>2. Inner.gas \in 0 .. Budget /\ Budget \in Nat
  BY <1>1, RunningFrame
<1>3. Inner.gas - OpGas \in 0 .. Budget
  BY <1>1, <1>2, ChargeGas
<1>4. Charged = WithGas(frames, Inner.gas - OpGas)
  BY DEF Charged, WithGas, Inner
<1>5. QED BY <1>3, <1>4

\* What a step does inside a static call: no account changes.
StaticStep == Inner.static => View(s').objects = View(s).objects

\* The storage of the innermost frame's account is written.
LEMMA SStorePreserves ==
    ASSUME ProcessorInvariant, NEW k \in Key, NEW v \in Value, SStore(k, v)
    PROVE  ProcessorInvariant' /\ StaticStep
<1> DEFINE t == IF rev >= BERLIN THEN AccessStorage(s, Inner.self, k) ELSE s
           C == Unmoved(start, txn)
<1>1. /\ Running /\ ~Inner.static /\ s' = HostSetStorage(t, rev, Inner.self, k, v)
      /\ frames' = Charged /\ result' = result
      /\ UNCHANGED <<rev, txn, phase, cumulative_gas_used, start>>
  BY DEF SStore, HostKeeps
<1>2. phase = "executing" /\ frames # <<>>
  BY <1>1 DEF Running
<1>3. /\ Executing(s, frames, result, Budget, C) /\ Budget \in Nat
      /\ Good(s) /\ Inner.self \in Address /\ Alive(ObjectOf(s, Inner.self))
  BY <1>2, RunningFrame
<1>4. Reaches(s, t) /\ Good(t)
  BY <1>3, QuietReaches, ReachesReflexive, ReachesLogs
<1> HIDE DEF t
<1>5. Alive(ObjectOf(t, Inner.self))
  BY <1>3, <1>4 DEF Reaches, LivingKept
<1>6. Reaches(t, s')
  BY <1>1, <1>3, <1>4, <1>5, HostSetStorageReaches
<1>7. Reaches(s, s')
  BY <1>3, <1>4, <1>6, ReachesTransitive
<1>8. Continues(s, s') /\ LivingKept(s, s')
  BY <1>3, <1>7, ExtendsContinues DEF Reaches
<1>9. Inner.gas - OpGas \in 0 .. Budget /\ Charged = WithGas(frames, Inner.gas - OpGas)
  BY <1>1, ChargedFrames
<1> HIDE DEF C, Budget
<1>10. Executing(s', WithGas(frames, Inner.gas - OpGas), result, Budget, C)
  BY <1>1, <1>2, <1>3, <1>8, <1>9, HostStep DEF Inner
<1>11. Executing(s', frames', result', Budget, Unmoved(start, txn))
  BY <1>1, <1>9, <1>10 DEF C
<1>12. QED BY <1>1, <1>2, <1>11, StillExecuting DEF StaticStep, Budget

\* A log is appended.
LEMMA EmitLogPreserves ==
    ASSUME ProcessorInvariant, NEW log \in LogEntry, EmitLog(log)
    PROVE  ProcessorInvariant' /\ StaticStep
<1> DEFINE C == Unmoved(start, txn)
<1>1. /\ Running /\ ~Inner.static /\ s' = [s EXCEPT !.logs = Append(@, log)]
      /\ frames' = Charged /\ result' = result
      /\ UNCHANGED <<rev, txn, phase, cumulative_gas_used, start>>
  BY DEF EmitLog, HostKeeps
<1>2. phase = "executing" /\ frames # <<>>
  BY <1>1 DEF Running
<1>3. Executing(s, frames, result, Budget, C) /\ Budget \in Nat /\ Good(s)
  BY <1>2, RunningFrame
<1>4. Continues(s, s') /\ LivingKept(s, s')
  BY <1>1, <1>3, LogContinues
<1>5. Inner.gas - OpGas \in 0 .. Budget /\ Charged = WithGas(frames, Inner.gas - OpGas)
  BY <1>1, ChargedFrames
<1> HIDE DEF C, Budget
<1>6. Executing(s', WithGas(frames, Inner.gas - OpGas), result, Budget, C)
  BY <1>1, <1>2, <1>3, <1>4, <1>5, HostStep DEF Inner
<1>7. Executing(s', frames', result', Budget, Unmoved(start, txn))
  BY <1>1, <1>5, <1>6 DEF C
<1>8. QED BY <1>1, <1>2, <1>7, StillExecuting DEF StaticStep, Budget

\* A frame calls another account.
LEMMA FrameCallPreserves ==
    ASSUME ProcessorInvariant, NEW kind \in {"call", "callcode", "delegatecall"},
           NEW static \in BOOLEAN, NEW a \in Callee, NEW value \in {0, 1},
           NEW p \in PrecompileRun, FrameCall(kind, static, a, value, p)
    PROVE  ProcessorInvariant' /\ StaticStep
<1> DEFINE v == IF rev >= BERLIN THEN HostAccessAccount(s, rev, a) ELSE s
           msg == [kind |-> kind, static |-> static,
                   sender |-> IF kind = "delegatecall" THEN Inner.sender ELSE Inner.self,
                   destination |-> a, top |-> Inner.self,
                   value |-> IF kind = "delegatecall" THEN Inner.value ELSE value,
                   gas |-> Inner.gas - OpGas]
           o == Call(v, rev, msg, p)
           C == Unmoved(start, txn)
<1>1. /\ Running /\ Deliver(o, WithGas(frames, 0))
      /\ static # Inner.static => kind = "call" /\ static
      /\ UNCHANGED <<rev, txn, phase, cumulative_gas_used, start>>
  BY DEF FrameCall, CallKeeps, WithGas
<1>2. phase = "executing" /\ frames # <<>>
  BY <1>1 DEF Running
<1>3. /\ Executing(s, frames, result, Budget, C) /\ Budget \in Nat
      /\ Good(s) /\ Inner.self \in Address /\ Alive(ObjectOf(s, Inner.self))
      /\ Inner.sender \in Address /\ Inner.value \in Nat
  BY <1>2, RunningFrame
<1>4. Inner.gas - OpGas \in 0 .. Budget
  BY <1>1, ChargedFrames
<1>5. /\ a \in Address /\ p \in [gas: Nat, ok: BOOLEAN]
  BY ProcessorAssumption
<1>6. Reaches(s, v) /\ SameAccounts(s, v) /\ Good(v)
  BY <1>3, <1>5, HostAccessAccountReaches, ReachesReflexive DEF SameAccounts
<1> HIDE DEF v
<1>7. Alive(ObjectOf(v, Inner.self))
  BY <1>3, <1>6 DEF Reaches, LivingKept
<1>8. /\ msg.kind = kind /\ msg.static = static /\ msg.destination = a /\ msg.top = Inner.self
      /\ msg.sender = IF kind = "delegatecall" THEN Inner.sender ELSE Inner.self
      /\ msg.value = IF kind = "delegatecall" THEN Inner.value ELSE value
      /\ msg.gas = Inner.gas - OpGas
  OBVIOUS
<1> HIDE DEF msg
<1>9. CallMessage(v, msg) /\ msg.gas <= Budget
  <2>1. msg.gas \in Nat /\ msg.gas <= Budget /\ value \in Nat
    BY <1>3, <1>4, <1>8, Left, ZeroOrOne
  <2>2. kind = "callcode" => kind # "delegatecall"
    OBVIOUS
  <2>3. QED BY <1>3, <1>5, <1>7, <1>8, <2>1, <2>2 DEF CallMessage
<1>10. Inner.static => msg.static
  BY <1>1, <1>8
<1> HIDE DEF o, C, Budget
<1>11. /\ Executing(o.s, NextFrames(o, WithGas(frames, 0)), NextResult(o, WithGas(frames, 0)), Budget, C)
       /\ Inner.static => View(o.s).objects = View(s).objects
  <2>1. frames[Len(frames)].static => msg.static
    BY <1>10 DEF Inner
  <2>2. /\ Executing(o.s, NextFrames(o, WithGas(frames, 0)), NextResult(o, WithGas(frames, 0)), Budget, C)
        /\ frames[Len(frames)].static => View(o.s).objects = View(s).objects
    BY SMTT(30), <1>2, <1>3, <1>5, <1>6, <1>9, <2>1, CallStep DEF o
  <2>3. QED BY <2>2 DEF Inner
<1>12. /\ s' = o.s /\ frames' = NextFrames(o, WithGas(frames, 0))
       /\ result' = NextResult(o, WithGas(frames, 0))
  BY <1>1, Delivered
<1>13. Executing(s', frames', result', Budget, Unmoved(start, txn)) /\ StaticStep
  BY <1>11, <1>12 DEF C, StaticStep
<1>14. QED BY <1>1, <1>2, <1>13, StillExecuting DEF Budget

\* A frame creates a contract.
LEMMA FrameCreatePreserves ==
    ASSUME ProcessorInvariant, NEW kind \in {"create", "create2"}, NEW value \in {0, 1},
           FrameCreate(kind, value)
    PROVE  ProcessorInvariant' /\ StaticStep
<1> DEFINE msg == [kind |-> kind, sender |-> Inner.self, value |-> value, gas |-> Inner.gas - OpGas]
           o == Create(s, rev, msg)
           C == Unmoved(start, txn)
<1>1. /\ Running /\ ~Inner.static /\ Deliver(o, WithGas(frames, 0))
      /\ CanCreate(s, [kind |-> kind, sender |-> Inner.self])
      /\ UNCHANGED <<rev, txn, phase, cumulative_gas_used, start>>
  BY DEF FrameCreate, CallKeeps, WithGas
<1>2. phase = "executing" /\ frames # <<>>
  BY <1>1 DEF Running
<1>3. /\ Executing(s, frames, result, Budget, C) /\ Budget \in Nat
      /\ Inner.self \in Address
  BY <1>2, RunningFrame
<1>4. Inner.gas - OpGas \in 0 .. Budget
  BY <1>1, ChargedFrames
<1>5. msg.kind = kind /\ msg.sender = Inner.self /\ msg.value = value /\ msg.gas = Inner.gas - OpGas
  OBVIOUS
<1> HIDE DEF msg
<1>6. CanCreate(s, msg)
  BY <1>1, <1>5 DEF CanCreate, ContractAddress, CreateBegin
<1>7. msg.sender \in Address /\ msg.value \in Nat /\ msg.gas \in 0 .. Budget
  BY <1>3, <1>4, <1>5, ZeroOrOne
<1> HIDE DEF o, C, Budget
<1>8. Executing(o.s, NextFrames(o, WithGas(frames, 0)), NextResult(o, WithGas(frames, 0)), Budget, C)
  BY <1>1, <1>2, <1>3, <1>6, <1>7, CreateStep DEF Inner, o
<1>9. /\ s' = o.s /\ frames' = NextFrames(o, WithGas(frames, 0))
      /\ result' = NextResult(o, WithGas(frames, 0))
  BY <1>1, Delivered
<1>10. Executing(s', frames', result', Budget, Unmoved(start, txn)) /\ StaticStep
  BY <1>1, <1>8, <1>9 DEF C, StaticStep
<1>11. QED BY <1>1, <1>2, <1>10, StillExecuting DEF Budget

\* The interpreter returns from a frame.
LEMMA ReturnPreserves ==
    ASSUME ProcessorInvariant, NEW status \in Status, NEW code \in Code, Return(status, code)
    PROVE  ProcessorInvariant' /\ StaticStep
<1> DEFINE o == Returned(s, rev, Inner, status, Inner.gas, code)
           C == Unmoved(start, txn)
<1>1. /\ phase = "executing" /\ frames # <<>> /\ Deliver(o, Outer(frames))
      /\ UNCHANGED <<rev, txn, phase, cumulative_gas_used, start>>
  BY DEF Return, CallKeeps, Below, Outer
<1>2. /\ Executing(s, frames, result, Budget, C) /\ Budget \in Nat /\ Inner.gas \in 0 .. Budget
      /\ Good(s)
  BY <1>1, RunningFrame
<1>3. Reaches(s, s)
  BY <1>2, ReachesReflexive
<1> HIDE DEF o, C, Budget
<1>4. /\ Executing(o.s, NextFrames(o, Outer(frames)), NextResult(o, Outer(frames)), Budget, C)
      /\ Inner.static => View(o.s).objects = View(s).objects
  <2> DEFINE left == Inner.gas
             v == s
             w == Returned(v, rev, frames[Len(frames)], status, left, code)
  <2>1. o = w
    BY DEF Inner, o
  <2>2. /\ left \in 0 .. Budget /\ (v = s \/ ~frames[Len(frames)].static) /\ Reaches(s, v)
        /\ status \in Status /\ code \in Code /\ frames # <<>> /\ Budget \in Nat
    BY <1>1, <1>2, <1>3
  <2> HIDE DEF left, v
  <2>3. /\ Executing(w.s, NextFrames(w, Outer(frames)), NextResult(w, Outer(frames)), Budget, C)
        /\ frames[Len(frames)].static => View(w.s).objects = View(s).objects
    BY <1>2, <2>2, ReturnStep
  <2> HIDE DEF w
  <2>4. QED BY <2>1, <2>3 DEF Inner
<1>5. /\ s' = o.s /\ frames' = NextFrames(o, Outer(frames)) /\ result' = NextResult(o, Outer(frames))
  BY <1>1, Delivered
<1>6. Executing(s', frames', result', Budget, Unmoved(start, txn)) /\ StaticStep
  BY <1>4, <1>5 DEF C, StaticStep
<1>7. QED BY <1>1, <1>6, StillExecuting DEF Budget

\* A frame destroys its account, and returns.
LEMMA SelfDestructPreserves ==
    ASSUME ProcessorInvariant, NEW beneficiary \in Heir, SelfDestruct(beneficiary)
    PROVE  ProcessorInvariant' /\ StaticStep
<1> DEFINE v == HostSelfdestruct(s, Inner.self, beneficiary)
           o == Returned(v, rev, Inner, "success", Inner.gas - OpGas, EmptyHash)
           C == Unmoved(start, txn)
<1>1. /\ Running /\ ~Inner.static /\ Deliver(o, Outer(frames))
      /\ UNCHANGED <<rev, txn, phase, cumulative_gas_used, start>>
  BY DEF SelfDestruct, CallKeeps, Below, Outer
<1>2. phase = "executing" /\ frames # <<>>
  BY <1>1 DEF Running
<1>3. /\ Executing(s, frames, result, Budget, C) /\ Budget \in Nat /\ Good(s)
      /\ Inner.self \in Address
  BY <1>2, RunningFrame
<1>4. Inner.gas - OpGas \in 0 .. Budget
  BY <1>1, ChargedFrames
<1>5. beneficiary \in Address /\ EmptyHash \in Code /\ "success" \in Status
  BY ProcessorAssumption, ValuesAssumption DEF Status
<1>6. Reaches(s, v)
  BY <1>3, <1>5, HostSelfdestructReaches
<1> HIDE DEF o, C, Budget, v
<1>7. /\ Executing(o.s, NextFrames(o, Outer(frames)), NextResult(o, Outer(frames)), Budget, C)
  BY <1>1, <1>2, <1>3, <1>4, <1>5, <1>6, ReturnStep DEF Inner, o
<1>8. /\ s' = o.s /\ frames' = NextFrames(o, Outer(frames)) /\ result' = NextResult(o, Outer(frames))
  BY <1>1, Delivered
<1>9. Executing(s', frames', result', Budget, Unmoved(start, txn)) /\ StaticStep
  BY <1>1, <1>7, <1>8 DEF C, StaticStep
<1>10. QED BY <1>1, <1>2, <1>9, StillExecuting DEF Budget

-----------------------------------------------------------------------------
(***************************************************************************)
(* The transactions of a block.                                            *)
(***************************************************************************)

\* A subset of a finite set has a cardinality, a natural number.
LEMMA FiniteSubset ==
    ASSUME NEW S, IsFiniteSet(S), NEW T \in SUBSET S
    PROVE  IsFiniteSet(T) /\ Cardinality(T) \in Nat
BY FS_Subset, FS_CardinalityType

\* intrinsic_gas counts the accounts and the keys of the access list.
LEMMA IntrinsicGasType ==
    ASSUME NEW x \in Transaction, NEW r
    PROVE  IntrinsicGas(x, r) \in Nat
<1> DEFINE list == x.access_list
<1>1. list \in Seq([account: Address, key: Key \cup {None}])
  BY TransactionFields
<1> HIDE DEF list
<1>2. DOMAIN list = 1 .. Len(list) /\ Len(list) \in Nat
  BY <1>1, SequenceElements
<1>3. Nat \subseteq Int /\ 1 \in Int
  BY SMTT(30)
<1>4. IsFiniteSet(DOMAIN list)
  BY <1>2, <1>3, FS_Interval
<1>5. ListedAccounts(list) \in SUBSET DOMAIN list /\ ListedKeys(list) \in SUBSET DOMAIN list
  BY DEF ListedAccounts, ListedKeys
<1>6. Cardinality(ListedAccounts(list)) \in Nat /\ Cardinality(ListedKeys(list)) \in Nat
  BY <1>4, <1>5, FiniteSubset
<1>7. QED BY <1>6, IntrinsicGasSum DEF list

\* The smaller of two numbers.
LEMMA MinOfTwo ==
    ASSUME NEW m \in Nat, NEW n \in Nat
    PROVE  Min({m, n}) \in 0 .. n
<1>1. \E x \in {m, n} : \A y \in {m, n} : x =< y
  BY SMTT(30) DEF Min
<1>2. Min({m, n}) \in {m, n} /\ \A y \in {m, n} : Min({m, n}) =< y
  BY <1>1 DEF Min
<1>3. QED BY SMTT(30), <1>2

\* The refund is at most a part of the gas that was used.
LEMMA RefundBounded ==
    ASSUME s \in IntraBlockStateType, NEW x \in Transaction, NEW gas \in 0 .. x.gas_limit
    PROVE  Refund(x, gas) \in 0 .. x.gas_limit - gas
<1> DEFINE suicides == Cardinality(s.self_destructs)
           earned == s.refund + (IF rev < LONDON THEN kRSelfDestruct * suicides ELSE 0)
           used == x.gas_limit - gas
           cap == used \div MaxRefundQuotient
<1>1. s.self_destructs \in SUBSET Address /\ s.refund \in Uint
  BY DEF IntraBlockStateType
<1>2. suicides \in Nat
  BY <1>1, ProcessorAssumption, FiniteSubset
<1> HIDE DEF suicides
<1>3. used \in Nat
  BY TransactionFields, Left
<1> HIDE DEF used
<1>4. kRSelfDestruct \in Nat /\ MaxRefundQuotient \in Nat \ {0}
  BY SMTT(30) DEF kRSelfDestruct, MaxRefundQuotient
<1>5. /\ s.refund + kRSelfDestruct * suicides \in Nat /\ s.refund + 0 \in Nat
      /\ cap \in Nat /\ 0 .. cap \subseteq 0 .. used
  BY <1>1, <1>2, <1>3, <1>4, RefundParts
<1>6. earned \in Nat
  BY <1>5
<1>7. Refund(x, gas) = Min({earned, cap})
  BY DEF Refund, suicides, used
<1> HIDE DEF earned, cap
<1>8. Min({earned, cap}) \in 0 .. cap
  BY <1>5, <1>6, MinOfTwo
<1>9. Refund(x, gas) \in 0 .. used
  BY <1>5, <1>7, <1>8
<1>10. QED BY <1>9 DEF used

\* A block begins with a fresh IntraBlockState.
LEMMA InitHolds ==
    ASSUME Init
    PROVE  ProcessorInvariant
<1>1. PICK db \in InitialDb : s = Fresh(db)
  BY DEF Init
<1>2. db \in StateBuffer /\ GasLimit \in Nat
  BY ProcessorAssumption
<1>3. s \in IntraBlockStateType /\ Good(s)
  BY <1>1, <1>2, FreshGood DEF Good
<1>4. 0 \in 0 .. GasLimit
  BY <1>2, ZeroWithin
<1>5. /\ phase = "begin" /\ frames = <<>> /\ result = None /\ cumulative_gas_used = 0
  BY DEF Init
<1>6. phase # "executing" /\ phase # "done"
  BY <1>5
<1>7. QED BY <1>3, <1>4, <1>5, <1>6 DEF ProcessorInvariant

\* A block begins, with the balances of the DAO moved or not.
LEMMA BeginBlockPreserves ==
    ASSUME ProcessorInvariant, BeginBlock
    PROVE  ProcessorInvariant'
<1>1. /\ phase = "begin" /\ phase' = "idle" /\ (s' = s \/ s' = TransferBalances(s))
      /\ UNCHANGED <<frames, result, cumulative_gas_used>>
  BY DEF BeginBlock
<1>2. phase # "executing" /\ phase' # "executing" /\ phase' # "begin"
  BY <1>1
<1>3. /\ Good(s) /\ frames = <<>> /\ result = None /\ cumulative_gas_used \in 0 .. GasLimit
  BY <1>1, <1>2 DEF ProcessorInvariant
<1>4. Good(s')
  BY <1>1, <1>3, TransferBalancesGood
<1>5. s' \in IntraBlockStateType
  BY <1>4 DEF Good
<1>6. QED BY <1>1, <1>2, <1>3, <1>5 DEF ProcessorInvariant

\* A transaction begins: EVM::execute enters its first frame, or fails at once.
LEMMA BeginTransactionPreserves ==
    ASSUME ProcessorInvariant, NEW t \in Txn, NEW p \in PrecompileRun, BeginTransaction(t, p)
    PROVE  ProcessorInvariant'
<1> DEFINE o == Executed(t, p)
           gas == t.gas_limit - IntrinsicGas(t, rev)
<1>1. /\ phase = "idle" /\ gas \in 0 .. MaxGas
      /\ t.to = None => CanCreate(Prepaid(t), Message(t))
      /\ ValidateTransaction(t)
      /\ phase' = "executing" /\ txn' = t /\ start' = View(s)
      /\ Deliver(o, <<>>)
      /\ UNCHANGED <<rev, cumulative_gas_used>>
  BY DEF BeginTransaction, Executed
<1>2. phase # "done" /\ phase' # "done" /\ phase' # "begin"
  BY <1>1
<1>3. t \in Transaction /\ p \in [gas: Nat, ok: BOOLEAN] /\ MaxGas \in Nat /\ GasLimit \in Nat
  BY ProcessorAssumption
<1>4. s \in IntraBlockStateType /\ cumulative_gas_used \in 0 .. GasLimit
  BY <1>2 DEF ProcessorInvariant
<1>5. gas \in Nat
  BY <1>1, <1>3, Left
<1> HIDE DEF o
<1>6. Executing(o.s, NextFrames(o, <<>>), NextResult(o, <<>>), gas, Unmoved(View(s), t))
  BY <1>1, <1>3, <1>4, <1>5, BeginStep DEF o
<1>7. s' = o.s /\ frames' = NextFrames(o, <<>>) /\ result' = NextResult(o, <<>>)
  BY <1>1, Delivered
<1>8. Budget' = gas
  BY <1>1 DEF Budget, IntrinsicGas, ListedAccounts, ListedKeys
<1> HIDE DEF gas
<1>9. Executing(s', frames', result', Budget', Unmoved(start', txn'))
  BY <1>1, <1>6, <1>7, <1>8
<1>10. s' \in IntraBlockStateType
  BY <1>9 DEF Executing, Good
<1>11. cumulative_gas_used + t.gas_limit <= GasLimit
  <2>1. t.gas_limit <= GasLimit - cumulative_gas_used
    BY <1>1 DEF ValidateTransaction, AvailableGas
  <2>2. t.gas_limit \in Nat
    BY <1>3, TransactionFields
  <2>3. QED BY <1>3, <1>4, <2>1, <2>2, Room
<1>12. QED BY <1>1, <1>2, <1>3, <1>4, <1>5, <1>8, <1>9, <1>10, <1>11
           DEF ProcessorInvariant

\* A transaction ends: the sender gets back the gas that is left and the refund.
LEMMA EndTransactionPreserves ==
    ASSUME ProcessorInvariant, EndTransaction
    PROVE  ProcessorInvariant'
<1> DEFINE gas_left == result.gas + Refund(txn, result.gas)
           gas_used == txn.gas_limit - gas_left
           repaid == AddToBalance(s, txn.from, gas_left * txn.gas_price)
           awarded == AddToBalance(repaid, Beneficiary, gas_used * txn.gas_price)
           culled == DestructSuicides(awarded)
           swept == IF rev >= SPURIOUS_DRAGON THEN DestructTouchedDead(culled) ELSE culled
<1>1. /\ phase = "executing" /\ frames = <<>> /\ s' = FinalizeTransaction(swept)
      /\ cumulative_gas_used' = cumulative_gas_used + gas_used
      /\ phase' = "idle" /\ result' = None /\ UNCHANGED frames
  BY DEF EndTransaction
<1>2. phase' # "executing" /\ phase' # "begin"
  BY <1>1
<1>3. /\ txn \in Transaction /\ Budget \in Nat /\ cumulative_gas_used \in 0 .. GasLimit
      /\ cumulative_gas_used + txn.gas_limit <= GasLimit
      /\ Executing(s, frames, result, Budget, Unmoved(start, txn))
  BY <1>1 DEF ProcessorInvariant
<1>4. Good(s) /\ result \in ResultType /\ result.gas <= Budget
  BY <1>1, <1>3 DEF Executing
<1>5. /\ txn.from \in Address /\ txn.gas_limit \in Nat /\ txn.gas_price \in Nat
      /\ IntrinsicGas(txn, rev) \in Nat /\ Beneficiary \in Address
  BY <1>3, TransactionFields, IntrinsicGasType, ProcessorAssumption
<1>6. result.gas \in Nat
  BY <1>4 DEF ResultType
<1>7. result.gas \in 0 .. txn.gas_limit
  <2> DEFINE i == IntrinsicGas(txn, rev)
  <2>1. i \in Nat /\ result.gas <= txn.gas_limit - i
    BY <1>4, <1>5 DEF Budget
  <2> HIDE DEF i
  <2>2. QED BY <1>5, <1>6, <2>1, PartLeft
<1>8. s \in IntraBlockStateType
  BY <1>4 DEF Good
<1>9. Refund(txn, result.gas) \in 0 .. txn.gas_limit - result.gas
  BY <1>3, <1>7, <1>8, RefundBounded
<1>10. gas_left \in 0 .. txn.gas_limit
  BY <1>5, <1>7, <1>9, Left
<1> HIDE DEF gas_left
<1>11. gas_left \in Nat /\ gas_used \in 0 .. txn.gas_limit /\ gas_used \in Nat
  BY <1>5, <1>10, Left
<1> HIDE DEF gas_used
<1>12. gas_left * txn.gas_price \in Nat /\ gas_used * txn.gas_price \in Nat
  BY <1>5, <1>11, Product
<1>13. Good(repaid)
  BY <1>4, <1>5, <1>12, BalanceReaches
<1> HIDE DEF repaid
<1>14. Good(awarded)
  BY <1>5, <1>12, <1>13, BalanceReaches
<1> HIDE DEF awarded
<1>15. awarded \in IntraBlockStateType /\ awarded.self_destructs \in SUBSET Address
  BY <1>14 DEF Good, IntraBlockStateType
<1>16. culled \in IntraBlockStateType
  BY <1>15, DestructType DEF DestructSuicides
<1> HIDE DEF culled
<1>17. swept \in IntraBlockStateType
  BY <1>16, DestructTouchedDeadType
<1> HIDE DEF swept
<1>18. s' \in IntraBlockStateType
  BY <1>1, <1>17, FinalizeType
<1>19. cumulative_gas_used' \in 0 .. GasLimit
  <2>1. cumulative_gas_used + gas_used \in 0 .. GasLimit
    BY <1>3, <1>5, <1>11, ProcessorAssumption, Room
  <2>2. QED BY <1>1, <2>1
<1>20. QED BY <1>1, <1>2, <1>18, <1>19 DEF ProcessorInvariant

\* A block that is refused or ends keeps what is known of it.
LEMMA BlockEndPreserves ==
    ASSUME ProcessorInvariant, phase = "idle", phase' \in {"rejected", "done"},
           phase' = "rejected" => UNCHANGED s,
           UNCHANGED <<frames, result, cumulative_gas_used>>
    PROVE  ProcessorInvariant'
<1>1. /\ phase # "executing" /\ phase # "done" /\ phase' # "executing" /\ phase' # "begin"
      /\ phase' \in {"begin", "idle", "executing", "rejected", "done"}
      /\ phase' # "done" => phase' = "rejected"
  OBVIOUS
<1>2. QED BY <1>1 DEF ProcessorInvariant

-----------------------------------------------------------------------------
(***************************************************************************)
(* The theorems.                                                           *)
(***************************************************************************)

\* Every step preserves the invariant, and changes no account in a static call.
LEMMA NextPreserves ==
    ASSUME ProcessorInvariant, Next
    PROVE  ProcessorInvariant' /\ (frames # <<>> => StaticStep)
<1>0. phase # "executing" => frames = <<>>
  BY DEF ProcessorInvariant
<1>1. CASE BeginBlock
  <2>1. phase = "begin"
    BY <1>1 DEF BeginBlock
  <2>2. frames = <<>>
    BY <1>0, <2>1
  <2>3. QED BY <1>1, <2>2, BeginBlockPreserves
<1>2. CASE \E t \in Txn, p \in PrecompileRun : BeginTransaction(t, p)
  <2>1. PICK t \in Txn, p \in PrecompileRun : BeginTransaction(t, p)
    BY <1>2
  <2>2. phase = "idle"
    BY <2>1 DEF BeginTransaction
  <2>3. frames = <<>>
    BY <1>0, <2>2
  <2>4. QED BY <2>1, <2>3, BeginTransactionPreserves
<1>3. CASE \E t \in Txn : RejectBlock(t)
  <2>1. /\ phase = "idle" /\ phase' = "rejected"
        /\ UNCHANGED s /\ UNCHANGED <<frames, result, cumulative_gas_used>>
    BY <1>3 DEF RejectBlock
  <2>2. frames = <<>> /\ phase' \in {"rejected", "done"}
    BY <1>0, <2>1
  <2>3. QED BY <2>1, <2>2, BlockEndPreserves
<1>4. CASE HostCall
  <2>1. CASE \E k \in Key, v \in Value : SStore(k, v)
    BY <2>1, SStorePreserves
  <2>2. CASE \E log \in LogEntry : EmitLog(log)
    BY <2>2, EmitLogPreserves
  <2>3. CASE \E beneficiary \in Heir : SelfDestruct(beneficiary)
    BY <2>3, SelfDestructPreserves
  <2>4. QED BY <1>4, <2>1, <2>2, <2>3 DEF HostCall
<1>5. CASE \E kind \in {"call", "callcode", "delegatecall"}, static \in BOOLEAN, a \in Callee,
              value \in {0, 1}, p \in PrecompileRun : FrameCall(kind, static, a, value, p)
  BY <1>5, FrameCallPreserves
<1>6. CASE \E kind \in {"create", "create2"}, value \in {0, 1} : FrameCreate(kind, value)
  BY <1>6, FrameCreatePreserves
<1>7. CASE \E status \in Status, code \in Code : Return(status, code)
  BY <1>7, ReturnPreserves
<1>8. CASE EndTransaction
  <2>1. frames = <<>>
    BY <1>8 DEF EndTransaction
  <2>2. QED BY <1>8, <2>1, EndTransactionPreserves
<1>9. CASE \E included \in SUBSET Ommer : EndBlock(included)
  <2>1. /\ phase = "idle" /\ phase' = "done"
        /\ UNCHANGED <<frames, result, cumulative_gas_used>>
    BY <1>9 DEF EndBlock
  <2>2. frames = <<>> /\ phase' \in {"rejected", "done"} /\ phase' # "rejected"
    BY <1>0, <2>1
  <2>3. QED BY <2>1, <2>2, BlockEndPreserves
<1>10. QED
  BY <1>1, <1>2, <1>3, <1>4, <1>5, <1>6, <1>7, <1>8, <1>9 DEF Next

\* A stuttering step preserves the invariant.
LEMMA StutterPreserves ==
    ASSUME ProcessorInvariant, UNCHANGED vars
    PROVE  ProcessorInvariant'
<1>1. /\ s' = s /\ rev' = rev /\ frames' = frames /\ result' = result /\ txn' = txn
      /\ phase' = phase /\ cumulative_gas_used' = cumulative_gas_used /\ start' = start
  BY DEF vars
<1>2. Budget' = Budget
  BY <1>1 DEF Budget, IntrinsicGas, ListedAccounts, ListedKeys
<1> HIDE DEF Budget
<1>3. QED BY <1>1, <1>2 DEF ProcessorInvariant

\* Between transactions the accounts are well formed; while one runs, every
\* frame of the interpreter finds the journal whole down to its own snapshot, so
\* that it can be reverted, and has the gas that its callers gave up.
THEOREM ProcessorInvariance == Spec => []ProcessorInvariant
<1>1. Init => ProcessorInvariant
  BY InitHolds
<1>2. ProcessorInvariant /\ [Next]_vars => ProcessorInvariant'
  BY NextPreserves, StutterPreserves
<1>3. QED BY <1>1, <1>2, PTL DEF Spec

\* The running frames and the result never have more gas than the transaction
\* brought to EVM::execute, whatever calls fail and give gas back, and the
\* transactions of a block use no more than header.gas_limit.
THEOREM GasConserved == Spec => []GasNeverCreated
<1>1. ProcessorInvariant => GasNeverCreated
  <2>1. SUFFICES ASSUME ProcessorInvariant PROVE GasNeverCreated
    OBVIOUS
  <2>2. cumulative_gas_used \in 0 .. GasLimit /\ (phase # "executing" => frames = <<>>)
    BY <2>1 DEF ProcessorInvariant
  <2>3. CASE phase # "executing"
    <3>1. frames = <<>>
      BY <2>2, <2>3
    <3>2. DOMAIN frames = {}
      BY SMTT(30), <3>1
    <3>3. QED BY <2>2, <2>3, <3>2 DEF GasNeverCreated
  <2>4. CASE phase = "executing"
    <3>1. /\ Budget \in Nat /\ GasAtTop(frames, Budget) /\ frames \in Seq(FrameType)
          /\ frames = <<>> => result \in ResultType /\ result.gas <= Budget
          /\ frames # <<>> => result = None
      BY <2>1, <2>4 DEF ProcessorInvariant, Executing, Nested
    <3> HIDE DEF Budget
    <3>2. /\ \A i \in DOMAIN frames : frames[i].gas >= 0
          /\ SumGas(frames) + (IF result = None THEN 0 ELSE result.gas) \in 0 .. Budget
      BY <3>1, GasInHand
    <3>3. QED BY <2>2, <3>2 DEF GasNeverCreated, Budget
  <2>5. QED BY <2>3, <2>4
<1>2. QED BY <1>1, ProcessorInvariance, PTL

\* A transaction whose outermost frame fails leaves the accounts, the storage,
\* the logs and the substate as they were, but for the sender's nonce and the
\* gas paid in advance: revert_to_snapshot undoes what any nesting of calls did.
THEOREM FailureLeavesNoTrace == Spec => []FailedTransactionLeavesNoTrace
<1>1. ProcessorInvariant => FailedTransactionLeavesNoTrace
  <2>1. SUFFICES ASSUME ProcessorInvariant, phase = "executing", result # None,
                        result.status # "success"
                 PROVE  s.logs = <<>> /\ OnlyCharged(View(s))
    BY DEF FailedTransactionLeavesNoTrace
  <2>2. Executing(s, frames, result, Budget, Unmoved(start, txn))
    BY <2>1 DEF ProcessorInvariant
  <2>3. s.logs = <<>> /\ View(s) \in Unmoved(start, txn)
    BY <2>1, <2>2 DEF Executing
  <2>4. Charges(View(s), start, txn)
    BY <2>3 DEF Unmoved
  <2>5. Prepayment = txn.gas_limit * txn.gas_price
    BY <2>1 DEF Prepayment
  <2>6. OnlyCharged(View(s))
    BY <2>4, <2>5 DEF OnlyCharged, Charges
  <2>7. QED BY <2>3, <2>6
<1>2. QED BY <1>1, ProcessorInvariance, PTL

\* While the innermost frame is static no step creates, changes or deletes an
\* account, its own return and revert included: EVM::call only touches the
\* destination, and the interpreter refuses the host calls that write.
THEOREM StaticCallsKeepAccounts == Spec => StaticCallsChangeNoAccount
<1>1. ProcessorInvariant /\ [Next]_vars
        => [frames # <<>> /\ Inner.static => Accounts(s') = Accounts(s)]_vars
  <2>1. SUFFICES ASSUME ProcessorInvariant, Next, frames # <<>>, Inner.static
                 PROVE  Accounts(s') = Accounts(s)
    OBVIOUS
  <2>2. View(s').objects = View(s).objects
    BY <2>1, NextPreserves DEF StaticStep
  <2>3. View(s').objects = Accounts(s') /\ View(s).objects = Accounts(s)
    BY DEF View, Accounts
  <2>4. QED BY <2>2, <2>3
<1>2. QED BY <1>1, ProcessorInvariance, PTL DEF Spec, StaticCallsChangeNoAccount

=============================================================================
