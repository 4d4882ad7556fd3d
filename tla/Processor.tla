----------------------------- MODULE Processor -----------------------------
(***************************************************************************)
(* ExecutionProcessor (core/silkworm/execution/processor.cpp): the         *)
(* transactions of one block, one after another, each run by the EVM.      *)
(*                                                                         *)
(* A step is a transaction's beginning, one host call of the innermost     *)
(* frame, that frame's return, or the transaction's end.                   *)
(***************************************************************************)
EXTENDS ProcessorMethods, FiniteSetsExt

CONSTANTS
    Revision,       \* the revisions a block may be executed under
    InitialDb,      \* the contents the StateBuffer may start with
    Txn,            \* the transactions: those pre_validate_transaction accepts
    Beneficiary,    \* header.beneficiary
    GasLimit,       \* header.gas_limit
    Ommer,          \* the ommers a block may have: their depth and beneficiary
    Callee,         \* the addresses that contracts call
    Heir,           \* the beneficiaries of self-destructions
    OpGas,          \* what the interpreter charges for a host call
    PrecompileRun,  \* what a precompiled contract may charge and yield
    MaxTransactions, MaxDepth, MaxLogs, MaxGas   \* bounds

ASSUME ProcessorAssumption ==
    /\ IsFiniteSet(Address)
    /\ InitialDb \subseteq StateBuffer /\ Txn \subseteq Transaction
    /\ Beneficiary \in Address /\ Callee \subseteq Address /\ Heir \subseteq Address
    /\ PrecompileRun \subseteq [gas: Nat, ok: BOOLEAN]
    /\ GasLimit \in Nat /\ OpGas \in Nat /\ MaxGas \in Nat

VARIABLES
    s,                    \* the IntraBlockState
    rev,
    frames,               \* the calls the interpreter is in, innermost last
    result,               \* what EVM::execute(txn) returned, None while it runs
    txn,                  \* the transaction being executed
    phase,                \* "begin", "idle", "executing", "rejected" or "done"
    txns,                 \* transactions executed
    cumulative_gas_used,
    start,                \* auxiliary: what could be observed when the transaction began
    destroyed,            \* auxiliary: a transaction of the block destroyed an account
    ommers                \* block.ommers, chosen when the rewards are paid

vars == <<s, rev, frames, result, txn, phase, txns, cumulative_gas_used, start, destroyed, ommers>>

-----------------------------------------------------------------------------
Init == /\ rev \in Revision
        /\ \E db \in InitialDb : s = Fresh(db)
        /\ frames = <<>> /\ result = None /\ txn = None
        /\ phase = "begin" /\ txns = 0
        /\ cumulative_gas_used = 0
        /\ start = None
        /\ destroyed = FALSE
        /\ ommers = {}

\* execute_block up to its loop; the DAO fork's block is a Homestead one.
BeginBlock ==
    /\ phase = "begin"
    /\ \/ UNCHANGED s
       \/ rev < SPURIOUS_DRAGON /\ s' = TransferBalances(s)
    /\ phase' = "idle"
    /\ UNCHANGED <<rev, frames, result, txn, txns, cumulative_gas_used, start, destroyed, ommers>>

AvailableGas == GasLimit - cumulative_gas_used

ValidateTransaction(t) ==
    /\ t.nonce = Nonce(s, t.from)
    /\ t.gas_limit * t.gas_price + t.value <= Balance(s, t.from)
    /\ t.gas_limit <= AvailableGas

\* execute_transaction up to the EVM.
Prepaid(t) ==
    LET accessed == AccessAccount(ClearJournalAndSubstate(s), t.from)
        paid     == SubtractFromBalance(accessed, t.from, t.gas_limit * t.gas_price)
        called   == SetNonce(AccessAccount(paid, t.to), t.from, t.nonce + 1)
    IN Warmed(IF t.to = None THEN paid ELSE called, t.access_list)

\* EVM::execute(txn).
Message(t) ==
    [kind |-> IF t.to = None THEN "create" ELSE "call", static |-> FALSE, sender |-> t.from,
     destination |-> t.to, top |-> None, value |-> t.value,
     gas |-> t.gas_limit - IntrinsicGas(t, rev)]

\* The outcome of a call reaches the frames below it, or ends the transaction.
Deliver(outcome, below) ==
    /\ s' = outcome.s
    /\ frames' = IF outcome.frame # None THEN Append(below, outcome.frame)
                 ELSE [i \in DOMAIN below |->
                         IF i = Len(below) THEN [below[i] EXCEPT !.gas = @ + outcome.gas]
                         ELSE below[i]]
    /\ result' = IF outcome.frame # None \/ below # <<>> THEN None
                 ELSE [status |-> outcome.status, gas |-> outcome.gas]

BeginTransaction(t, precompile) ==
    /\ phase = "idle" /\ txns < MaxTransactions
    /\ t.gas_limit - IntrinsicGas(t, rev) \in 0 .. MaxGas
    /\ t.to = None => CanCreate(Prepaid(t), Message(t))
    /\ ValidateTransaction(t)
    /\ phase' = "executing" /\ txn' = t /\ start' = View(s)
    /\ Deliver(IF t.to = None THEN Create(Prepaid(t), rev, Message(t))
               ELSE Call(Prepaid(t), rev, Message(t), precompile), <<>>)
    /\ UNCHANGED <<rev, txns, cumulative_gas_used, destroyed, ommers>>

\* The block is refused, and so is what its transactions did.
RejectBlock(t) ==
    /\ phase = "idle" /\ txns < MaxTransactions
    /\ IntrinsicGas(t, rev) <= t.gas_limit
    /\ ~ValidateTransaction(t)
    /\ phase' = "rejected"
    /\ UNCHANGED <<s, rev, frames, result, txn, txns, cumulative_gas_used, start, destroyed, ommers>>

-----------------------------------------------------------------------------
(***************************************************************************)
(* The innermost frame makes a host call.                                  *)
(***************************************************************************)
Inner == frames[Len(frames)]
Below == SubSeq(frames, 1, Len(frames) - 1)
Charged == [frames EXCEPT ![Len(frames)].gas = @ - OpGas]

Running == phase = "executing" /\ frames # <<>> /\ Inner.gas >= OpGas
HostKeeps == UNCHANGED <<rev, result, txn, phase, txns, cumulative_gas_used, start, destroyed, ommers>>
CallKeeps == UNCHANGED <<rev, txn, phase, txns, cumulative_gas_used, start, destroyed, ommers>>

SStore(k, v) ==
    /\ Running /\ ~Inner.static
    /\ s' = HostSetStorage(IF rev >= BERLIN THEN AccessStorage(s, Inner.self, k) ELSE s,
                           rev, Inner.self, k, v)
    /\ frames' = Charged
    /\ HostKeeps

EmitLog(log) ==
    /\ Running /\ ~Inner.static /\ Len(s.logs) < MaxLogs
    /\ s' = [s EXCEPT !.logs = Append(@, log)]
    /\ frames' = Charged
    /\ HostKeeps

\* The child gets all the gas that is left.
FrameCall(kind, static, a, value, precompile) ==
    /\ Running /\ Len(frames) < MaxDepth
    /\ static # Inner.static => kind = "call" /\ static
    /\ value > 0 => kind # "delegatecall" /\ (kind = "call" => ~static)
    /\ Deliver(Call(IF rev >= BERLIN THEN HostAccessAccount(s, rev, a) ELSE s, rev,
                    [kind |-> kind, static |-> static,
                     sender |-> IF kind = "delegatecall" THEN Inner.sender ELSE Inner.self,
                     destination |-> a, top |-> Inner.self,
                     value |-> IF kind = "delegatecall" THEN Inner.value ELSE value,
                     gas |-> Inner.gas - OpGas], precompile),
               [frames EXCEPT ![Len(frames)].gas = 0])
    /\ CallKeeps

FrameCreate(kind, value) ==
    /\ Running /\ ~Inner.static /\ Len(frames) < MaxDepth
    /\ kind = "create2" => rev >= CONSTANTINOPLE
    /\ CanCreate(s, [kind |-> kind, sender |-> Inner.self])
    /\ Deliver(Create(s, rev, [kind |-> kind, sender |-> Inner.self, value |-> value,
                               gas |-> Inner.gas - OpGas]),
               [frames EXCEPT ![Len(frames)].gas = 0])
    /\ CallKeeps

Return(status, code) ==
    /\ phase = "executing" /\ frames # <<>>
    /\ code # EmptyHash => Inner.contract # None /\ status = "success"
    /\ Deliver(Returned(s, rev, Inner, status, Inner.gas, code), Below)
    /\ CallKeeps

\* SELFDESTRUCT ends the frame.
SelfDestruct(beneficiary) ==
    /\ Running /\ ~Inner.static
    /\ Deliver(Returned(HostSelfdestruct(s, Inner.self, beneficiary), rev, Inner,
                        "success", Inner.gas - OpGas, EmptyHash), Below)
    /\ CallKeeps

-----------------------------------------------------------------------------
MaxRefundQuotient == IF rev >= LONDON THEN 5 ELSE 2

\* What refund_gas gives back.
Refund(t, gas_left) ==
    LET earned == s.refund + (IF rev < LONDON
                              THEN kRSelfDestruct * Cardinality(s.self_destructs) ELSE 0)
    IN Min({earned, (t.gas_limit - gas_left) \div MaxRefundQuotient})

\* The rest of execute_transaction.
EndTransaction ==
    /\ phase = "executing" /\ frames = <<>>
    /\ LET gas_left == result.gas + Refund(txn, result.gas)
           gas_used == txn.gas_limit - gas_left
           repaid   == AddToBalance(s, txn.from, gas_left * txn.gas_price)
           awarded  == AddToBalance(repaid, Beneficiary, gas_used * txn.gas_price)
           culled   == DestructSuicides(awarded)
       IN /\ s' = FinalizeTransaction(IF rev >= SPURIOUS_DRAGON
                                      THEN DestructTouchedDead(culled) ELSE culled)
          /\ cumulative_gas_used' = cumulative_gas_used + gas_used
    /\ destroyed' = (destroyed \/ s.self_destructs # {})
    /\ phase' = "idle" /\ txns' = txns + 1
    /\ result' = None /\ txn' = None /\ start' = None
    /\ UNCHANGED <<rev, frames, ommers>>

\* A block reward, in 32nds of an ether.
BlockReward ==
    32 * (IF rev >= CONSTANTINOPLE THEN 2 ELSE IF rev >= BYZANTIUM THEN 3 ELSE 5)

\* apply_rewards.
Rewarded(t, included) ==
    LET Pay(o, u) == AddToBalance(u, o.beneficiary, ((8 - o.depth) * BlockReward) \div 8)
    IN AddToBalance(FoldSet(Pay, t, included), Beneficiary,
                    BlockReward + Cardinality(included) * (BlockReward \div 32))

EndBlock(included) ==
    /\ phase = "idle"
    /\ phase' = "done" /\ ommers' = included
    /\ s' = Rewarded(s, included)
    /\ UNCHANGED <<rev, frames, result, txn, txns, cumulative_gas_used, start, destroyed>>

HostCall ==
    \/ \E k \in Key, v \in Value : SStore(k, v)
    \/ \E log \in LogEntry : EmitLog(log)
    \/ \E beneficiary \in Heir : SelfDestruct(beneficiary)

Next ==
    \/ BeginBlock
    \/ \E t \in Txn, p \in PrecompileRun : BeginTransaction(t, p)
    \/ \E t \in Txn : RejectBlock(t)
    \/ HostCall
    \/ \E kind \in {"call", "callcode", "delegatecall"}, static \in BOOLEAN, a \in Callee,
          value \in {0, 1}, p \in PrecompileRun : FrameCall(kind, static, a, value, p)
    \/ \E kind \in {"create", "create2"}, value \in {0, 1} : FrameCreate(kind, value)
    \/ \E status \in Status, code \in Code : Return(status, code)
    \/ EndTransaction
    \/ \E included \in SUBSET Ommer : EndBlock(included)

Spec == Init /\ [][Next]_vars

-----------------------------------------------------------------------------
(***************************************************************************)
(* Correctness.                                                            *)
(***************************************************************************)
Supply(t) == MapThenSumSet(LAMBDA a : Balance(t, a), Address)

Prepayment == IF phase = "executing" THEN txn.gas_limit * txn.gas_price ELSE 0

\* What the yellow paper lets a block issue, in 32nds of an ether.
Issued ==
    IF phase # "done" THEN 0
    ELSE BlockReward + MapThenSumSet(LAMBDA o : (BlockReward * (8 - o.depth)) \div 8
                                                  + BlockReward \div 32, ommers)

\* Calls, creations, reverts, the fees and the rewards neither create nor lose
\* ether: what the accounts hold, with the gas that execute_transaction has
\* taken in advance, is what they held before the block and what apply_rewards
\* issues.  Only a self-destruction may lose some.
EtherConserved ==
    LET held == Supply(s) + Prepayment
        due  == Supply(Fresh(s.db)) + Issued
    IN IF destroyed \/ s.self_destructs # {} THEN held <= due ELSE held = due

\* The gas of the running frames and of the result is never negative and never
\* more than the transaction had left when the EVM started, whatever calls fail
\* and give gas back; and a block's transactions stay within header.gas_limit.
GasNeverCreated ==
    /\ \A i \in DOMAIN frames : frames[i].gas >= 0
    /\ phase = "executing" =>
         LET gas == SumGas(frames) + (IF result = None THEN 0 ELSE result.gas)
         IN gas \in 0 .. txn.gas_limit - IntrinsicGas(txn, rev)
    /\ cumulative_gas_used \in 0 .. GasLimit

\* What a transaction that fails leaves of view: the sender has used a nonce
\* and paid for the gas.
OnlyCharged(view) ==
    /\ view.self_destructs = {}
    /\ \A a \in Address \ {txn.from} : /\ view.objects[a] = start.objects[a]
                                       /\ view.slots[a] = start.slots[a]
    /\ Alive(start.objects[txn.from]) => view.slots[txn.from] = start.slots[txn.from]
    /\ AccountOf(view.objects[txn.from])
         = [AccountOf(start.objects[txn.from]) EXCEPT !.nonce = txn.nonce + 1,
                                                      !.balance = @ - Prepayment]

\* A transaction whose outermost frame fails, with or without REVERT, after any
\* nesting of calls, leaves the accounts, the storage, the logs and the substate
\* as they were, but for the sender's nonce and the gas they paid in advance.
FailedTransactionLeavesNoTrace ==
    phase = "executing" /\ result # None /\ result.status # "success" =>
      s.logs = <<>> /\ OnlyCharged(View(s))

Accounts(t) == [a \in Address |-> ObjectOf(t, a)]

\* Inside a static call no account appears or changes: the call touches its
\* destination where an ordinary call would pay it (evm.cpp, "Match geth logic").
StaticCallsChangeNoAccount ==
    [][frames # <<>> /\ Inner.static => Accounts(s') = Accounts(s)]_vars

Current == [x \in Address \X Key |->
               CurrentValue(s.db, ObjectOf(s, x[1]), s.storage[x[1]], x[1], x[2])]
Original == [x \in Address \X Key |->
               OriginalValue(s.db, ObjectOf(s, x[1]), s.storage[x[1]], x[1], x[2])]

\* The slots when the journal had n entries.
CurrentWhen(n) == IF n = Len(s.journal) THEN Current
                  ELSE LET slots == s.journal[n + 1].before.slots
                       IN [x \in Address \X Key |-> slots[x[1]][x[2]].current]

Metering == INSTANCE GasMetering WITH
    Slot <- Address \X Key,
    clears <- IF Eip1283(rev) THEN SstoreClearsRefund(rev) ELSE 0,
    original <- Original,
    current <- Current,
    refund <- IF phase = "executing" THEN s.refund ELSE 0,
    saved <- [i \in DOMAIN frames |->
                [current |-> CurrentWhen(frames[i].snapshot.journal_size),
                 refund |-> frames[i].snapshot.refund]]

\* EvmHost::set_storage, with the snapshots of EVM::call and EVM::create and the
\* transactions of a block, implements the promise of net gas metering.
MeteringSpec == Metering!Spec

=============================================================================
