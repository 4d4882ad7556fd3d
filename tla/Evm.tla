-------------------------------- MODULE Evm --------------------------------
(***************************************************************************)
(* The EVM as its host sees it (core/silkworm/execution/evm.cpp): message  *)
(* calls, contract creation, and the host functions that change state.     *)
(*                                                                         *)
(* The interpreter (evmone) is external: a running frame may make any host *)
(* call, one after another, each for some gas, until it returns.  A call   *)
(* or create is therefore cut where the code enters the interpreter: the   *)
(* first half yields an outcome, either a result or the frame that runs;   *)
(* the second half, Returned..., is applied when that frame ends.  What a  *)
(* getter caches is left to IntraBlockState.                               *)
(***************************************************************************)
EXTENDS Journal

CONSTANTS
    Precompile,          \* the precompiled contracts: the number of each address
    CreateAddress(_, _), \* create_address(caller, nonce), None where it is not needed
    Create2Address(_),   \* create2_address of the one salt and init code in use
    CodeLength,          \* the length of each code
    kMaxCodeSize

\* evmc_revision, in the order of the forks.
HOMESTEAD == 1
SPURIOUS_DRAGON == 3
BYZANTIUM == 4
CONSTANTINOPLE == 5
ISTANBUL == 7
BERLIN == 8
LONDON == 9

\* namespace fee
kGSLoadTangerineWhistle == 200
kGSLoadIstanbul == 800
kWarmStorageReadCost == 100
kColdSloadCost == 2100
kAccessListStorageKeyCost == 1900
kAccessListAddressCost == 2400
kGSSet == 20000
kGSReset == 5000
kRSClear == 15000
kRSelfDestruct == 24000
kGCodeDeposit == 200
kGTxCreate == 32000
kGTxDataZero == 4
kGTxDataNonZeroFrontier == 68
kGTxDataNonZeroIstanbul == 16
kGTransaction == 21000

-----------------------------------------------------------------------------
\* The evmc_status_code of the interpreter, and those that call and create add.
Status == {"success", "revert", "failure"}
StatusCode == Status \cup {"out_of_gas", "precompile_failure", "insufficient_balance",
                           "invalid_instruction"}

Snapshot == [journal_size: Nat, log_size: Nat, refund: Uint]
FrameType == [self: Address, sender: Address, value: Nat, static: BOOLEAN, gas: Nat,
              snapshot: Snapshot, contract: Address \cup {None}]
ResultType == [status: StatusCode, gas: Nat]

ASSUME EvmAssumption ==
    /\ None \notin Address \cup Key \cup FrameType \cup ResultType
    /\ CodeLength \in [Code -> Nat]

-----------------------------------------------------------------------------
(***************************************************************************)
(* Snapshots.                                                              *)
(***************************************************************************)
TakeSnapshot(s) == [journal_size |-> Len(s.journal), log_size |-> Len(s.logs), refund |-> s.refund]

\* The loop of revert_to_snapshot: the states with the last 0, 1, 2, ...
\* entries of the journal undone.
Undone(s) ==
    LET n == Len(s.journal)
        undone[i \in 0 .. n] == IF i = 0 THEN s ELSE Revert(undone[i - 1], s.journal[n + 1 - i].delta)
    IN undone

\* Mutant: the refund of the failed frame is kept.
RevertToSnapshotKeepsRefund(s, snapshot) ==
    [Undone(s)[Len(s.journal) - snapshot.journal_size] EXCEPT
       !.journal = SubSeq(@, 1, snapshot.journal_size),
       !.logs = SubSeq(@, 1, snapshot.log_size)]
RevertToSnapshot(s, snapshot) ==
    [Undone(s)[Len(s.journal) - snapshot.journal_size] EXCEPT
       !.journal = SubSeq(@, 1, snapshot.journal_size),
       !.logs = SubSeq(@, 1, snapshot.log_size),
       !.refund = snapshot.refund]

-----------------------------------------------------------------------------
(***************************************************************************)
(* Message calls.  An outcome is the new state and either the frame that   *)
(* is entered or the result that is returned at once.                      *)
(***************************************************************************)
Result(s, status, gas) == [s |-> s, frame |-> None, status |-> status, gas |-> gas]
Enter(s, frame) == [s |-> s, frame |-> frame, status |-> None, gas |-> 0]

Frame(self, msg, static, snapshot, contract) ==
    [self |-> self, sender |-> msg.sender, value |-> msg.value, static |-> static,
     gas |-> msg.gas, snapshot |-> snapshot, contract |-> contract]

NumberOfPrecompiles(rev) == IF rev >= ISTANBUL THEN 9 ELSE IF rev >= BYZANTIUM THEN 8 ELSE 4
IsPrecompiled(a, rev) == a \in DOMAIN Precompile /\ Precompile[a] <= NumberOfPrecompiles(rev)

Transfer(s, from, to, value) == AddToBalance(SubtractFromBalance(s, from, value), to, value)

\* Mutant: only REVERT undoes what the frame did.
FailedKeepsState(s, snapshot, status, gas) ==
    IF status = "revert" THEN Result(RevertToSnapshot(s, snapshot), status, gas)
    ELSE Result(s, status, 0)
\* The end of call and of create for a status other than success.
Failed(s, snapshot, status, gas) ==
    Result(RevertToSnapshot(s, snapshot), status, IF status = "revert" THEN gas ELSE 0)

\* Mutant: the value is sent whatever the kind of the call.
CallTransferAlways(s, msg) == Transfer(s, msg.sender, msg.destination, msg.value)
CallTransfer(s, msg) ==
    IF msg.kind # "call" THEN s
    ELSE IF msg.static THEN Touch(s, msg.destination)
    ELSE Transfer(s, msg.sender, msg.destination, msg.value)

\* The address the code of a call runs as.
Recipient(msg) ==
    CASE msg.kind = "callcode" -> msg.sender
      [] msg.kind = "delegatecall" -> msg.top      \* address_stack_.top()
      [] OTHER -> msg.destination

\* EVM::call, up to the interpreter.  precompile is what the precompiled
\* contract does: its gas, and whether it succeeds.
Call(s, rev, msg, precompile) ==
    LET snapshot == TakeSnapshot(s)
        t        == CallTransfer(s, msg)
        status   == IF precompile.gas > msg.gas THEN "out_of_gas" ELSE "precompile_failure"
    IN IF msg.kind # "delegatecall" /\ Balance(s, msg.sender) < msg.value
       THEN Result(s, "insufficient_balance", msg.gas)
       ELSE IF /\ msg.value = 0 /\ rev >= SPURIOUS_DRAGON
               /\ ~Exists(s, msg.destination) /\ ~IsPrecompiled(msg.destination, rev)
       THEN Result(s, "success", msg.gas)
       ELSE IF IsPrecompiled(msg.destination, rev)
       THEN IF precompile.gas <= msg.gas /\ precompile.ok
            THEN Result(t, "success", msg.gas - precompile.gas)
            ELSE Failed(t, snapshot, status, msg.gas)
       ELSE IF CodeHash(t, msg.destination) = EmptyHash
       THEN Result(t, "success", msg.gas)
       ELSE Enter(t, Frame(Recipient(msg), msg, msg.static, snapshot, None))

\* EVM::create, up to the interpreter.
ContractAddress(s, msg) ==
    IF msg.kind = "create" THEN CreateAddress(msg.sender, Nonce(s, msg.sender))
    ELSE Create2Address(msg.sender)

CreateBegin(s, msg, a) ==
    AccessAccount(SetNonce(s, msg.sender, Nonce(s, msg.sender) + 1), a)

CreateFrame(s, rev, msg, a) ==
    LET created == CreateContract(s, a)
        nonced  == IF rev >= SPURIOUS_DRAGON THEN SetNonce(created, a, 1) ELSE created
    IN Enter(Transfer(nonced, msg.sender, a, msg.value), Frame(a, msg, FALSE, TakeSnapshot(s), a))

Create(s, rev, msg) ==
    LET a == ContractAddress(s, msg)
        t == CreateBegin(s, msg, a)
    IN IF Balance(s, msg.sender) < msg.value
       THEN Result(s, "insufficient_balance", msg.gas)
       ELSE IF Nonce(t, a) # 0 \/ CodeHash(t, a) # EmptyHash
       THEN Result(t, "invalid_instruction", 0)
       ELSE CreateFrame(t, rev, msg, a)

\* Bounds: the addresses of contracts, and the incarnations.
CanCreate(t, msg) ==
    LET a == ContractAddress(t, msg)
    IN a \in Address /\ PrevIncarnation(CreateBegin(t, msg, a), a) < MaxIncarnation

\* Mutant: the deposit is taken although the gas does not cover it.
DepositUnchecked(s, rev, frame, gas, code) ==
    Result(SetCode(s, frame.contract, code), "success", gas - CodeLength[code] * kGCodeDeposit)
\* What create does with the code a successful deployment returns.
Deposit(s, rev, frame, gas, code) ==
    LET code_deploy_gas == CodeLength[code] * kGCodeDeposit
    IN IF rev >= SPURIOUS_DRAGON /\ CodeLength[code] > kMaxCodeSize
       THEN Failed(s, frame.snapshot, "out_of_gas", gas)
       ELSE IF gas >= code_deploy_gas
       THEN Result(SetCode(s, frame.contract, code), "success", gas - code_deploy_gas)
       ELSE IF rev >= HOMESTEAD
       THEN Failed(s, frame.snapshot, "out_of_gas", gas)
       ELSE Result(s, "success", gas)

\* The rest of call and create, when the interpreter returns from frame.
Returned(s, rev, frame, status, gas, code) ==
    IF status # "success" THEN Failed(s, frame.snapshot, status, gas)
    ELSE IF frame.contract = None THEN Result(s, status, gas)
    ELSE Deposit(s, rev, frame, gas, code)

-----------------------------------------------------------------------------
(***************************************************************************)
(* EvmHost.                                                                *)
(***************************************************************************)
Eip1283(rev) == rev >= ISTANBUL \/ rev = CONSTANTINOPLE

SloadCost(rev) ==
    IF rev >= BERLIN THEN kWarmStorageReadCost
    ELSE IF rev >= ISTANBUL THEN kGSLoadIstanbul ELSE kGSLoadTangerineWhistle

SstoreResetGas(rev) == IF rev >= BERLIN THEN kGSReset - kColdSloadCost ELSE kGSReset

SstoreClearsRefund(rev) ==
    IF rev >= LONDON THEN SstoreResetGas(rev) + kAccessListStorageKeyCost ELSE kRSClear

\* The change of the refund counter when EIP-1283 applies: set_storage, from
\* the value when the transaction began, the present one and the new one.
RefundChange(rev, original, current, new) ==
    LET clears == SstoreClearsRefund(rev) IN
    IF original = current
    THEN IF original # Zero /\ new = Zero THEN clears ELSE 0
    ELSE (IF original # Zero /\ current = Zero THEN 0 - clears ELSE 0)
         + (IF original # Zero /\ new = Zero THEN clears ELSE 0)
         + (IF original # new THEN 0
            ELSE (IF original = Zero THEN kGSSet ELSE SstoreResetGas(rev)) - SloadCost(rev))

HostSetStorage(s, rev, a, k, new) ==
    LET obj      == ObjectOf(s, a)
        current  == CurrentValue(s.db, obj, s.storage[a], a, k)
        original == OriginalValue(s.db, obj, s.storage[a], a, k)
        refund   == IF Eip1283(rev) THEN RefundChange(rev, original, current, new)
                    ELSE IF current # Zero /\ new = Zero THEN kRSClear ELSE 0
    IN IF current = new THEN GetStorage(s, a, k, FALSE)
       ELSE [SetStorage(s, a, k, new) EXCEPT !.refund = (@ + refund) % UintMod]

\* Mutant: the account keeps what it pays out.
HostSelfdestructKeeping(s, a, beneficiary) ==
    AddToBalance(RecordSuicide(s, a), beneficiary, Balance(s, a))
HostSelfdestruct(s, a, beneficiary) ==
    SetBalance(AddToBalance(RecordSuicide(s, a), beneficiary, Balance(s, a)), a, 0)

HostAccessAccount(s, rev, a) == IF IsPrecompiled(a, rev) THEN s ELSE AccessAccount(s, a)

=============================================================================
