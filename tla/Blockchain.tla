----------------------------- MODULE Blockchain -----------------------------
(***************************************************************************)
(* Blockchain::insert_block (core/silkworm/chain/blockchain.cpp) over a    *)
(* MemoryBuffer: it unwinds the canonical chain down to the block's        *)
(* ancestor, executes the branch, and either makes it canonical or unwinds *)
(* it and executes the canonical blocks again.                             *)
(*                                                                         *)
(* A block is executed by the methods of IntraBlockState, called the way   *)
(* the EVM and ExecutionProcessor call them for the four transactions of   *)
(* WorldState.  What a header claims (gas and receipts, state root) is     *)
(* what WorldState computes on the block's chain, unless the block has the *)
(* defect of claiming something else.  State roots are compared as the     *)
(* states they are roots of.                                               *)
(***************************************************************************)
EXTENDS MemoryBuffer, SequencesExt

CONSTANTS
    Genesis,
    Beneficiary,      \* header.beneficiary
    Sender, ContractCode, Reward,
    Contents,         \* the transactions each block may have
    Defects,          \* the assignments of defects to blocks
    GenesisState      \* the buffers that the genesis state may be

VARIABLES
    buffer,       \* state_
    bad_blocks,   \* the keys of bad_blocks_
    txns,         \* the transactions of each block
    defect,       \* what is wrong with each block, if anything
    genesis       \* the genesis state

vars == <<buffer, bad_blocks, txns, defect, genesis>>

Reference == INSTANCE WorldState
Fork == INSTANCE ForkChoice WITH
    known <- buffer.blocks, chain <- buffer.canonical_hashes

\* What the state root is the root of.
World(b) ==
    [a \in Address |->
       LET account == b.accounts[a] IN
       IF account = None THEN None
       ELSE [nonce |-> account.nonce, balance |-> account.balance, code_hash |-> account.code_hash,
             storage |-> b.storage[a][account.incarnation]]]

-----------------------------------------------------------------------------
(***************************************************************************)
(* Executing a block.                                                      *)
(***************************************************************************)
HasCode(s, a) == CodeHash(s, a) \in (s.code \cup s.db.code) \ {EmptyHash}

\* EVM::create, called for a transaction.
Deploy(s, a) ==
    LET t == AccessAccount(SetNonce(s, Sender, Nonce(s, Sender) + 1), a)
        u == SubtractFromBalance(SetNonce(CreateContract(t, a), a, 1), Sender, 0)
    IN IF Nonce(t, a) # 0 \/ CodeHash(t, a) # EmptyHash THEN t
       ELSE SetCode(AddToBalance(u, a, 0), a, ContractCode)

\* EVM::call, up to the execution of the code.
Transfer(s, a, value) ==
    IF value = 0 /\ ~Exists(s, a) THEN s
    ELSE AddToBalance(SubtractFromBalance(s, Sender, value), a, value)

StoreNext(s, a) ==
    LET Store(k, t) == SetStorage(t, a, k, Reference!Successor(
                         CurrentValue(t.db, ObjectOf(t, a), t.storage[a], a, k)))
    IN FoldSet(Store, s, Key)

\* EvmHost::selfdestruct.
SelfDestruct(s, a) ==
    SetBalance(AddToBalance(RecordSuicide(s, a), Sender, Balance(s, a)), a, 0)

Run(s, txn) ==
    LET a == txn.to
        t == Transfer(SetNonce(AccessAccount(s, a), Sender, Nonce(s, Sender) + 1), a,
                      IF txn.type = "pay" THEN 1 ELSE 0)
    IN CASE txn.type = "deploy" -> Deploy(s, a)
         [] txn.type = "store" /\ HasCode(s, a) -> StoreNext(t, a)
         [] txn.type = "destruct" /\ HasCode(s, a) -> SelfDestruct(t, a)
         [] OTHER -> t

\* The receipt of a transaction that led from s to t.
Receipt(s, t, txn) ==
    LET a == txn.to IN
    CASE txn.type = "deploy" ->
           [success |-> Nonce(s, a) = 0 /\ CodeHash(s, a) = EmptyHash, logs |-> <<>>]
      [] txn.type = "store" /\ HasCode(s, a) ->
           [success |-> TRUE,
            logs |-> [k \in Key |-> CurrentValue(t.db, ObjectOf(t, a), t.storage[a], a, k)]]
      [] OTHER -> [success |-> TRUE, logs |-> <<>>]

EndTransaction(t) == FinalizeTransaction(DestructTouchedDead(DestructSuicides(t)))

\* x is what ExecutionProcessor::execute_block has got to: its state, the
\* receipts and whether all transactions were valid.
Executed(x, t, txn) ==
    [x EXCEPT !.state = EndTransaction(t), !.receipts = Append(@, Receipt(x.state, t, txn))]

ExecuteTransaction(x, txn) ==
    Executed(x, Run(AccessAccount(ClearJournalAndSubstate(x.state), Sender), txn), txn)

\* The nonces are the sender's from nonce on.
ValidateTransaction(s, txn, nonce) ==
    /\ Nonce(s, Sender) = nonce
    /\ Balance(s, Sender) >= IF txn.type = "pay" THEN 1 ELSE 0

\* The world after a block on its own chain, and the receipts of the block.
Claimed[h \in Block] ==
    IF h = Genesis THEN [world |-> World(genesis), receipts |-> <<>>]
    ELSE Reference!ApplyBlock(Claimed[Parent[h]].world, txns[h], Beneficiary[h])

\* ExecutionProcessor::execute_block, up to the rewards.
ExecuteTransactions(b, h) ==
    LET first == Claimed[Parent[h]].world[Sender].nonce
        Process(x, txn) ==
            IF x.ok /\ ValidateTransaction(x.state, txn, first + Len(x.receipts))
            THEN ExecuteTransaction(x, txn)
            ELSE [x EXCEPT !.ok = FALSE]
    IN FoldLeft(Process, [state |-> Fresh(b), receipts |-> <<>>, ok |-> TRUE], txns[h])

\* silkworm::execute_block, once the transactions were executed.
Processed(b, h, x) ==
    IF x.ok /\ defect[h] # "receipts" /\ x.receipts = Claimed[h].receipts
    THEN [buffer |-> WriteToDb(AddToBalance(x.state, Beneficiary[h], Reward), Number[h]), ok |-> TRUE]
    ELSE [buffer |-> b, ok |-> FALSE]

\* Mutant: the changes of a block with a wrong state root are kept.
RootCheckedOnly(r, h, check_state_root) ==
    IF /\ r.ok /\ check_state_root
       /\ defect[h] = "root" \/ World(r.buffer) # Claimed[h].world
    THEN [r EXCEPT !.ok = FALSE]
    ELSE r
\* Blockchain::execute_block, once the block was processed.
RootChecked(r, h, check_state_root) ==
    IF /\ r.ok /\ check_state_root
       /\ defect[h] = "root" \/ World(r.buffer) # Claimed[h].world
    THEN [buffer |-> UnwindStateChanges(r.buffer, Number[h]), ok |-> FALSE]
    ELSE r

ExecuteBlock(b, h, check_state_root) ==
    RootChecked(Processed(b, h, ExecuteTransactions(b, h)), h, check_state_root)

-----------------------------------------------------------------------------
(***************************************************************************)
(* Inserting a block.                                                      *)
(***************************************************************************)
CanonicalAncestor[h \in Block] ==
    IF CanonicalHash(buffer, Number[h]) = h THEN Number[h] ELSE CanonicalAncestor[Parent[h]]

UnwindLastChanges(b, ancestor, tip) ==
    FoldLeft(LAMBDA x, i : UnwindStateChanges(x, tip + 1 - i), b, [i \in 1 .. tip - ancestor |-> i])

ReExecuteCanonicalChain(b, ancestor, tip) ==
    FoldLeft(LAMBDA x, i : ExecuteBlock(x, CanonicalHash(b, ancestor + i), FALSE).buffer,
             b, [i \in 1 .. tip - ancestor |-> i])

\* Mutant: only the block itself.
BranchTip(h, ancestor) == <<h>>
\* intermediate_chain, with the block itself at its end.
Branch(h, ancestor) ==
    LET Path[g \in Block] ==
            IF Number[g] <= ancestor THEN <<>> ELSE Append(Path[Parent[g]], g)
    IN Path[h]

\* The branch, executed up to its first bad block.
Counted(x, r) ==
    [buffer |-> r.buffer, ok |-> r.ok, executed |-> x.executed + (IF r.ok THEN 1 ELSE 0)]
ExecuteBranch(b, branch, check_state_root) ==
    LET Execute(x, h) ==
            IF x.ok
            THEN Counted(x, ExecuteBlock(x.buffer, h, check_state_root))
            ELSE x
    IN FoldLeft(Execute, [buffer |-> b, ok |-> TRUE, executed |-> 0], branch)

Canonize(b, ancestor, branch) ==
    LET tip == CurrentCanonicalBlock(b)
        decanonized == FoldLeft(LAMBDA x, i : DecanonizeBlock(x, tip + 1 - i), b,
                                [i \in 1 .. tip - ancestor |-> i])
    IN FoldLeft(LAMBDA x, g : CanonizeBlock(x, Number[g], g), decanonized, branch)

Init ==
    /\ genesis \in GenesisState
    /\ buffer = CanonizeBlock(InsertBlock(genesis, Genesis), 0, Genesis)
    /\ bad_blocks = {}
    /\ txns \in {t \in [Block -> UNION {Contents[h] : h \in Block}] : \A h \in Block : t[h] \in Contents[h]}
    /\ defect \in Defects

\* pre_validate_block finds the block wanting, or the block is known as bad.
Reject(h) ==
    /\ Parent[h] \notin buffer.blocks \/ defect[h] = "header" \/ h \in bad_blocks
    /\ UNCHANGED vars

\* Mutant: a block as heavy as the canonical tip wins.
NotLighter(b, h) == b.difficulty[h] >= b.difficulty[Last(b.canonical_hashes)]
Heavier(b, h) == b.difficulty[h] > b.difficulty[Last(b.canonical_hashes)]

\* insert_block's decision, once the branch was executed.
Decide(h, ancestor, tip, branch, result) ==
    LET inserted == InsertBlock(result.buffer, h)
        heavier  == Heavier(inserted, h)
        Restored(b) ==
            ReExecuteCanonicalChain(UnwindLastChanges(b, ancestor, ancestor + result.executed),
                                    ancestor, tip)
    IN \/ /\ result.ok /\ heavier
          /\ buffer' = Canonize(inserted, ancestor, branch)
          /\ UNCHANGED bad_blocks
       \/ /\ ~result.ok \/ ~heavier
          /\ buffer' = Restored(IF result.ok THEN inserted ELSE result.buffer)
          /\ bad_blocks' = bad_blocks \cup (IF result.ok THEN {} ELSE {h})

\* The rest of insert_block.  Callers do not insert a canonical block again:
\* intermediate_chain would ask for a vector of -1 blocks.
Insert(h, check_state_root) ==
    LET ancestor == CanonicalAncestor[h]
        tip      == CurrentCanonicalBlock(buffer)
        branch   == Branch(h, ancestor)
    IN /\ Parent[h] \in buffer.blocks /\ defect[h] # "header" /\ h \notin bad_blocks
       /\ CanonicalHash(buffer, Number[h]) # h
       /\ Decide(h, ancestor, tip, branch,
                 ExecuteBranch(UnwindLastChanges(buffer, ancestor, tip), branch, check_state_root))
       /\ UNCHANGED <<txns, defect, genesis>>

\* Bound: the incarnations that one more insert_block may use up, when a block
\* deploys once: it executes a branch and executes the canonical one again.
IncarnationsLeft ==
    \A a \in Address :
      LET current == IF buffer.accounts[a] = None THEN 0 ELSE buffer.accounts[a].incarnation
      IN Max({current, buffer.incarnations[a]}) + 2 * Max(BlockNumber) <= MaxIncarnation

Next == \E h \in Block \ {Genesis} :
          \/ Reject(h)
          \/ IncarnationsLeft /\ \E check_state_root \in BOOLEAN : Insert(h, check_state_root)

Spec == Init /\ [][Next]_vars

-----------------------------------------------------------------------------
(***************************************************************************)
(* Correctness.                                                            *)
(***************************************************************************)

\* Whatever was inserted, accepted, rejected or undone before, the state is
\* the one that the canonical chain computes from genesis: unwinding the
\* change sets and executing again is exact, although incarnations and
\* previous incarnations are not unwound.
StateIsCanonical == World(buffer) = Claimed[Last(buffer.canonical_hashes)].world

\* Only a block with a defect on its branch is ever remembered as bad.
BadBlocksAreBad ==
    \A h \in bad_blocks : \E i \in 1 .. Len(Fork!PathTo[h]) : defect[Fork!PathTo[h][i]] # "none"

\* insert_block implements ForkChoice.
ForkSpec == Fork!Spec

\* Whenever an account holds no contract, previous_incarnation covers every
\* incarnation of which the buffer still holds storage (state/buffer.hpp:
\* "Previous non-zero incarnation of an account; 0 if none exists.").
PreviousIncarnationKnown ==
    \A a \in Address :
      buffer.accounts[a] = None \/ buffer.accounts[a].incarnation = 0 =>
        \A i \in Incarnation : (\E k \in Key : buffer.storage[a][i][k] # Zero)
                                 => i <= buffer.incarnations[a]
=============================================================================
