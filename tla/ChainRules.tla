----------------------------- MODULE ChainRules -----------------------------
(***************************************************************************)
(* What makes a block valid before it is executed (chain/validity.cpp):    *)
(* header, ommers and transactions are checked against the blocks known,   *)
(* and a block that passes joins them.  A hash is what it is the hash of:  *)
(* a header stands for its own hash, the ommers for theirs.                *)
(***************************************************************************)
EXTENDS ChainConfig, Sequences, FiniteSets

CONSTANTS Configs,            \* configurations
          Gaps,               \* seconds between a block and its parent
          EdgeGaps,           \* the same, where the difficulty turns
          Transactions,       \* what a block may hold
          kOmmerGenerations,  \* 6 in the code
          kMaxGasLimit,       \* 2^63 - 1 in the code
          kSecp256k1n,
          MaxBlocks

VARIABLES intended,   \* the configuration the chain was set up with
          config,     \* the one that was stored as JSON and read again
          known,      \* the blocks that were accepted
          block,      \* the block last proposed
          result      \* and the verdict on it

vars == <<intended, config, known, block, result>>

Headers == {b.header : b \in known}
\* The state finds a header by its number and its hash.
ReadHeader(number, hash) == IF hash \in Headers /\ hash.number = number THEN hash ELSE None
ReadBody(number, hash) ==
    IF ReadHeader(number, hash) = None THEN None ELSE CHOOSE b \in known : b.header = hash
GetParent(header) == ReadHeader((header.number - 1) % kUint64, header.parent_hash)

kEmptyList == <<>>
kDaoExtraData == "dao-hard-fork"

(* ---------------------------- Transactions ---------------------------- *)

\* Both r and s must be out of range to be refused for it.
IsValidSignature(r, s, homestead) ==
    /\ r # 0 /\ s # 0
    /\ ~(r >= kSecp256k1n /\ s >= kSecp256k1n)
    /\ ~(homestead /\ s > kSecp256k1n \div 2)

PreValidateTransaction(txn, block_number) ==
    LET rev == Revision(config, block_number) IN
    IF txn.chain_id # None /\ (rev < EVMC_SPURIOUS_DRAGON \/ txn.chain_id # config.chain_id)
    THEN "kWrongChainId"
    ELSE IF txn.type # None /\ (rev < EVMC_BERLIN \/ txn.type # 1) THEN "kUnsupportedEip2718Type"
    ELSE IF ~IsValidSignature(txn.r, txn.s, rev >= EVMC_HOMESTEAD) THEN "kInvalidSignature"
    ELSE IF txn.gas_limit < 21000 + (IF txn.to = None /\ rev >= EVMC_HOMESTEAD THEN 32000 ELSE 0)
                              + (txn.non_zero_bytes * (IF rev >= EVMC_ISTANBUL THEN 16 ELSE 68))
    THEN "kIntrinsicGas"
    ELSE "kOk"

(* ------------------------------- Header ------------------------------- *)

IsDaoBlock(number) == config.dao_block # None /\ number \in config.dao_block..(config.dao_block + 9)

AgainstParent(header, parent) ==
    LET difficulty == CanonicalDifficulty(header.number, Elapsed(header.timestamp, parent.timestamp),
                                          parent.difficulty, parent.ommers_hash # kEmptyList, config)
        delta == IF header.gas_limit > parent.gas_limit THEN header.gas_limit - parent.gas_limit
                 ELSE parent.gas_limit - header.gas_limit
    IN IF header.timestamp <= parent.timestamp THEN "kInvalidTimestamp"
       ELSE IF delta >= parent.gas_limit \div 1024 THEN "kInvalidGasLimit"
       ELSE IF difficulty # header.difficulty THEN "kWrongDifficulty"
       ELSE IF IsDaoBlock(header.number) /\ header.extra_data # kDaoExtraData THEN "kWrongDaoExtraData"
       ELSE IF config.seal_engine = "kEthash" /\ ~header.sealed THEN "kInvalidSeal"
       ELSE "kOk"

ValidateBlockHeader(header) ==
    IF header.gas_used > header.gas_limit THEN "kGasAboveLimit"
    ELSE IF header.gas_limit < 5000 \/ header.gas_limit > kMaxGasLimit THEN "kInvalidGasLimit"
    ELSE IF header.extra_data = "long" THEN "kExtraDataTooLong"
    ELSE IF GetParent(header) = None THEN "kUnknownParent"
    ELSE AgainstParent(header, GetParent(header))

(* ------------------------------- Ommers ------------------------------- *)

\* Mutant: the ommers of the blocks on the way are not collected.
OldOmmersNone(body) == {}
OldOmmers(body) == {body.ommers[i] : i \in DOMAIN body.ommers}

MayBeKin(branch_header, mainline_header, n) == n # 0 /\ branch_header # mainline_header

\* Whether the branch is an ommer, with the ommers of the mainline blocks passed on the way.
RECURSIVE IsKin(_, _, _, _)
IsKin(branch_header, mainline_header, n, old_ommers) ==
    LET body == ReadBody(mainline_header.number, mainline_header)
        collected == old_ommers \cup OldOmmers(body)
        mainline_parent == GetParent(mainline_header)
    IN IF ~MayBeKin(branch_header, mainline_header, n) \/ body = None
       THEN [kin |-> FALSE, old_ommers |-> old_ommers]
       ELSE IF mainline_parent = None THEN [kin |-> FALSE, old_ommers |-> collected]
       ELSE IF GetParent(branch_header) = mainline_parent THEN [kin |-> TRUE, old_ommers |-> collected]
       ELSE IsKin(branch_header, mainline_parent, n - 1, collected)

CheckOmmer(ommer, parent) ==
    LET kin == IsKin(ommer, parent, kOmmerGenerations, {}) IN
    IF ValidateBlockHeader(ommer) # "kOk" THEN "kInvalidOmmerHeader"
    ELSE IF ~kin.kin THEN "kNotAnOmmer"
    ELSE IF ommer \in kin.old_ommers THEN "kDuplicateOmmer"
    ELSE "kOk"

(* ------------------------------- Block -------------------------------- *)

\* The first of the verdicts that is not kOk.
FirstError(verdicts) ==
    IF \A i \in DOMAIN verdicts : verdicts[i] = "kOk" THEN "kOk"
    ELSE verdicts[CHOOSE i \in DOMAIN verdicts :
                     verdicts[i] # "kOk" /\ \A j \in 1..(i - 1) : verdicts[j] = "kOk"]

PreValidateBlock(b) ==
    LET header == ValidateBlockHeader(b.header)
        n == Len(b.ommers)
    IN IF header # "kOk" THEN header
       ELSE IF b.ommers # b.header.ommers_hash THEN "kWrongOmmersHash"
       ELSE IF b.transactions # b.header.transactions_root THEN "kWrongTransactionsRoot"
       ELSE IF n > 2 THEN "kTooManyOmmers"
       ELSE IF n = 2 /\ b.ommers[1] = b.ommers[2] THEN "kDuplicateOmmer"
       ELSE FirstError([i \in 1..n |-> CheckOmmer(b.ommers[i], GetParent(b.header))]
                         \o [i \in 1..Len(b.transactions) |->
                               PreValidateTransaction(b.transactions[i], b.header.number)])

(* ------------------ The rules, as they are meant to be ----------------- *)

Active(fork, number) ==
    \E i \in fork..EVMC_MAX_REVISION :
        intended.fork_blocks[i] # None /\ number >= intended.fork_blocks[i]

Larger(a, b) == IF a > b THEN a ELSE b

\* max(D0, P + x * s + e) of the Yellow Paper, over the integers.
RuleDifficulty(number, gap, parent) ==
    LET n == intended.muir_glacier_block
        delay == IF Active(EVMC_LONDON, number) THEN kBombDelay["london"]
                 ELSE IF n # None /\ number >= n THEN kBombDelay["muir_glacier"]
                 ELSE IF Active(EVMC_CONSTANTINOPLE, number) THEN kBombDelay["constantinople"]
                 ELSE kBombDelay["byzantium"]
        y == IF parent.ommers_hash = <<>> THEN 1 ELSE 2
        sigma == IF Active(EVMC_BYZANTIUM, number) THEN Larger(y - (gap \div 9), -99)
                 ELSE IF Active(EVMC_HOMESTEAD, number) THEN Larger(1 - (gap \div 10), -99)
                 ELSE IF gap < 13 THEN 1 ELSE -1
        fake == IF Active(EVMC_BYZANTIUM, number) THEN Larger(number - delay, 0) ELSE number
        e == fake \div kBombPeriod
    IN Larger(kMinDifficulty,
              parent.difficulty + ((parent.difficulty \div 2048) * sigma) + (IF e < 2 THEN 0 ELSE 2 ^ (e - 2)))

InDaoRange(number) == intended.dao_block # None /\ number - intended.dao_block \in 0..9

RuleTransaction(txn, number) ==
    /\ txn.chain_id # None => Active(EVMC_SPURIOUS_DRAGON, number) /\ txn.chain_id = intended.chain_id
    /\ txn.type # None => Active(EVMC_BERLIN, number) /\ txn.type = 1
    /\ txn.r > 0 /\ txn.s > 0 /\ (txn.r < kSecp256k1n \/ txn.s < kSecp256k1n)
    /\ Active(EVMC_HOMESTEAD, number) => 2 * txn.s <= kSecp256k1n
    /\ txn.gas_limit - (txn.non_zero_bytes * (IF Active(EVMC_ISTANBUL, number) THEN 16 ELSE 68))
          >= IF txn.to = None /\ Active(EVMC_HOMESTEAD, number) THEN 53000 ELSE 21000

RECURSIVE Ancestors(_)
Ancestors(header) ==
    IF header.parent_hash = None THEN {} ELSE {header.parent_hash} \cup Ancestors(header.parent_hash)

BodyOf(header) == CHOOSE b \in known : b.header = header

RuleOmmer(ommer, header) ==
    /\ ommer.parent_hash \in Ancestors(header)
    /\ ommer.number \in (header.number - kOmmerGenerations)..(header.number - 1)
    /\ ommer \notin Ancestors(header)
    /\ \A a \in Ancestors(header), i \in 1..2 :
          i \in DOMAIN BodyOf(a).ommers => ommer # BodyOf(a).ommers[i]

(* ------------------------------- Steps -------------------------------- *)

GenesisHeader ==
    [number |-> 0, parent_hash |-> None, timestamp |-> 0, difficulty |-> intended.genesis_difficulty,
     gas_limit |-> 8192, gas_used |-> 0, extra_data |-> "", sealed |-> FALSE,
     ommers_hash |-> <<>>, transactions_root |-> <<>>]

NewHeader(parent, gap, ommers, txns) ==
    [number |-> parent.number + 1, parent_hash |-> parent, timestamp |-> parent.timestamp + gap,
     difficulty |-> RuleDifficulty(parent.number + 1, gap, parent),
     gas_limit |-> parent.gas_limit, gas_used |-> 0,
     extra_data |-> IF InDaoRange(parent.number + 1) THEN kDaoExtraData ELSE "",
     sealed |-> TRUE, ommers_hash |-> ommers, transactions_root |-> txns]

NewBlock(parent, gap, ommers, txns) ==
    [header |-> NewHeader(parent, gap, ommers, txns), ommers |-> ommers, transactions |-> txns, fault |-> "none"]

\* One thing about a header may be wrong, or nothing.
Faults(h) ==
    [nothing |-> h,
     gas_used |-> [h EXCEPT !.gas_used = h.gas_limit + 1],
     gas_low |-> [h EXCEPT !.gas_limit = 4999],
     gas_high |-> [h EXCEPT !.gas_limit = kMaxGasLimit + 1],
     gas_step |-> [h EXCEPT !.gas_limit = @ + (@ \div 1024)],
     gas_edge |-> [h EXCEPT !.gas_limit = @ - (@ \div 1024) + 1],
     extra |-> [h EXCEPT !.extra_data = "long"],
     number |-> [h EXCEPT !.number = @ + 1],
     time |-> [h EXCEPT !.timestamp = h.parent_hash.timestamp],
     difficulty |-> [h EXCEPT !.difficulty = @ + 1],
     dao |-> [h EXCEPT !.extra_data = IF @ = kDaoExtraData THEN "" ELSE kDaoExtraData],
     seal |-> [h EXCEPT !.sealed = FALSE],
     ommers |-> [h EXCEPT !.ommers_hash = <<h.parent_hash>>],
     transactions |-> [h EXCEPT !.transactions_root = <<"other">>]]

Harmless(fault, h) ==
    \/ fault \in {"none", "nothing", "gas_edge"}
    \/ fault = "dao" /\ ~InDaoRange(h.number)
    \/ fault = "seal" /\ intended.seal_engine # "kEthash"

Init ==
    /\ intended \in Configs
    /\ config = FromJson(ToJson(intended))
    /\ known = {[header |-> GenesisHeader, ommers |-> <<>>, transactions |-> <<>>, fault |-> "none"]}
    /\ block = None
    /\ result = None

\* insert_block: a block that passes is executed, which module Blockchain is about, and stored.
Validate(b) ==
    /\ block' = b
    /\ result' = PreValidateBlock(b)
    /\ known' = IF result' = "kOk" THEN known \cup {b} ELSE known
    /\ UNCHANGED <<intended, config>>

\* Bound: nothing follows a block with a transaction or with a fault that is none.
Plain == \A b \in known : b.transactions = <<>> /\ b.fault = "none"

ProposeEmpty ==
    /\ Plain /\ Cardinality(known) < MaxBlocks
    /\ \E parent \in Headers, gap \in Gaps : Validate(NewBlock(parent, gap, <<>>, <<>>))

\* Any header is tried as an ommer, and any two of a generation.
ProposeOmmers ==
    /\ Plain /\ Cardinality(known) \in 3..MaxBlocks
    /\ \E parent \in Headers, o1 \in Headers :
          \E o2 \in {None} \cup {o \in Headers : o.number = o1.number} :
             Validate(NewBlock(parent, 1, IF o2 = None THEN <<o1>> ELSE <<o1, o2>>, <<>>))

ProposeTransaction ==
    /\ Plain /\ Cardinality(known) <= 3
    /\ \E parent \in Headers, t \in Transactions : Validate(NewBlock(parent, 1, <<>>, <<t>>))

ProposeFaulty ==
    /\ Plain /\ Cardinality(known) <= 2
    /\ \E parent \in Headers, gap \in Gaps \cup EdgeGaps :
          LET b == NewBlock(parent, gap, <<>>, <<>>) IN
          \E f \in DOMAIN Faults(b.header) : Validate([b EXCEPT !.header = Faults(b.header)[f], !.fault = f])

Next == ProposeEmpty \/ ProposeOmmers \/ ProposeTransaction \/ ProposeFaulty

Spec == Init /\ [][Next]_vars

-----------------------------------------------------------------------------

RulesAllow(b) ==
    /\ Harmless(b.fault, b.header)
    /\ \A i \in DOMAIN b.ommers : RuleOmmer(b.ommers[i], b.header)
    /\ Len(b.ommers) = 2 => b.ommers[1] # b.ommers[2]
    /\ \A i \in DOMAIN b.transactions : RuleTransaction(b.transactions[i], b.header.number)

\* pre_validate_block, with the configuration as it came back from the database, lets through
\* exactly the blocks that follow the rules: headers at the edge of the gas limit, in the first and
\* in the tenth block of the DAO fork, with the difficulty at every fork and delay of the bomb;
\* ommers that are children of a near ancestor, neither ancestors nor ommers of one; transactions
\* by the rules of the forks that their own block has reached.  (That r alone is out of range is
\* not refused here.)
VerdictsFollowTheRules == block # None => (result = "kOk" <=> RulesAllow(block))

\* Whatever the order in which forks of the chain arrive, no chain that was accepted rewards the
\* same ommer twice, nor one of its own blocks as an ommer.
NoOmmerIsRewardedTwice ==
    \A b \in known, c \in known :
        (b.header \in Ancestors(c.header) \/ b = c) =>
            \A i \in DOMAIN b.ommers, j \in DOMAIN c.ommers :
                /\ (b # c \/ i # j) => b.ommers[i] # c.ommers[j]
                /\ c.ommers[j] \notin Ancestors(c.header)
=============================================================================
