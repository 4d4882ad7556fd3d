---------------------------- MODULE ChainConfig -----------------------------
(***************************************************************************)
(* The configuration of a chain (chain/config.cpp), the revision of the    *)
(* rules at a block, and the difficulty a block must have                  *)
(* (chain/difficulty.cpp).  The difficulty is an unsigned integer below    *)
(* kUint256, a timestamp one below kUint64: subtractions wrap.             *)
(***************************************************************************)
EXTENDS Integers

CONSTANTS None,
          kUint64, kUint256,    \* 2^64 and 2^256 in the code
          kMinDifficulty,
          kBombPeriod,          \* 100'000 in the code
          kBombDelay            \* the delays of the bomb, by fork

ASSUME ConfigAssumption ==
    /\ kUint64 \in Nat \ {0} /\ kUint256 \in Nat \ {0}
    /\ kMinDifficulty \in Nat
    /\ kBombPeriod \in Nat \ {0}
    /\ kBombDelay \in [{"byzantium", "constantinople", "muir_glacier", "london"} -> Nat]

\* evmc_revision, in the order of the forks; EVMC_FRONTIER is 0.
EVMC_HOMESTEAD == 1
EVMC_SPURIOUS_DRAGON == 3
EVMC_BYZANTIUM == 4
EVMC_CONSTANTINOPLE == 5
EVMC_ISTANBUL == 7
EVMC_BERLIN == 8
EVMC_LONDON == 9
EVMC_MAX_REVISION == 9

(* ------------------------------ Revision ------------------------------ *)

Reached(config, i, block_number) ==
    config.fork_blocks[i] # None /\ block_number >= config.fork_blocks[i]

\* The last fork reached, wherever the forks before it are.
Revision(config, block_number) ==
    CHOOSE r \in 0..EVMC_MAX_REVISION :
        /\ r = 0 \/ Reached(config, r, block_number)
        /\ \A i \in (r + 1)..EVMC_MAX_REVISION : ~Reached(config, i, block_number)

(* ----------------------------- As JSON -------------------------------- *)

\* A member is there only when it has a value; the seal engine is a member by its own name.
ToJson(config) ==
    LET engine == IF config.seal_engine = "kNoProof" THEN {} ELSE {config.seal_engine}
        forks == {i \in 1..EVMC_MAX_REVISION : config.fork_blocks[i] # None}
        named == {n \in {"muir_glacier_block", "dao_block"} : config[n] # None}
    IN [chainId |-> config.chain_id, engines |-> engine,
        forks |-> [i \in forks |-> config.fork_blocks[i]], named |-> [n \in named |-> config[n]]]

FromJson(json) ==
    LET member(f, x) == IF x \in DOMAIN f THEN f[x] ELSE None IN
    [chain_id |-> json.chainId,
     seal_engine |-> IF "kEthash" \in json.engines THEN "kEthash"
                     ELSE IF "kClique" \in json.engines THEN "kClique"
                     ELSE IF "kAuRA" \in json.engines THEN "kAuRA" ELSE "kNoProof",
     fork_blocks |-> [i \in 1..EVMC_MAX_REVISION |-> member(json.forks, i)],
     muir_glacier_block |-> member(json.named, "muir_glacier_block"),
     dao_block |-> member(json.named, "dao_block")]

(* ----------------------------- Difficulty ----------------------------- *)

DifficultyBomb(difficulty, block_number) ==
    LET n == block_number \div kBombPeriod
        bombed == IF n >= 2 THEN (difficulty + 2 ^ (n - 2)) % kUint256 ELSE difficulty
    IN IF bombed < kMinDifficulty THEN kMinDifficulty ELSE bombed

Elapsed(timestamp, parent_timestamp) == (timestamp - parent_timestamp) % kUint64

CanonicalDifficultyFrontier(block_number, elapsed, parent_difficulty) ==
    LET x == parent_difficulty \div 2048 IN
    DifficultyBomb((IF elapsed < 13 THEN parent_difficulty + x ELSE parent_difficulty - x) % kUint256,
                   block_number)

\* Mutant: late blocks lower the difficulty without bound.
AdjustedFreely(parent_difficulty, shares, periods) ==
    LET x == parent_difficulty \div 2048 IN
    (parent_difficulty + ((shares - periods - 99) * x)) % kUint256
\* The rules of Homestead and of Byzantium: lowered by 99 shares, raised by those of a quick block.
Adjusted(parent_difficulty, shares, periods) ==
    LET x == parent_difficulty \div 2048
        lowered == (parent_difficulty - (x * 99)) % kUint256
    IN IF shares > periods THEN (lowered + ((shares - periods) * x)) % kUint256 ELSE lowered

CanonicalDifficultyHomestead(block_number, elapsed, parent_difficulty) ==
    DifficultyBomb(Adjusted(parent_difficulty, 100, elapsed \div 10), block_number)

CanonicalDifficultyByzantium(block_number, elapsed, parent_difficulty, parent_has_uncles, bomb_delay) ==
    DifficultyBomb(
        Adjusted(parent_difficulty, 99 + (IF parent_has_uncles THEN 2 ELSE 1), elapsed \div 9),
        IF block_number > bomb_delay THEN block_number - bomb_delay ELSE 0)

BombDelay(config, rev, block_number) ==
    IF rev >= EVMC_LONDON THEN kBombDelay["london"]
    ELSE IF config.muir_glacier_block # None /\ block_number >= config.muir_glacier_block
         THEN kBombDelay["muir_glacier"]
    ELSE IF rev >= EVMC_CONSTANTINOPLE THEN kBombDelay["constantinople"] ELSE kBombDelay["byzantium"]

CanonicalDifficulty(block_number, elapsed, parent_difficulty, parent_has_uncles, config) ==
    LET rev == Revision(config, block_number) IN
    IF rev >= EVMC_BYZANTIUM
    THEN CanonicalDifficultyByzantium(block_number, elapsed, parent_difficulty, parent_has_uncles,
                                      BombDelay(config, rev, block_number))
    ELSE IF rev >= EVMC_HOMESTEAD
    THEN CanonicalDifficultyHomestead(block_number, elapsed, parent_difficulty)
    ELSE CanonicalDifficultyFrontier(block_number, elapsed, parent_difficulty)
=============================================================================
