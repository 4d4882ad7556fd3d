--------------------------- MODULE MC_ChainRules ----------------------------
(***************************************************************************)
(* Chains whose forks come within the first blocks, with the bomb of a     *)
(* difficulty that grows with every block.                                 *)
(***************************************************************************)
EXTENDS ChainRules

Forks(f) == [i \in 1..EVMC_MAX_REVISION |-> IF i \in DOMAIN f THEN f[i] ELSE None]

\* Every fork in turn; none but Frontier; forks skipped, and the delay of Muir Glacier.
MCConfigs ==
    {[genesis_difficulty |-> kMinDifficulty + 2048, chain_id |-> 1,
      seal_engine |-> "kEthash", muir_glacier_block |-> None, dao_block |-> 1,
      fork_blocks |-> Forks(<<1, 2, 2, 2, 3, 3, 3, 3, 4>>)],
     [genesis_difficulty |-> kMinDifficulty + 1, chain_id |-> 1,
      seal_engine |-> "kNoProof", muir_glacier_block |-> None, dao_block |-> None,
      fork_blocks |-> Forks(<<>>)],
     [genesis_difficulty |-> 4 * kMinDifficulty, chain_id |-> 1,
      seal_engine |-> "kClique", muir_glacier_block |-> 2, dao_block |-> 2,
      fork_blocks |-> [Forks(<<0, 0, 0, 0>>) EXCEPT ![EVMC_BERLIN] = 3]]}

MCBombDelay == [byzantium |-> 1, constantinople |-> 2, muir_glacier |-> 2, london |-> 3]

Txn == [chain_id |-> None, type |-> None, r |-> 1, s |-> 1, gas_limit |-> 21000, to |-> "a", non_zero_bytes |-> 0]

MCTransactions ==
    {Txn,
     [Txn EXCEPT !.chain_id = 1], [Txn EXCEPT !.chain_id = 2],
     [Txn EXCEPT !.type = 1], [Txn EXCEPT !.type = 2],
     [Txn EXCEPT !.r = 0], [Txn EXCEPT !.s = 0], [Txn EXCEPT !.r = 11, !.s = 11], [Txn EXCEPT !.r = 11],
     [Txn EXCEPT !.s = 5], [Txn EXCEPT !.s = 6],
     [Txn EXCEPT !.gas_limit = 20999], [Txn EXCEPT !.to = None], [Txn EXCEPT !.to = None, !.gas_limit = 53000],
     [Txn EXCEPT !.non_zero_bytes = 2, !.gas_limit = 21032]}
=============================================================================
