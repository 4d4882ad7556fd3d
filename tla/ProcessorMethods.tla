-------------------------- MODULE ProcessorMethods --------------------------
(***************************************************************************)
(* What ExecutionProcessor (core/silkworm/execution/processor.cpp) does    *)
(* whatever the block has come to: the transactions and the gas that they  *)
(* cost before they run (chain/intrinsic_gas.cpp), the loop over an access *)
(* list and the transfer of the DAO fork (chain/dao.cpp).                  *)
(***************************************************************************)
EXTENDS Evm, FiniteSets

CONSTANTS
    DaoChildren,    \* dao::kChildren, in order
    DaoWithdraw     \* dao::kWithdraw

ASSUME DaoAssumption == DaoWithdraw \in Address /\ DaoChildren \in Seq(Address)

\* An access list names accounts (key None) and keys, in the order in which
\* execute_transaction goes through them.
Transaction == [from: Address, to: Address \cup {None}, value: Nat, gas_limit: Nat, gas_price: Nat,
                nonce: Nat, access_list: Seq([account: Address, key: Key \cup {None}]),
                zero_bytes: Nat, non_zero_bytes: Nat]

-----------------------------------------------------------------------------
\* dao::transfer_balances.
TransferBalances(t) ==
    LET n == Len(DaoChildren)
        moved[i \in 0 .. n] ==
          IF i = 0 THEN t
          ELSE LET u == moved[i - 1] a == DaoChildren[i]
               IN SetBalance(AddToBalance(u, DaoWithdraw, Balance(u, a)), a, 0)
    IN moved[n]

\* The positions of the accounts and of the keys in an access list.
ListedAccounts(list) == {i \in DOMAIN list : list[i].key = None}
ListedKeys(list) == {i \in DOMAIN list : list[i].key # None}

IntrinsicGas(t, r) ==
    kGTransaction
      + (IF t.to = None /\ r >= HOMESTEAD THEN kGTxCreate ELSE 0)
      + Cardinality(ListedAccounts(t.access_list)) * kAccessListAddressCost
      + Cardinality(ListedKeys(t.access_list)) * kAccessListStorageKeyCost
      + t.non_zero_bytes * (IF r >= ISTANBUL THEN kGTxDataNonZeroIstanbul ELSE kGTxDataNonZeroFrontier)
      + t.zero_bytes * kGTxDataZero

\* The loop of execute_transaction over the access list.
Warmed(t, list) ==
    LET n == Len(list)
        warm[i \in 0 .. n] ==
          IF i = 0 THEN t
          ELSE IF list[i].key = None THEN AccessAccount(warm[i - 1], list[i].account)
          ELSE AccessStorage(warm[i - 1], list[i].account, list[i].key)
    IN warm[n]

\* The gas of the running frames.
SumGas(fs) ==
    LET sum[i \in 0 .. Len(fs)] == IF i = 0 THEN 0 ELSE sum[i - 1] + fs[i].gas
    IN sum[Len(fs)]

=============================================================================
