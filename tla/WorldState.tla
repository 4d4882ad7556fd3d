----------------------------- MODULE WorldState -----------------------------
(***************************************************************************)
(* What executing blocks is to compute: the world state of the Yellow      *)
(* Paper, a map from addresses to accounts with their storage, without     *)
(* incarnations, caches, journals and change sets.  A contract starts with *)
(* empty storage.                                                          *)
(*                                                                         *)
(* A transaction of Sender deploys the contract at an address, calls it to *)
(* move its slot on to the next value, calls it to destruct itself, or     *)
(* pays the address.  Its receipt tells whether it found what it needed,   *)
(* and the value it stored.                                                *)
(***************************************************************************)
EXTENDS Integers, SequencesExt

CONSTANTS Address, Key, Value, Zero, EmptyHash, None, UintMod,
          Sender,         \* the account that signs all transactions
          ContractCode,   \* the code hash of the deployed contract
          Reward          \* the reward of a block

\* The contract's slots go through the values in this order.
Successor(v) == (v + 1) % (1 + CHOOSE n \in Value : \A m \in Value : m <= n)

Untouched == [nonce |-> 0, balance |-> 0, code_hash |-> EmptyHash, storage |-> [k \in Key |-> Zero]]

AccountAt(w, a) == IF w[a] = None THEN Untouched ELSE w[a]
HasContract(w, a) == AccountAt(w, a).code_hash # EmptyHash
Collides(w, a) == HasContract(w, a) \/ AccountAt(w, a).nonce # 0

Credit(w, a, n) ==
    [w EXCEPT ![a] = [AccountAt(w, a) EXCEPT !.balance = (@ + n) % UintMod]]

\* The effect of a transaction on the world ...
Effect(w, txn) ==
    LET a == txn.to IN
    CASE txn.type = "deploy" /\ ~Collides(w, a) ->
           [w EXCEPT ![a] = [AccountAt(w, a) EXCEPT !.nonce = 1, !.code_hash = ContractCode,
                                                    !.storage = Untouched.storage]]
      [] txn.type = "store" /\ HasContract(w, a) ->
           [w EXCEPT ![a].storage = [k \in Key |-> Successor(@[k])]]
      [] txn.type = "destruct" /\ HasContract(w, a) ->
           [Credit(w, Sender, w[a].balance) EXCEPT ![a] = None]
      [] txn.type = "pay" -> Credit(Credit(w, Sender, -1), a, 1)
      [] OTHER -> w

\* ... and its receipt.
ReceiptOf(w, txn) ==
    LET a == txn.to IN
    CASE txn.type = "deploy" -> [success |-> ~Collides(w, a), logs |-> <<>>]
      [] txn.type = "store" /\ HasContract(w, a) ->
           [success |-> TRUE, logs |-> [k \in Key |-> Successor(w[a].storage[k])]]
      [] OTHER -> [success |-> TRUE, logs |-> <<>>]

\* A transaction uses up a nonce of its sender.
ApplyTransaction(x, txn) ==
    [world |-> Effect([x.world EXCEPT ![Sender].nonce = @ + 1], txn),
     receipts |-> Append(x.receipts, ReceiptOf(x.world, txn))]

\* The transactions of a block in order, then its reward.
ApplyBlock(w, txns, beneficiary) ==
    LET x == FoldLeft(ApplyTransaction, [world |-> w, receipts |-> <<>>], txns)
    IN [x EXCEPT !.world = Credit(@, beneficiary, Reward)]
=============================================================================
