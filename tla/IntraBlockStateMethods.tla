----------------------- MODULE IntraBlockStateMethods -----------------------
(***************************************************************************)
(* The journalled in-memory state that the EVM works on while a block is   *)
(* executed (core/silkworm/state/intra_block_state.*, delta.*, object.hpp):*)
(* its data and its methods, as operators.                                 *)
(*                                                                         *)
(* The C++ object is a record s, one field per data member; a hash map is  *)
(* a total function that yields None where the map has no entry.  Every    *)
(* mutating method is an operator from the record to the record, composed  *)
(* the way the method calls its helpers.  The field db is the StateBuffer  *)
(* underneath, which the methods only read.  The field "before" of a       *)
(* journal entry is auxiliary: the observable state when it was appended.  *)
(***************************************************************************)
EXTENDS Integers, Sequences

CONSTANTS
    Address, Key, Value, Code,
    Zero,            \* the storage value 0
    EmptyHash,       \* kEmptyHash, the code hash of an account without code
    Ripemd,          \* kRipemdAddress
    None,            \* std::nullopt / no entry
    UintMod,         \* balances and the refund counter wrap at UintMod
    MaxIncarnation

-----------------------------------------------------------------------------
Incarnation == 0 .. MaxIncarnation
Uint == 0 .. UintMod - 1

Account == [nonce: Nat, balance: Uint, code_hash: Code, incarnation: Incarnation]
EmptyAccount == [nonce |-> 0, balance |-> 0, code_hash |-> EmptyHash, incarnation |-> 0]

Object == [initial: Account \cup {None}, current: Account \cup {None}]

CommittedValue == [initial: Value, original: Value]
Storage == [committed: [Key -> CommittedValue \cup {None}],
            current: [Key -> Value \cup {None}]]
EmptyStorage == [committed |-> [k \in Key |-> None], current |-> [k \in Key |-> None]]

StateBuffer == [accounts: [Address -> Account \cup {None}],
                storage: [Address -> [Incarnation -> [Key -> Value]]],
                incarnations: [Address -> Incarnation]]

\* The subclasses of state::Delta.
CreateDelta(a)              == [type |-> "Create", address |-> a]
UpdateDelta(a, obj)         == [type |-> "Update", address |-> a, previous |-> obj]
SuicideDelta(a)             == [type |-> "Suicide", address |-> a]
TouchDelta(a)               == [type |-> "Touch", address |-> a]
StorageChangeDelta(a, k, v) == [type |-> "StorageChange", address |-> a, key |-> k, previous |-> v]
\* Mutant: the wiped slots are not kept.
StorageWipeDeltaLossy(a, sto) == [type |-> "StorageWipe", address |-> a, previous |-> EmptyStorage]
StorageWipeDelta(a, sto)    == [type |-> "StorageWipe", address |-> a, previous |-> sto]
StorageCreateDelta(a)       == [type |-> "StorageCreate", address |-> a]
StorageAccessDelta(a, k)    == [type |-> "StorageAccess", address |-> a, key |-> k]
AccountAccessDelta(a)       == [type |-> "AccountAccess", address |-> a]

Delta ==
    [type: {"Create", "Suicide", "Touch", "StorageCreate", "AccountAccess"}, address: Address]
      \cup [type: {"Update"}, address: Address, previous: Object]
      \cup [type: {"StorageChange"}, address: Address, key: Key, previous: Value]
      \cup [type: {"StorageWipe"}, address: Address, previous: Storage]
      \cup [type: {"StorageAccess"}, address: Address, key: Key]

-----------------------------------------------------------------------------
(***************************************************************************)
(* What the readers return, as functions of an Object, a Storage and db.   *)
(***************************************************************************)

\* The object get_object finds or would load from db.
ObjectOf(s, a) ==
    IF s.objects[a] # None THEN s.objects[a]
    ELSE IF s.db.accounts[a] = None THEN None
    ELSE [initial |-> s.db.accounts[a], current |-> s.db.accounts[a]]

Alive(obj) == obj # None /\ obj.current # None

\* The account's storage in db is the storage of its current incarnation.
SameIncarnation(obj) ==
    obj.initial # None /\ obj.initial.incarnation = obj.current.incarnation

\* get_storage with original = true ...
OriginalValue(db, obj, sto, a, k) ==
    IF ~Alive(obj) THEN Zero
    ELSE IF sto # None /\ sto.committed[k] # None THEN sto.committed[k].original
    ELSE IF SameIncarnation(obj) THEN db.storage[a][obj.current.incarnation][k]
    ELSE Zero

\* ... and with original = false.
CurrentValue(db, obj, sto, a, k) ==
    IF Alive(obj) /\ sto # None /\ sto.current[k] # None THEN sto.current[k]
    ELSE OriginalValue(db, obj, sto, a, k)

Slots(db, obj, sto, a) ==
    [k \in Key |-> [current |-> CurrentValue(db, obj, sto, a, k),
                    original |-> OriginalValue(db, obj, sto, a, k)]]

\* What a transaction can observe, logs and refund apart.  RIPEMD-160's
\* touch is left out: it survives a revert on purpose.
View(s) == [objects |-> [a \in Address |-> ObjectOf(s, a)],
            slots |-> [a \in Address |-> Slots(s.db, ObjectOf(s, a), s.storage[a], a)],
            self_destructs |-> s.self_destructs,
            touched |-> s.touched \ {Ripemd},
            accessed_addresses |-> s.accessed_addresses,
            accessed_storage_keys |-> s.accessed_storage_keys]

Observable(s) == [view |-> View(s), logs |-> s.logs, refund |-> s.refund]

Exists(s, a) == Alive(ObjectOf(s, a))
Balance(s, a) == IF Exists(s, a) THEN ObjectOf(s, a).current.balance ELSE 0
Nonce(s, a) == IF Exists(s, a) THEN ObjectOf(s, a).current.nonce ELSE 0
CodeHash(s, a) == IF Exists(s, a) THEN ObjectOf(s, a).current.code_hash ELSE EmptyHash
IncarnationOf(s, a) == IF Exists(s, a) THEN ObjectOf(s, a).current.incarnation ELSE 0
IsDead(s, a) == CodeHash(s, a) = EmptyHash /\ Nonce(s, a) = 0 /\ Balance(s, a) = 0

-----------------------------------------------------------------------------
(***************************************************************************)
(* The methods, from record to record.                                     *)
(***************************************************************************)
GetObject(s, a) == [s EXCEPT !.objects[a] = ObjectOf(s, a)]

Journalled(s, delta) ==
    [s EXCEPT !.journal = Append(@, [delta |-> delta, before |-> View(s)])]

GetOrCreateObject(s, a) ==
    LET t == GetObject(s, a) IN
    IF t.objects[a] = None
    THEN [Journalled(t, CreateDelta(a)) EXCEPT
            !.objects[a] = [initial |-> None, current |-> EmptyAccount]]
    ELSE IF t.objects[a].current = None
    THEN [Journalled(t, UpdateDelta(a, t.objects[a])) EXCEPT
            !.objects[a].current = EmptyAccount]
    ELSE t

\* What set_balance, set_nonce and set_code do once the object exists.
SetCurrent(s, a, account) ==
    [Journalled(s, UpdateDelta(a, s.objects[a])) EXCEPT !.objects[a].current = account]

\* Mutant: RIPEMD-160 gets no special treatment.
TouchJournalled(s, a) ==
    [(IF a \in s.touched THEN s ELSE Journalled(s, TouchDelta(a))) EXCEPT !.touched = @ \cup {a}]
Touch(s, a) ==
    LET t == IF a \in s.touched \/ a = Ripemd THEN s ELSE Journalled(s, TouchDelta(a))
    IN [t EXCEPT !.touched = @ \cup {a}]

SetBalance(s, a, balance) ==
    LET t == GetOrCreateObject(s, a)
    IN Touch(SetCurrent(t, a, [t.objects[a].current EXCEPT !.balance = balance]), a)

AddToBalance(s, a, addend) == SetBalance(s, a, (Balance(s, a) + addend) % UintMod)

SubtractFromBalance(s, a, subtrahend) == SetBalance(s, a, (Balance(s, a) - subtrahend) % UintMod)

SetNonce(s, a, nonce) ==
    LET t == GetOrCreateObject(s, a)
    IN SetCurrent(t, a, [t.objects[a].current EXCEPT !.nonce = nonce])

\* Mutant: the bytes of the code are not kept.
SetCodeHashOnly(s, a, hash) ==
    LET t == GetOrCreateObject(s, a)
    IN SetCurrent(t, a, [t.objects[a].current EXCEPT !.code_hash = hash])

SetCode(s, a, hash) ==
    LET t == GetOrCreateObject(s, a)
    IN [SetCurrent(t, a, [t.objects[a].current EXCEPT !.code_hash = hash]) EXCEPT
          !.code = @ \cup {hash}]

GetCode(s, a) ==
    LET t == GetObject(s, a)
    IN [t EXCEPT !.code = @ \cup ({CodeHash(s, a)} \ {EmptyHash})]

PrevIncarnation(s, a) ==
    LET prev == ObjectOf(s, a)
        inc  == IF prev = None THEN 0
                ELSE IF prev.current # None THEN prev.current.incarnation
                ELSE IF prev.initial # None THEN prev.initial.incarnation
                ELSE 0
    IN IF inc = 0 THEN s.db.incarnations[a] ELSE inc

CreateContract(s, a) ==
    LET prev    == ObjectOf(s, a)
        created == [initial |-> IF prev = None THEN None ELSE prev.initial,
                    current |-> [EmptyAccount EXCEPT !.balance = Balance(s, a),
                                                     !.incarnation = PrevIncarnation(s, a) + 1]]
        t == [Journalled(GetObject(s, a),
                         IF prev = None THEN CreateDelta(a) ELSE UpdateDelta(a, prev))
                EXCEPT !.objects[a] = created]
        u == Journalled(t, IF t.storage[a] = None THEN StorageCreateDelta(a)
                           ELSE StorageWipeDelta(a, t.storage[a]))
    IN [u EXCEPT !.storage[a] = None]

RecordSuicide(s, a) ==
    IF a \in s.self_destructs THEN s
    ELSE [Journalled(s, SuicideDelta(a)) EXCEPT !.self_destructs = @ \cup {a}]

AccessAccount(s, a) ==
    IF a \in s.accessed_addresses THEN s
    ELSE [Journalled(s, AccountAccessDelta(a)) EXCEPT !.accessed_addresses = @ \cup {a}]

AccessStorage(s, a, k) ==
    IF <<a, k>> \in s.accessed_storage_keys THEN s
    ELSE [Journalled(s, StorageAccessDelta(a, k)) EXCEPT
            !.accessed_storage_keys = @ \cup {<<a, k>>}]

\* get_storage, for what it caches in storage_.
GetStorage(s, a, k, original) ==
    LET t   == GetObject(s, a)
        obj == t.objects[a]
        sto == IF t.storage[a] = None THEN EmptyStorage ELSE t.storage[a]
        val == OriginalValue(s.db, obj, sto, a, k)
        hit == \/ ~original /\ sto.current[k] # None
               \/ sto.committed[k] # None
               \/ ~SameIncarnation(obj)
    IN IF ~Alive(obj) THEN t
       ELSE IF hit THEN [t EXCEPT !.storage[a] = sto]
       ELSE [t EXCEPT !.storage[a] =
               [sto EXCEPT !.committed[k] = [initial |-> val, original |-> val]]]

SetStorage(s, a, k, value) ==
    LET t    == GetStorage(s, a, k, FALSE)
        prev == CurrentValue(s.db, t.objects[a], t.storage[a], a, k)
    IN IF prev = value THEN t
       ELSE [Journalled(t, StorageChangeDelta(a, k, prev)) EXCEPT
               !.storage[a].current[k] = value]

\* Delta::revert.
Revert(s, d) ==
    CASE d.type = "Create"        -> [s EXCEPT !.objects[d.address] = None]
      [] d.type = "Update"        -> [s EXCEPT !.objects[d.address] = d.previous]
      [] d.type = "Suicide"       -> [s EXCEPT !.self_destructs = @ \ {d.address}]
      [] d.type = "Touch"         -> [s EXCEPT !.touched = @ \ {d.address}]
      [] d.type = "StorageChange" -> [s EXCEPT !.storage[d.address] =
                                        LET sto == IF @ = None THEN EmptyStorage ELSE @
                                        IN [sto EXCEPT !.current[d.key] = d.previous]]
      [] d.type = "StorageWipe"   -> [s EXCEPT !.storage[d.address] = d.previous]
      [] d.type = "StorageCreate" -> [s EXCEPT !.storage[d.address] = None]
      [] d.type = "StorageAccess" -> [s EXCEPT !.accessed_storage_keys = @ \ {<<d.address, d.key>>}]
      [] d.type = "AccountAccess" -> [s EXCEPT !.accessed_addresses = @ \ {d.address}]

\* Mutant: the entry of storage_ stays.
DestructAccountOnly(s, addresses) ==
    [s EXCEPT !.objects = [a \in Address |->
                             IF a \in addresses /\ ObjectOf(s, a) # None
                             THEN [ObjectOf(s, a) EXCEPT !.current = None] ELSE @[a]]]
\* destruct, for each address of the set.
Destruct(s, addresses) ==
    [s EXCEPT
       !.storage = [a \in Address |-> IF a \in addresses THEN None ELSE @[a]],
       !.objects = [a \in Address |->
                      IF a \in addresses /\ ObjectOf(s, a) # None
                      THEN [ObjectOf(s, a) EXCEPT !.current = None] ELSE @[a]]]

DestructSuicides(s) == Destruct(s, s.self_destructs)

DestructTouchedDead(s) ==
    LET t == [s EXCEPT !.objects = [a \in Address |->
                                      IF a \in s.touched THEN ObjectOf(s, a) ELSE @[a]]]
    IN Destruct(t, {a \in s.touched : IsDead(s, a)})

\* Mutant: the value before the block is forgotten.
FinalizeStorageForgetful(sto) ==
    [committed |-> [k \in Key |->
                      IF sto.current[k] = None THEN sto.committed[k]
                      ELSE [initial |-> sto.current[k], original |-> sto.current[k]]],
     current |-> [k \in Key |-> None]]
FinalizeStorage(sto) ==
    [committed |-> [k \in Key |->
                      IF sto.current[k] = None THEN sto.committed[k]
                      ELSE [initial |-> IF sto.committed[k] = None THEN Zero
                                        ELSE sto.committed[k].initial,
                            original |-> sto.current[k]]],
     current |-> [k \in Key |-> None]]

\* Mutant: the values of the transaction do not become the original ones.
FinalizeTransactionSkipped(s) == s
FinalizeTransaction(s) ==
    [s EXCEPT !.storage = [a \in Address |-> IF @[a] = None THEN None ELSE FinalizeStorage(@[a])]]

ClearJournalAndSubstate(s) ==
    [s EXCEPT !.journal = <<>>, !.self_destructs = {}, !.logs = <<>>, !.touched = {},
              !.refund = 0, !.accessed_addresses = {}, !.accessed_storage_keys = {}]

Fresh(db) ==
    [db |-> db, objects |-> [a \in Address |-> None], storage |-> [a \in Address |-> None],
     code |-> {}, journal |-> <<>>, self_destructs |-> {}, logs |-> <<>>,
     touched |-> {}, refund |-> 0, accessed_addresses |-> {}, accessed_storage_keys |-> {}]

=============================================================================
