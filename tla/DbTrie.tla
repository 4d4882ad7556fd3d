------------------------------- MODULE DbTrie -------------------------------
(***************************************************************************)
(* The roots of a block and of a state: the tries that                     *)
(* regenerate_db_tries computes from the hashed state and keeps in the     *)
(* tables TrieOfAccounts and TrieOfStorage (db/trie/db_trie.cpp), the root *)
(* that the state buffers compute, and the root of a vector                *)
(* (core/trie/vector_root.hpp), against the trie of the Yellow Paper.      *)
(***************************************************************************)
EXTENDS HashBuilder

CONSTANTS Keys,            \* hashed addresses, sequences of bytes
          Contracts,       \* those among them that may have storage
          Places,          \* hashed locations
          Slots,           \* values of slots: records with a length
          Values,          \* values of vectors, likewise
          MaxEntries,      \* accounts and slots of the state
          MaxMixed,        \* vectors of all values are no longer than this
          MaxVector,       \* vectors of one value are no longer than this
          MaxRegenerations

VARIABLES accounts,        \* HashedAccounts: the incarnation of each account
          storage,         \* HashedStorage: <<account, incarnation, location>> to value
          account_trie, storage_trie,   \* TrieOfAccounts, TrieOfStorage
          regenerated,     \* how often the tables were regenerated
          tried,           \* what the last regeneration found: root, and whether it threw
          vector           \* a vector of encoded transactions or receipts

vars == <<accounts, storage, account_trie, storage_trie, regenerated, tried, vector>>

Init ==
    /\ accounts = EmptyTable /\ storage = EmptyTable
    /\ account_trie = EmptyTable /\ storage_trie = EmptyTable
    /\ regenerated = 0 /\ tried = None /\ vector = <<>>

(* ---------------------- Roots computed from a state -------------------- *)

Locations(a, inc) == {k[3] : k \in {s \in DOMAIN storage : s[1] = a /\ s[2] = inc}}
StorageBuilder(a, inc, collecting) ==
    Built([loc \in Locations(a, inc) |-> storage[<<a, inc, loc>>]], collecting)

\* An account without an incarnation has no storage.
StorageRoot(a) == IF accounts[a] = 0 THEN EmptyRoot ELSE RootOf(StorageBuilder(a, accounts[a], TRUE).stack)

\* Account::rlp: two hashes of 33 bytes, nonce and balance.
AccountRlp(a, storage_root) == [length |-> 70, account |-> a, storage_root |-> storage_root]

\* DbTrieLoader::calculate_root; the cursors over the old tries cover nothing yet, and skip nothing.
AccountBuilder == Built([a \in DOMAIN accounts |-> AccountRlp(a, StorageRoot(a))], TRUE)

\* What the two collectors hold: the account trie has no record for its root.
AccountNodes(built) == SelectSeq(built.nodes, LAMBDA n : n.key # <<>>)
StorageNodes(a) ==
    IF accounts[a] = 0 THEN <<>>
    ELSE LET nodes == StorageBuilder(a, accounts[a], TRUE).nodes IN
         [i \in DOMAIN nodes |-> [key |-> <<a, accounts[a], nodes[i].key>>, node |-> nodes[i].node]]

LoadNodes(table, nodes) == FoldLeft(LAMBDA t, n : Put(t, n.key, MarshalNode(n.node)), table, nodes)

\* state_root_hash of the state buffers, which look storage up under the incarnation even if it is 0.
BufferStorageRoot(a) ==
    IF Locations(a, accounts[a]) = {} THEN EmptyRoot ELSE RootOf(StorageBuilder(a, accounts[a], FALSE).stack)
BufferStateRoot ==
    IF accounts = EmptyTable THEN EmptyRoot
    ELSE RootOf(Built([a \in DOMAIN accounts |-> AccountRlp(a, BufferStorageRoot(a))], FALSE).stack)

(* -------------------------------- Actions ------------------------------ *)

Room == Cardinality(DOMAIN accounts) + Cardinality(DOMAIN storage) < MaxEntries /\ vector = <<>>

\* The hashed state is written by the stage hashstate; an account that is created again takes the
\* next incarnation, and the storage of the former one stays.
PutAccount(a, inc) ==
    /\ inc > 0 => a \in Contracts
    /\ a \in DOMAIN accounts => inc = accounts[a] + 1
    /\ a \notin DOMAIN accounts => Room
    /\ vector = <<>>
    /\ accounts' = Put(accounts, a, inc)
    /\ tried' = None
    /\ UNCHANGED <<storage, account_trie, storage_trie, regenerated, vector>>
PutStorage(a, loc, value) ==
    /\ Room /\ a \in DOMAIN accounts /\ accounts[a] > 0
    /\ storage' = Put(storage, <<a, accounts[a], loc>>, value)
    /\ tried' = None
    /\ UNCHANGED <<accounts, account_trie, storage_trie, regenerated, vector>>
\* hashstate --full starts again.
ClearState ==
    /\ regenerated = 1 /\ accounts # EmptyTable
    /\ accounts' = EmptyTable /\ storage' = EmptyTable /\ tried' = None
    /\ UNCHANGED <<account_trie, storage_trie, regenerated, vector>>

\* A root that is not the expected one throws, and the collectors are gone with what they hold.
Throws(expected, root) == expected # None /\ root # expected

RegenerateDbTries(expected) ==
    LET built == AccountBuilder
        root == RootOf(built.stack)
        keys == InOrder(DOMAIN accounts, LexLess)
    IN /\ regenerated < MaxRegenerations /\ accounts # EmptyTable /\ tried = None
       /\ regenerated' = regenerated + 1
       /\ IF Throws(expected, root)
          THEN /\ tried' = [thrown |-> TRUE, root |-> root, expected |-> expected]
               /\ UNCHANGED <<account_trie, storage_trie>>
          ELSE /\ tried' = [thrown |-> FALSE, root |-> root, expected |-> expected]
               /\ account_trie' = LoadNodes(account_trie, AccountNodes(built))
               /\ storage_trie' = LoadNodes(storage_trie, FlattenSeq([i \in DOMAIN keys |-> StorageNodes(keys[i])]))
       /\ UNCHANGED <<accounts, storage, vector>>

\* A value is appended to the vector.
AppendValue(value) ==
    /\ accounts = EmptyTable /\ regenerated = 0
    /\ \/ Len(vector) < MaxMixed
       \/ Len(vector) < MaxVector /\ \A i \in DOMAIN vector : vector[i] = value
    /\ vector' = Append(vector, value)
    /\ UNCHANGED <<accounts, storage, account_trie, storage_trie, regenerated, tried>>

Next ==
    \/ \E a \in Keys, inc \in 0 .. 2 : PutAccount(a, inc)
    \/ \E a \in Contracts, loc \in Places, value \in Slots : PutStorage(a, loc, value)
    \/ ClearState
    \/ \E expected \in {None, EmptyRoot, BufferStateRoot} : RegenerateDbTries(expected)
    \/ \E value \in Values : AppendValue(value)

Spec == Init /\ [][Next]_vars

(* ------------------- The trie of the Yellow Paper ---------------------- *)

\* The entries are given by the function value on a set of paths, which agree in their first n digits.
Below(paths, n, d) == {p \in paths : p[n + 1] = d}
Digits(paths, n) == {p[n + 1] : p \in paths}
CommonLength(paths) ==
    LET p == CHOOSE q \in paths : TRUE IN
    CHOOSE n \in 0 .. Len(p) : /\ \A q \in paths : SubSeq(q, 1, n) = SubSeq(p, 1, n)
                               /\ \E q \in paths : Len(q) = n \/ q[n + 1] # p[n + 1]

\* A node of less than 32 bytes stands for itself.
TrieRef(node) == [node |-> node, length |-> IF RlpLength(node) > 31 THEN 33 ELSE RlpLength(node)]

RECURSIVE TrieNode(_, _, _)
TrieNode(value, paths, n) ==
    LET p == CHOOSE q \in paths : TRUE IN
    IF Cardinality(paths) = 1 THEN Leaf(SubSeq(p, n + 1, Len(p)), value[p])
    ELSE IF CommonLength(paths) > n
    THEN Extension(SubSeq(p, n + 1, CommonLength(paths)), TrieRef(TrieNode(value, paths, CommonLength(paths))))
    ELSE Branch([d \in Digits(paths, n) |-> TrieRef(TrieNode(value, Below(paths, n, d), n + 1))])
TrieRoot(value) == IF DOMAIN value = {} THEN EmptyRoot ELSE TrieNode(value, DOMAIN value, 0)

Unpacked(keys) == {UnpackNibbles(k) : k \in keys}
Packed(path) == CHOOSE k \in Keys \cup Places : UnpackNibbles(k) = path

SlotsOf(a) == [p \in Unpacked(Locations(a, accounts[a])) |-> storage[<<a, accounts[a], Packed(p)>>]]
StorageTrie(a) == IF accounts[a] = 0 THEN EmptyRoot ELSE TrieRoot(SlotsOf(a))
StateTrie == [p \in Unpacked(DOMAIN accounts) |-> AccountRlp(Packed(p), StorageTrie(Packed(p)))]

\* Prefixes at which a set of paths branches, and those whose branch has a branch right below it.
With(paths, p) == {q \in paths : IsPrefix(p, q)}
IsBranch(paths, p) == \E q, r \in With(paths, p) : q[Len(p) + 1] # r[Len(p) + 1]
BranchesBelow(paths, p) == {d \in Digits(With(paths, p), Len(p)) : IsBranch(paths, Append(p, d))}
Stems(paths) == UNION {{SubSeq(q, 1, n) : n \in 0 .. Len(q) - 2} : q \in paths}
ToBeKept(paths) == {p \in Stems(paths) : IsBranch(paths, p) /\ BranchesBelow(paths, p) # {}}

NoExtensions(paths) == \A p \in Stems(paths) : IsBranch(paths, p) => \A n \in 0 .. Len(p) : IsBranch(paths, SubSeq(p, 1, n))

-----------------------------------------------------------------------------

VectorTrie == [p \in {UnpackNibbles(IndexRlp(i - 1)) : i \in DOMAIN vector} |->
                  vector[CHOOSE i \in DOMAIN vector : UnpackNibbles(IndexRlp(i - 1)) = p]]


\* The record of prefix p tells the digits of the paths below it and has the hash of each branch
\* right below it.
Describes(n, p, value) ==
    LET paths == DOMAIN value IN
    /\ n.state_mask = Digits(With(paths, p), Len(p))
    /\ BranchesBelow(paths, p) \subseteq n.hash_mask
    /\ \A d \in BranchesBelow(paths, p) :
          \E i \in DOMAIN n.hashes : n.hashes[i] = TrieNode(value, With(paths, Append(p, d)), Len(p) + 1)

\* Every branch with a branch right below it has a record, in the trie of the accounts and in that
\* of the storage of each account, where the record of the root has the root's hash.
RecordsCover ==
    /\ \A p \in ToBeKept(DOMAIN StateTrie) \ {<<>>} :
          p \in DOMAIN account_trie /\ Describes(UnmarshalNode(account_trie[p]), p, StateTrie)
    /\ \A a \in {b \in DOMAIN accounts : accounts[b] > 0} : \A p \in ToBeKept(DOMAIN SlotsOf(a)) :
          LET k == <<a, accounts[a], p>> IN
          /\ k \in DOMAIN storage_trie
          /\ Describes(UnmarshalNode(storage_trie[k]), p, SlotsOf(a))
          /\ p = <<>> => UnmarshalNode(storage_trie[k]).root_hash = TrieRoot(SlotsOf(a))

\* Nothing else has one, and the masks of a record are those of what is below it.
RecordsExact(paths) ==
    LET kept == ToBeKept(paths)
        record(p) == [state_mask |-> Digits(With(paths, p), Len(p)), hash_mask |-> BranchesBelow(paths, p),
                      tree_mask |-> {d \in 0 .. 15 : Append(p, d) \in kept}]
        found(p) == LET n == UnmarshalNode(account_trie[p]) IN
                    [state_mask |-> n.state_mask, hash_mask |-> n.hash_mask, tree_mask |-> n.tree_mask]
    IN /\ DOMAIN account_trie = kept \ {<<>>}
       /\ \A p \in DOMAIN account_trie : found(p) = record(p)

=============================================================================
