------------------------------- MODULE Tables -------------------------------
(***************************************************************************)
(* LMDB tables as the code of db/ and cmd/ uses them (chaindb.cpp, Table), *)
(* and the bulk load of an ETL collector into a table.  A key is a         *)
(* sequence of numbers, one for each fixed-width field or byte, and keys   *)
(* are ordered lexicographically.  A table is a function whose domain is   *)
(* the set of its keys; a table opened with MDB_DUPSORT is a set of        *)
(* records, since every pair of key and data in it is distinct.            *)
(***************************************************************************)
EXTENDS Integers, TLC, SequencesExt

CONSTANTS None

\* The order of mdb_cmp: the first difference decides, a prefix comes first.
LexLess(s, t) ==
    \/ \E i \in DOMAIN s \cap DOMAIN t : s[i] < t[i] /\ \A j \in 1 .. i - 1 : s[j] = t[j]
    \/ IsStrictPrefix(s, t)

\* A set in the order of Less, which is total on it.
InOrder(S, Less(_, _)) ==
    [i \in 1 .. Cardinality(S) |-> CHOOSE x \in S : Cardinality({y \in S : Less(y, x)}) = i - 1]

EmptyTable == <<>>

Get(table, key) == IF key \in DOMAIN table THEN table[key] ELSE None
Put(table, key, value) == (key :> value) @@ table
Del(table, keys) == Restrict(table, DOMAIN table \ keys)

\* The first key that is not below lower_bound, MDB_SET_RANGE.
Seek(table, lower_bound) ==
    LET above == {k \in DOMAIN table : ~LexLess(k, lower_bound)} IN
    IF above = {} THEN None ELSE CHOOSE k \in above : \A l \in above : ~LexLess(l, k)

\* With MDB_APPEND a key has to come after all keys of the table (MDB_KEYEXIST).
Appendable(table, key) == \A k \in DOMAIN table : LexLess(k, key)

\* What a load in progress has done: whether all was well, and the table.
Loading(table) == [ok |-> TRUE, table |-> table]
PutFlags(l, key, value, append) ==
    IF l.ok /\ (append => Appendable(l.table, key))
    THEN [l EXCEPT !.table = Put(@, key, value)] ELSE [l EXCEPT !.ok = FALSE]

\* etl::Entry.  Entries are sorted by key, and by value when their keys are equal.
Entry(key, value) == [key |-> key, value |-> value]
EntryLess(e, f) == LexLess(e.key, f.key) \/ (e.key = f.key /\ e.value < f.value)
KeyLess(e, f) == LexLess(e.key, f.key)

\* Collector::load with no transformation: the entries in their order, each one put.
Load(table, entries, append) ==
    FoldLeft(LAMBDA l, e : PutFlags(l, e.key, e.value, append), Loading(table),
             SortSeq(entries, EntryLess))
=============================================================================
