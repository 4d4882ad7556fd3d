---------------------------- MODULE MemoryBuffer ----------------------------
(***************************************************************************)
(* The StateBuffer kept in memory (core/silkworm/state/memory_buffer.cpp): *)
(* accounts, storage, per-block change sets and the blocks themselves, and *)
(* IntraBlockState::write_to_db, which fills it.                           *)
(*                                                                         *)
(* A buffer is a record, one field per data member.  A change set is a     *)
(* function whose domain is what the block changed.  Headers, bodies and   *)
(* total difficulties are kept per hash: a hash determines the number.     *)
(***************************************************************************)
EXTENDS IntraBlockStateMethods, FiniteSetsExt, TLC

CONSTANTS
    Block,        \* the hashes of the blocks
    Number,       \* header.number
    Parent,       \* header.parent_hash
    Difficulty    \* header.difficulty

BlockNumber == {Number[h] : h \in Block}

NoChanges == [x \in {} |-> None]

EmptyBuffer ==
    [accounts |-> [a \in Address |-> None],
     storage |-> [a \in Address |-> [i \in 0 .. MaxIncarnation |-> [k \in Key |-> Zero]]],
     incarnations |-> [a \in Address |-> 0],
     code |-> {},
     block_number |-> 0,
     account_changes |-> [n \in BlockNumber |-> NoChanges],
     storage_changes |-> [n \in BlockNumber |-> NoChanges],
     blocks |-> {},
     difficulty |-> [h \in Block |-> 0],
     canonical_hashes |-> <<>>]

BeginBlock(b, n) ==
    [b EXCEPT !.block_number = n, !.account_changes[n] = NoChanges, !.storage_changes[n] = NoChanges]

UpdateAccount(b, a, initial, current) ==
    [b EXCEPT !.account_changes[b.block_number] = (a :> initial) @@ @,
              !.accounts[a] = current,
              !.incarnations[a] = IF current = None /\ initial # None
                                  THEN initial.incarnation ELSE @]

UpdateAccountCode(b, hash) == [b EXCEPT !.code = @ \cup {hash}]

UpdateStorage(b, a, i, k, initial, current) ==
    [b EXCEPT !.storage_changes[b.block_number] = (<<a, i, k>> :> initial) @@ @,
              !.storage[a][i][k] = current]

UnwindStateChanges(b, n) ==
    LET changed == b.storage_changes[n] IN
    [b EXCEPT !.accounts = b.account_changes[n] @@ @,
              !.storage = [a \in Address |-> [i \in 0 .. MaxIncarnation |-> [k \in Key |->
                             IF <<a, i, k>> \in DOMAIN changed THEN changed[<<a, i, k>>]
                             ELSE @[a][i][k]]]]]

\* IntraBlockState::write_to_db.
WriteToDb(s, n) ==
    LET Live(a) == s.storage[a] # None /\ Alive(s.objects[a])
        slots   == {p \in Address \X Key : Live(p[1]) /\ s.storage[p[1]].committed[p[2]] # None}
        PutSlot(p, b) ==
            LET val == s.storage[p[1]].committed[p[2]]
            IN UpdateStorage(b, p[1], s.objects[p[1]].current.incarnation, p[2],
                             val.initial, val.original)
        PutAccount(a, b) ==
            LET obj == s.objects[a]
                put == UpdateAccount(b, a, obj.initial, obj.current)
            IN IF /\ Alive(obj) /\ obj.current.code_hash # EmptyHash
                  /\ ~SameIncarnation(obj)
               THEN UpdateAccountCode(put, obj.current.code_hash)
               ELSE put
    IN FoldSet(PutAccount, FoldSet(PutSlot, BeginBlock(s.db, n), slots),
               {a \in Address : s.objects[a] # None})

-----------------------------------------------------------------------------
InsertBlock(b, h) ==
    [b EXCEPT !.blocks = @ \cup {h},
              !.difficulty[h] = Difficulty[h] + (IF Number[h] = 0 THEN 0 ELSE b.difficulty[Parent[h]])]

CurrentCanonicalBlock(b) == Len(b.canonical_hashes) - 1

CanonicalHash(b, n) ==
    IF n >= Len(b.canonical_hashes) THEN None ELSE b.canonical_hashes[n + 1]

CanonizeBlock(b, n, h) ==
    [b EXCEPT !.canonical_hashes =
       [i \in 1 .. Max({Len(@), n + 1}) |-> IF i = n + 1 THEN h ELSE CanonicalHash(b, i - 1)]]

DecanonizeBlock(b, n) == [b EXCEPT !.canonical_hashes = SubSeq(@, 1, n)]

=============================================================================
