----------------------- MODULE IntraBlockStateHistory ------------------------
(***************************************************************************)
(* What the journalled state keeps for the whole block and for the running *)
(* transaction: the values of the block's start that the change set is     *)
(* made of, the values of the transaction's start that EIP-2200 compares   *)
(* with, the code that write_to_db stores, the storage of accounts that do *)
(* not exist and the touch of RIPEMD-160.                                  *)
(*                                                                         *)
(* None of these is inductive: revert_to_snapshot brings back objects and  *)
(* slots that only the journal remembers.  History is the strengthening;   *)
(* it says of the entries what the properties say of the state.  The       *)
(* lemmas say that every method of IntraBlockState keeps it.               *)
(***************************************************************************)
EXTENDS IntraBlockStateLemmas

\* Zenon proves the leaves that name no other prover.
USE ZenonT(30)

(***************************************************************************)
(* Objects.                                                                *)
(***************************************************************************)

\* An object starts from the account in db, and the code it was given since
\* is in code_.
KnownObject(s, a, o) ==
    /\ o.initial = s.db.accounts[a]
    /\ Alive(o) /\ ~SameIncarnation(o) => o.current.code_hash \in s.code \cup {EmptyHash}

\* So does every object of the state and every object the journal can bring
\* back; no entry removes the touch of RIPEMD-160.
Recorded(s) ==
    /\ \A a \in Address : s.objects[a] # None => KnownObject(s, a, s.objects[a])
    /\ \A n \in 1 .. Len(s.journal) :
         LET d == s.journal[n].delta
         IN /\ d.type = "Update" => KnownObject(s, d.address, d.previous)
            /\ ~(d.type = "Touch" /\ d.address = Ripemd)

(***************************************************************************)
(* Observations: inside a transaction an account that exists goes on       *)
(* existing, with the same original values until it is created anew.       *)
(***************************************************************************)
Later(v, w) ==
    \A a \in Address : Alive(v.objects[a]) =>
      LET o == v.objects[a]
          p == w.objects[a]
      IN /\ Alive(p) /\ p.initial = o.initial
         /\ \/ p.current.incarnation > o.current.incarnation
            \/ /\ p.current.incarnation = o.current.incarnation
               /\ \A k \in Key : w.slots[a][k].original = v.slots[a][k].original

\* Every observation of the journal, up to entry c, is later than v, the first.
Aged(s, c, v) == ViewAt(s, 0) = v /\ \A n \in 0 .. c : Later(v, ViewAt(s, n))

(***************************************************************************)
(* Storage.                                                                *)
(***************************************************************************)
IsContract(o) == Alive(o) /\ o.current.incarnation > 0

\* The value of a slot in db, for the incarnation that the object has.
BlockStart(db, o, a, k) ==
    IF Alive(o) /\ SameIncarnation(o) THEN db.storage[a][o.current.incarnation][k] ELSE Zero

\* The entry sto of storage_ belongs to the object o: the initial values are
\* those of the block's start, and only a contract has other values.
Fits(db, o, sto, a) ==
    sto # None =>
      \A k \in Key :
        /\ sto.committed[k] # None => sto.committed[k].initial = BlockStart(db, o, a, k)
        /\ sto.current[k] # None => IsContract(o) /\ (SameIncarnation(o) => sto.committed[k] # None)
        /\ ~IsContract(o) /\ sto.committed[k] # None => sto.committed[k].original = Zero

Wipes(d, a) == IsStorageDelta(d) /\ d.address = a
IsObjectDelta(d) == d.type \in {"Create", "Update"}

\* The object that undoing d brings back.
Replaced(d) == IF d.type = "Update" THEN d.previous ELSE None

\* An object and the one a method other than create_contract replaces it by.
Succeeds(p, q) == \/ SameGeneration(p, q)
                  \/ ~Alive(p) /\ Alive(q) /\ q.current.incarnation = 0

\* A storage entry follows the object entry of the same create_contract, and
\* the storage it keeps belongs to the object that entry keeps.
WipesPaired(s) ==
    \A i \in 1 .. Len(s.journal) :
      LET d == s.journal[i].delta
          e == s.journal[i - 1].delta
      IN IsStorageDelta(d) =>
           /\ i > 1
           /\ IsObjectDelta(e) /\ e.address = d.address
           /\ Fits(s.db, Replaced(e), WipedStorage(d), d.address)

\* An object entry that is not a create_contract's keeps the storage fitting.
Generations(s, c) ==
    \A j \in 1 .. c :
      LET d == s.journal[j].delta
      IN IsObjectDelta(d) =>
           \/ j < Len(s.journal) /\ Wipes(s.journal[j + 1].delta, d.address)
           \/ Succeeds(Replaced(d), ViewAt(s, j).objects[d.address])

HasSlot(sto, k) == sto # None /\ sto.committed[k] # None

\* No entry after the first j and up to the n-th wipes the storage of a.
Unwiped(s, a, j, n) == \A i \in j + 1 .. n : ~Wipes(s.journal[i].delta, a)

\* The slot that undoing a StorageChangeDelta writes to is of a contract, and
\* its value in db is cached in the storage that will be found then: the
\* present one, or the one kept by the next entry that wipes it.
SlotsKept(s, c) ==
    \A j \in 1 .. c :
      LET d == s.journal[j].delta
          o == ViewAt(s, j).objects[d.address]
      IN d.type = "StorageChange" =>
           /\ IsContract(o)
           /\ SameIncarnation(o) =>
                /\ Unwiped(s, d.address, j, c) => HasSlot(s.storage[d.address], d.key)
                /\ \A i \in j + 1 .. c :
                     Wipes(s.journal[i].delta, d.address) /\ Unwiped(s, d.address, j, i - 1) =>
                       HasSlot(WipedStorage(s.journal[i].delta), d.key)

\* Every storage fits its object, except between the undoing of the two
\* entries of a create_contract.
AllFit(s, c) ==
    \A a \in Address : \/ c < Len(s.journal) /\ Wipes(s.journal[c + 1].delta, a)
                       \/ Fits(s.db, ObjectOf(s, a), s.storage[a], a)

\* The journal sizes in B do not separate the entries of a create_contract.
Whole(s, B) ==
    \A n \in B : /\ n \in 0 .. Len(s.journal)
                 /\ n < Len(s.journal) => ~IsStorageDelta(s.journal[n + 1].delta)

\* What a transaction that began with observation v, with snapshots at the
\* journal sizes B, keeps when all but c entries of the journal are undone.
History(s, c, v, B) == /\ Recorded(s) /\ Aged(s, c, v)
                       /\ WipesPaired(s) /\ Generations(s, c) /\ SlotsKept(s, c)
                       /\ AllFit(s, c) /\ Whole(s, B)

Kept(s, v, B) == History(s, Len(s.journal), v, B)

CleanDb(db) == \A a \in Address, k \in Key : db.storage[a][0][k] = Zero

-----------------------------------------------------------------------------
\* Storage that fits an object fits the one that succeeds it, and conversely.
LEMMA FitsSuccessor ==
    ASSUME NEW db, NEW p, NEW q, NEW sto, NEW a \in Address, CleanDb(db), Succeeds(p, q)
    PROVE  Fits(db, p, sto, a) <=> Fits(db, q, sto, a)
<1>1. CASE SameGeneration(p, q)
  <2>1. \A k \in Key : BlockStart(db, p, a, k) = BlockStart(db, q, a, k)
    BY <1>1 DEF BlockStart, SameGeneration, SameIncarnation
  <2>2. IsContract(p) <=> IsContract(q)
    BY <1>1 DEF IsContract, SameGeneration
  <2>3. SameIncarnation(p) <=> SameIncarnation(q)
    BY <1>1 DEF SameGeneration, SameIncarnation
  <2>4. QED BY <2>1, <2>2, <2>3 DEF Fits
<1>2. CASE ~Alive(p) /\ Alive(q) /\ q.current.incarnation = 0
  <2>1. ~IsContract(p) /\ ~IsContract(q)
    BY SMTT(30), <1>2 DEF IsContract
  <2>2. \A k \in Key : BlockStart(db, p, a, k) = Zero /\ BlockStart(db, q, a, k) = Zero
    BY <1>2 DEF BlockStart, CleanDb
  <2>3. QED BY <2>1, <2>2 DEF Fits
<1>3. QED BY <1>1, <1>2 DEF Succeeds

\* Observations that differ in no generation and no original value.
Steady(v, w) ==
    \A a \in Address : Alive(v.objects[a]) =>
      /\ SameGeneration(v.objects[a], w.objects[a])
      /\ \A k \in Key : w.slots[a][k].original = v.slots[a][k].original

\* What is observed later stays so when nothing is created anew.
LEMMA LaterSteady ==
    ASSUME NEW u, NEW v, NEW w, Later(u, v), Steady(v, w)
    PROVE  Later(u, w)
BY DEF Later, Steady, SameGeneration

\* The object the readers find is a KnownObject too.
LEMMA KnownObjectOf ==
    ASSUME NEW s \in IntraBlockStateType, NEW a \in Address, Recorded(s), ObjectOf(s, a) # None
    PROVE  KnownObject(s, a, ObjectOf(s, a))
<1>1. CASE s.objects[a] # None
  BY <1>1 DEF Recorded, ObjectOf
<1>2. CASE s.objects[a] = None
  <2>1. ObjectOf(s, a) = [initial |-> s.db.accounts[a], current |-> s.db.accounts[a]] /\ s.db.accounts[a] # None
    BY <1>2 DEF ObjectOf
  <2>2. QED BY SMTT(30), <2>1 DEF KnownObject, SameIncarnation
<1>3. QED BY <1>1, <1>2

\* The objects of t and its code, when it goes on from s.
Knows(s, t) == /\ t.db = s.db /\ s.code \subseteq t.code
               /\ \A a \in Address : \/ t.objects[a] = None \/ t.objects[a] = s.objects[a]
                                     \/ KnownObject(t, a, t.objects[a])

\* code_ only grows, so that a known object stays known.
LEMMA KnownGrows ==
    ASSUME NEW s, NEW t, NEW a, NEW o, Knows(s, t), KnownObject(s, a, o)
    PROVE  KnownObject(t, a, o)
BY DEF Knows, KnownObject

\* The storage of t, when it goes on from s: it fits, and no slot is dropped.
Stores(s, t) == /\ \A a \in Address : Fits(t.db, ObjectOf(t, a), t.storage[a], a)
                /\ \A a \in Address, k \in Key :
                     HasSlot(s.storage[a], k) => HasSlot(t.storage[a], k)

\* Caching keeps the history.
LEMMA QuietKept ==
    ASSUME NEW s, NEW t \in IntraBlockStateType, NEW v, NEW B, Good(s), Kept(s, v, B),
           t.journal = s.journal, View(t) = View(s), Knows(s, t), Stores(s, t)
    PROVE  Kept(t, v, B)
<1> DEFINE n == Len(s.journal)
<1>1. \A j : ViewAt(t, j) = ViewAt(s, j)
  BY DEF ViewAt
<1>2. n \in Nat /\ s.journal \in Seq(Entry)
  BY SMTT(30) DEF Good, IntraBlockStateType, Entry
<1>3. Recorded(t)
  <2>1. ASSUME NEW a \in Address, t.objects[a] # None
        PROVE  KnownObject(t, a, t.objects[a])
    BY <2>1, KnownGrows DEF Kept, History, Recorded, Knows
  <2>2. QED BY <2>1, KnownGrows DEF Kept, History, Recorded
<1>4. Aged(t, n, v)
  BY <1>1 DEF Kept, History, Aged
<1>5. WipesPaired(t)
  BY DEF Kept, History, WipesPaired, Knows
<1>6. Generations(t, n)
  BY <1>1 DEF Kept, History, Generations
<1>7. SlotsKept(t, n)
  <2>1. ASSUME NEW j \in 1 .. n, t.journal[j].delta.type = "StorageChange"
        PROVE  t.journal[j].delta.address \in Address /\ t.journal[j].delta.key \in Key
    <3>0. t.journal[j] \in Entry
      BY SMTT(30), <1>2
    <3>1. t.journal[j].delta \in Delta
      BY <3>0 DEF Entry
    <3>2. QED BY <2>1, <3>1 DEF Delta
  <2>2. \A a, i, j : Unwiped(t, a, i, j) <=> Unwiped(s, a, i, j)
    BY DEF Unwiped
  <2>3. QED BY <1>1, <2>1, <2>2 DEF Kept, History, SlotsKept, Stores
<1>8. AllFit(t, n)
  BY DEF AllFit, Stores
<1>9. Whole(t, B)
  BY DEF Kept, History, Whole
<1>10. QED BY <1>3, <1>4, <1>5, <1>6, <1>7, <1>8, <1>9 DEF Kept, History

\* What a delta other than create_contract's says of the state after it.
Sound(t, d) ==
    /\ ~IsStorageDelta(d)
    /\ d.type = "Update" => KnownObject(t, d.address, d.previous)
    /\ ~(d.type = "Touch" /\ d.address = Ripemd)
    /\ IsObjectDelta(d) => Succeeds(Replaced(d), ObjectOf(t, d.address))
    /\ d.type = "StorageChange" =>
         /\ IsContract(ObjectOf(t, d.address))
         /\ SameIncarnation(ObjectOf(t, d.address)) => HasSlot(t.storage[d.address], d.key)

\* The observations of a journal to which one entry was appended.
LEMMA AppendViews ==
    ASSUME NEW s, NEW t, NEW d \in Delta, s \in IntraBlockStateType,
           t.journal = Append(s.journal, [delta |-> d, before |-> View(s)])
    PROVE  /\ Len(s.journal) \in Nat /\ Len(t.journal) = Len(s.journal) + 1
           /\ \A j \in 1 .. Len(s.journal) : t.journal[j] = s.journal[j] /\ s.journal[j].delta \in Delta
           /\ t.journal[Len(s.journal) + 1].delta = d
           /\ \A j \in 0 .. Len(s.journal) : ViewAt(t, j) = ViewAt(s, j)
           /\ ViewAt(t, Len(s.journal) + 1) = View(t)
<1> DEFINE n == Len(s.journal)
<1>0. s.journal \in Seq(Entry) /\ [delta |-> d, before |-> View(s)] \in Entry
  BY ViewTypeOK DEF IntraBlockStateType, Entry
<1>1. s.journal \in Seq(Entry) /\ n \in Nat /\ [delta |-> d, before |-> View(s)] \in Entry
  BY SMTT(30), <1>0
<1>2. /\ Len(t.journal) = n + 1
      /\ \A j \in 1 .. n : t.journal[j] = s.journal[j]
      /\ t.journal[n + 1] = [delta |-> d, before |-> View(s)]
  BY SMTT(30), <1>1
<1>3. \A j \in 0 .. n : ViewAt(t, j) = ViewAt(s, j)
  BY SMTT(30), <1>1, <1>2 DEF ViewAt
<1>4. ViewAt(t, n + 1) = View(t)
  BY SMTT(30), <1>1, <1>2 DEF ViewAt
<1>5. \A j \in 1 .. n : s.journal[j] \in Entry
  BY SMTT(30), <1>1
<1>6. \A j \in 1 .. n : s.journal[j].delta \in Delta
  BY <1>5 DEF Entry
<1>7. t.journal[n + 1].delta = d
  BY SMTT(30), <1>2
<1>8. QED BY <1>1, <1>2, <1>3, <1>4, <1>6, <1>7

\* One journalled change other than create_contract's keeps the history.
LEMMA AppendKept ==
    ASSUME NEW s, NEW t \in IntraBlockStateType, NEW d \in Delta, NEW v, NEW B, Good(s), Kept(s, v, B),
           t.journal = Append(s.journal, [delta |-> d, before |-> View(s)]),
           Steady(View(s), View(t)), Knows(s, t), Stores(s, t), Sound(t, d)
    PROVE  Kept(t, v, B)
<1> DEFINE n == Len(s.journal)
<1>1. /\ n \in Nat /\ Len(t.journal) = n + 1
      /\ \A j \in 1 .. n : t.journal[j] = s.journal[j] /\ s.journal[j].delta \in Delta
      /\ t.journal[n + 1].delta = d
      /\ \A j \in 0 .. n : ViewAt(t, j) = ViewAt(s, j)
      /\ ViewAt(t, n + 1) = View(t)
  BY AppendViews DEF Good
<1>2. View(t).objects = [a \in Address |-> ObjectOf(t, a)]
  BY DEF View
<1>3. d.address \in Address
  BY DEF Delta
<1> HIDE DEF n
<1>4. Recorded(t)
  <2>1. ASSUME NEW a \in Address, t.objects[a] # None
        PROVE  KnownObject(t, a, t.objects[a])
    BY <2>1, KnownGrows DEF Kept, History, Recorded, Knows
  <2>2. ASSUME NEW j \in 1 .. n + 1
        PROVE  /\ t.journal[j].delta.type = "Update" =>
                    KnownObject(t, t.journal[j].delta.address, t.journal[j].delta.previous)
               /\ ~(t.journal[j].delta.type = "Touch" /\ t.journal[j].delta.address = Ripemd)
    <3>1. CASE j = n + 1
      BY <1>1, <3>1 DEF Sound
    <3>2. CASE j \in 1 .. n
      BY <1>1, <3>2, KnownGrows DEF Kept, History, Recorded, n
    <3>3. QED BY SMTT(30), <1>1, <3>1, <3>2
  <2>3. QED BY <1>1, <2>1, <2>2 DEF Recorded
<1>5. Aged(t, n + 1, v)
  <2>1. ViewAt(t, 0) = v /\ \A j \in 0 .. n : Later(v, ViewAt(t, j))
    BY SMTT(30), <1>1 DEF Kept, History, Aged, n
  <2>2. ViewAt(s, n) = View(s) /\ n \in 0 .. n
    BY SMTT(30), <1>1 DEF ViewAt, n
  <2>3. Later(v, View(t))
    BY <1>1, <2>1, <2>2, LaterSteady
  <2>4. QED BY SMTT(30), <1>1, <2>1, <2>3 DEF Aged
<1>6. WipesPaired(t)
  <2>1. ASSUME NEW i \in 1 .. n + 1, IsStorageDelta(t.journal[i].delta)
        PROVE  i \in 1 .. n /\ (i > 1 => i - 1 \in 1 .. n)
    <3>1. i # n + 1
      BY <1>1, <2>1 DEF Sound
    <3>2. QED BY SMTT(30), <1>1, <3>1
  <2>2. QED BY <1>1, <2>1 DEF Kept, History, WipesPaired, Knows, n
<1>7. Generations(t, n + 1)
  <2>1. ASSUME NEW j \in 1 .. n + 1, IsObjectDelta(t.journal[j].delta)
        PROVE  \/ j < Len(t.journal) /\ Wipes(t.journal[j + 1].delta, t.journal[j].delta.address)
               \/ Succeeds(Replaced(t.journal[j].delta), ViewAt(t, j).objects[t.journal[j].delta.address])
    <3>1. CASE j = n + 1
      BY <1>1, <1>2, <1>3, <2>1, <3>1 DEF Sound
    <3>2. CASE j \in 1 .. n
      <4>1. \/ j < n /\ Wipes(s.journal[j + 1].delta, s.journal[j].delta.address)
            \/ Succeeds(Replaced(s.journal[j].delta), ViewAt(s, j).objects[s.journal[j].delta.address])
        BY <1>1, <2>1, <3>2 DEF Kept, History, Generations, n
      <4>2. j \in 0 .. n /\ (j < n => j + 1 \in 1 .. n /\ j < n + 1)
        BY SMTT(30), <1>1, <3>2
      <4>3. QED BY <1>1, <3>2, <4>1, <4>2
    <3>3. QED BY SMTT(30), <1>1, <3>1, <3>2
  <2>2. QED BY <2>1 DEF Generations
<1>8. SlotsKept(t, n + 1)
  <2> DEFINE D(j) == t.journal[j].delta
             O(j) == ViewAt(t, j).objects[D(j).address]
  <2>1. ASSUME NEW j \in 1 .. n + 1, D(j).type = "StorageChange"
        PROVE  /\ IsContract(O(j))
               /\ SameIncarnation(O(j)) =>
                    /\ Unwiped(t, D(j).address, j, n + 1) => HasSlot(t.storage[D(j).address], D(j).key)
                    /\ \A i \in j + 1 .. n + 1 :
                         Wipes(D(i), D(j).address) /\ Unwiped(t, D(j).address, j, i - 1) =>
                           HasSlot(WipedStorage(D(i)), D(j).key)
    <3>1. CASE j = n + 1
      <4>1. O(j) = ObjectOf(t, D(j).address) /\ D(j) = d
        BY <1>1, <1>2, <1>3, <3>1
      <4>2. \A i \in j + 1 .. n + 1 : FALSE
        BY SMTT(30), <1>1, <3>1
      <4>3. QED BY <2>1, <4>1, <4>2 DEF Sound
    <3>2. CASE j \in 1 .. n
      <4>1. j \in 0 .. n /\ D(j) = s.journal[j].delta /\ O(j) = ViewAt(s, j).objects[D(j).address]
        BY SMTT(30), <1>1, <3>2
      <4>2. D(j).address \in Address /\ D(j).key \in Key
        <5>1. D(j) \in Delta
          BY <1>1, <3>2
        <5>2. QED BY <2>1, <5>1 DEF Delta
      <4>3. /\ IsContract(O(j))
            /\ SameIncarnation(O(j)) =>
                 /\ Unwiped(s, D(j).address, j, n) => HasSlot(s.storage[D(j).address], D(j).key)
                 /\ \A i \in j + 1 .. n :
                      Wipes(s.journal[i].delta, D(j).address) /\ Unwiped(s, D(j).address, j, i - 1) =>
                        HasSlot(WipedStorage(s.journal[i].delta), D(j).key)
        BY <2>1, <3>2, <4>1 DEF Kept, History, SlotsKept, n
      <4>4. \A a : \A m \in 0 .. n : Unwiped(t, a, j, m) <=> Unwiped(s, a, j, m)
        <5>1. ASSUME NEW a, NEW m \in 0 .. n
              PROVE  Unwiped(t, a, j, m) <=> Unwiped(s, a, j, m)
          <6>1. \A i \in j + 1 .. m : t.journal[i] = s.journal[i]
            BY SMTT(30), <1>1, <3>2
          <6>2. QED BY <6>1 DEF Unwiped
        <5>2. QED BY <5>1
      <4>5. \A a : Unwiped(t, a, j, n + 1) => Unwiped(s, a, j, n)
        <5>1. \A i \in j + 1 .. n : i \in j + 1 .. n + 1 /\ t.journal[i] = s.journal[i]
          BY SMTT(30), <1>1, <3>2
        <5>2. QED BY <5>1 DEF Unwiped
      <4>6. ASSUME NEW i \in j + 1 .. n + 1, Wipes(D(i), D(j).address)
            PROVE  i \in j + 1 .. n /\ i - 1 \in 0 .. n /\ D(i) = s.journal[i].delta
        <5>1. i # n + 1
          BY <1>1, <4>6 DEF Wipes, Sound
        <5>2. QED BY SMTT(30), <1>1, <3>2, <5>1
      <4>7. SameIncarnation(O(j)) /\ Unwiped(t, D(j).address, j, n + 1) =>
              HasSlot(t.storage[D(j).address], D(j).key)
        BY <4>2, <4>3, <4>5 DEF Stores
      <4>8. QED BY <4>3, <4>4, <4>6, <4>7
    <3>3. j = n + 1 \/ j \in 1 .. n
      BY SMTT(30), <1>1
    <3>4. QED BY <3>1, <3>2, <3>3
  <2>2. QED BY <2>1 DEF SlotsKept
<1>9. AllFit(t, n + 1)
  BY DEF AllFit, Stores
<1>10. Whole(t, B)
  <2>1. ASSUME NEW m \in B
        PROVE  m \in 0 .. n + 1 /\ (m < n + 1 => ~IsStorageDelta(t.journal[m + 1].delta))
    <3>1. m \in 0 .. n /\ (m < n => ~IsStorageDelta(s.journal[m + 1].delta))
      BY DEF Kept, History, Whole, n
    <3>2. CASE m = n
      BY SMTT(30), <1>1, <3>2 DEF Sound
    <3>3. CASE m < n
      <4>1. m + 1 \in 1 .. n
        BY SMTT(30), <1>1, <3>1, <3>3
      <4>2. QED BY SMTT(30), <1>1, <3>1, <3>3, <4>1
    <3>4. QED BY SMTT(30), <1>1, <3>1, <3>2, <3>3
  <2>2. QED BY <1>1, <2>1 DEF Whole
<1>11. QED BY <1>1, <1>4, <1>5, <1>6, <1>7, <1>8, <1>9, <1>10 DEF Kept, History

-----------------------------------------------------------------------------
(***************************************************************************)
(* The methods keep the history.  A lemma ...Fine is about the operator of *)
(* that name, or about one step of the operators that are made of several. *)
(***************************************************************************)
Fine(s, v, B) == Good(s) /\ CleanDb(s.db) /\ Kept(s, v, B)

\* Outside revert_to_snapshot the storage of every address fits.
LEMMA FineFits ==
    ASSUME NEW s, NEW v, NEW B, NEW a \in Address, Fine(s, v, B)
    PROVE  Fits(s.db, ObjectOf(s, a), s.storage[a], a)
<1>1. Len(s.journal) \in Nat
  BY SMTT(30) DEF Fine, Good, IntraBlockStateType
<1>2. ~(Len(s.journal) < Len(s.journal))
  BY SMTT(30), <1>1
<1>3. QED BY <1>2 DEF Fine, Kept, History, AllFit

\* An operation that is journalled by no entry is not observed.
LEMMA QuietView ==
    ASSUME NEW s, NEW t, Good(s), Extends(s, t), t.journal = s.journal
    PROVE  View(t) = View(s)
<1> DEFINE n == Len(s.journal)
<1>1. n \in Nat
  BY SMTT(30) DEF Good, IntraBlockStateType
<1>2. n \in 0 .. n /\ ~(n < n)
  BY SMTT(30), <1>1
<1>3. ViewAt(t, n) = View(t) /\ ViewAt(s, n) = View(s)
  BY <1>2 DEF ViewAt
<1>4. QED BY <1>2, <1>3 DEF Extends

\* get_object keeps the history.
LEMMA GetObjectFine ==
    ASSUME NEW s, NEW a \in Address, NEW v, NEW B, Fine(s, v, B)
    PROVE  Fine(GetObject(s, a), v, B)
<1> DEFINE t == GetObject(s, a)
<1>1. s \in IntraBlockStateType /\ Good(s)
  BY DEF Fine, Good
<1>2. Extends(s, t) /\ Good(t) /\ t \in IntraBlockStateType /\ t.db = s.db
  BY <1>1, GetObjectQuiet DEF Extends, Good
<1>3. /\ t.storage = s.storage /\ t.journal = s.journal /\ t.code = s.code
      /\ t.objects[a] = ObjectOf(s, a)
      /\ \A b \in Address \ {a} : t.objects[b] = s.objects[b]
  BY <1>1 DEF GetObject, IntraBlockStateType
<1> HIDE DEF t
<1>4. View(t) = View(s)
  BY <1>1, <1>2, <1>3, QuietView
<1>5. Knows(s, t)
  <2>1. ObjectOf(s, a) # None => KnownObject(t, a, ObjectOf(s, a))
    <3>1. ObjectOf(s, a) # None => KnownObject(s, a, ObjectOf(s, a))
      BY <1>1, KnownObjectOf DEF Fine, Kept, History
    <3>2. QED BY <1>2, <1>3, <3>1 DEF KnownObject
  <2>2. QED BY <1>2, <1>3, <2>1 DEF Knows
<1>6. Stores(s, t)
  <2>1. \A b \in Address : ObjectOf(t, b) = ObjectOf(s, b)
    <3>1. View(t).objects = [b \in Address |-> ObjectOf(t, b)] /\ View(s).objects = [b \in Address |-> ObjectOf(s, b)]
      BY DEF View
    <3>2. QED BY <1>4, <3>1
  <2>2. QED BY <1>2, <1>3, <2>1, FineFits DEF Stores
<1>7. Kept(t, v, B)
  BY <1>1, <1>2, <1>3, <1>4, <1>5, <1>6, QuietKept DEF Fine
<1>8. QED BY <1>2, <1>7 DEF Fine, t

\* A new entry of code_ keeps the history.
LEMMA CodeFine ==
    ASSUME NEW s, NEW codes \in SUBSET Code, NEW v, NEW B, Fine(s, v, B), s.code \subseteq codes
    PROVE  Fine([s EXCEPT !.code = codes], v, B)
<1> DEFINE t == [s EXCEPT !.code = codes]
<1>1. s \in IntraBlockStateType /\ Good(s)
  BY DEF Fine, Good
<1>2. Extends(s, t) /\ Good(t) /\ t \in IntraBlockStateType
  BY <1>1, CodeQuiet DEF Extends, Good
<1>3. /\ t.storage = s.storage /\ t.journal = s.journal /\ t.code = codes /\ t.db = s.db
      /\ t.objects = s.objects
  BY <1>1 DEF IntraBlockStateType
<1> HIDE DEF t
<1>4. View(t) = View(s)
  BY <1>1, <1>2, <1>3, QuietView
<1>5. Knows(s, t)
  BY <1>3 DEF Knows
<1>6. Stores(s, t)
  <2>1. \A b \in Address : ObjectOf(t, b) = ObjectOf(s, b)
    BY <1>3 DEF ObjectOf
  <2>2. QED BY <1>3, <2>1, FineFits DEF Stores
<1>7. Kept(t, v, B)
  BY <1>1, <1>2, <1>3, <1>4, <1>5, <1>6, QuietKept DEF Fine
<1>8. QED BY <1>2, <1>3, <1>7 DEF Fine, t

\* Replacing an object by its successor, journalled, keeps the history.
LEMMA ObjectFine ==
    ASSUME NEW s, NEW d \in Delta, NEW a \in Address, NEW o \in Object, NEW v, NEW B,
           Fine(s, v, B), Good(WithObject(s, d, a, o)),
           IsObjectDelta(d), d.address = a, Replaced(d) = ObjectOf(s, a),
           KnownObject(s, a, o), Succeeds(ObjectOf(s, a), o)
    PROVE  Fine(WithObject(s, d, a, o), v, B)
<1> DEFINE t == WithObject(s, d, a, o)
           p == ObjectOf(s, a)
<1>1. s \in IntraBlockStateType /\ Good(s)
  BY DEF Fine, Good
<1>2. /\ t \in IntraBlockStateType
      /\ t.db = s.db /\ t.storage = s.storage
      /\ t.journal = Append(s.journal, [delta |-> d, before |-> View(s)])
      /\ t.objects[a] = o
      /\ \A b \in Address \ {a} : t.objects[b] = s.objects[b]
  BY SMTT(30), <1>1, SetObjectFields
<1>3. t.code = s.code
  BY <1>1 DEF WithObject, Journalled, IntraBlockStateType
<1>4. Good(t)
  OBVIOUS
<1> HIDE DEF t
<1>5. ObjectOf(t, a) = o /\ \A b \in Address \ {a} : ObjectOf(t, b) = ObjectOf(s, b)
  BY <1>2, ValuesAssumption DEF ObjectOf
<1>6. Knows(s, t)
  BY <1>2, <1>3 DEF Knows, KnownObject
<1>7. Stores(s, t)
  <2>1. Fits(t.db, ObjectOf(t, a), t.storage[a], a)
    <3>1. Fits(s.db, p, s.storage[a], a)
      BY FineFits
    <3>2. CleanDb(s.db)
      BY DEF Fine
    <3> HIDE DEF p
    <3>3. Fits(s.db, o, s.storage[a], a)
      BY <3>1, <3>2, FitsSuccessor DEF p
    <3>4. QED BY <1>2, <1>5, <3>3
  <2>2. \A b \in Address \ {a} : Fits(t.db, ObjectOf(t, b), t.storage[b], b)
    BY <1>2, <1>5, FineFits
  <2>3. QED BY <1>2, <2>1, <2>2 DEF Stores
<1>8. Steady(View(s), View(t))
  <2>1. ASSUME NEW b \in Address, Alive(View(s).objects[b])
        PROVE  /\ SameGeneration(View(s).objects[b], View(t).objects[b])
               /\ View(t).slots[b] = View(s).slots[b]
    <3>1. /\ View(s).objects[b] = ObjectOf(s, b) /\ View(t).objects[b] = ObjectOf(t, b)
          /\ View(s).slots[b] = Slots(s.db, ObjectOf(s, b), s.storage[b], b)
          /\ View(t).slots[b] = Slots(s.db, ObjectOf(t, b), s.storage[b], b)
      BY <1>2 DEF View
    <3>2. SameGeneration(ObjectOf(s, b), ObjectOf(t, b))
      <4>1. CASE b = a
        BY <1>5, <2>1, <3>1, <4>1 DEF Succeeds
      <4>2. CASE b # a
        BY <1>5, <2>1, <3>1, <4>2 DEF SameGeneration
      <4>3. QED BY <4>1, <4>2
    <3>3. Slots(s.db, ObjectOf(s, b), s.storage[b], b) = Slots(s.db, ObjectOf(t, b), s.storage[b], b)
      BY SMTT(30), <3>2, SlotsOfGeneration
    <3>4. QED BY <3>1, <3>2, <3>3
  <2>2. QED BY <2>1 DEF Steady
<1>9. Sound(t, d)
  <2>1. d.type = "Create" \/ d.type = "Update"
    BY DEF IsObjectDelta
  <2>2. d.type = "Update" => KnownObject(t, d.address, d.previous)
    <3>1. ASSUME d.type = "Update"
          PROVE  KnownObject(t, a, ObjectOf(s, a))
      <4>1. ObjectOf(s, a) \in Object /\ None \notin Object
        BY <3>1, ValuesAssumption DEF Replaced, Delta
      <4>2. KnownObject(s, a, ObjectOf(s, a))
        BY <1>1, <4>1, KnownObjectOf DEF Fine, Kept, History
      <4>3. QED BY <1>6, <4>2, KnownGrows
    <3>2. QED BY <3>1 DEF Replaced
  <2>3. QED BY <1>5, <2>1, <2>2 DEF Sound, IsStorageDelta
<1>10. Kept(t, v, B)
  BY <1>1, <1>2, <1>6, <1>7, <1>8, <1>9, AppendKept DEF Fine
<1>11. QED BY <1>2, <1>4, <1>10 DEF Fine, t

\* get_object finds nothing only where db has no account.
LEMMA NoObject ==
    ASSUME NEW s \in IntraBlockStateType, NEW a \in Address, ObjectOf(s, a) = None
    PROVE  s.objects[a] = None /\ s.db.accounts[a] = None
<1>1. s.objects[a] = None
  BY DEF ObjectOf
<1>2. CASE s.db.accounts[a] # None
  <2>1. s.db.accounts[a] \in Account
    BY <1>2 DEF IntraBlockStateType, StateBuffer
  <2>2. ObjectOf(s, a) = [initial |-> s.db.accounts[a], current |-> s.db.accounts[a]]
    BY <1>1, <1>2 DEF ObjectOf
  <2>3. ObjectOf(s, a) \in Object
    BY SMTT(30), <2>1, <2>2 DEF Object
  <2>4. QED BY <2>3, ValuesAssumption
<1>3. QED BY <1>1, <1>2

\* get_or_create_object keeps the history.
LEMMA GetOrCreateFine ==
    ASSUME NEW s, NEW a \in Address, NEW v, NEW B, Fine(s, v, B)
    PROVE  LET t == GetOrCreateObject(s, a)
           IN /\ Fine(t, v, B) /\ t \in IntraBlockStateType
              /\ t.objects[a] \in Object /\ t.objects[a].current \in Account
<1> DEFINE t == GetObject(s, a)
           u == GetOrCreateObject(s, a)
           obj == t.objects[a]
<1>1. s \in IntraBlockStateType /\ Good(s) /\ Fine(t, v, B)
  BY GetObjectFine DEF Fine, Good
<1>2. Good(u) /\ u \in IntraBlockStateType /\ u.objects[a] \in Object /\ u.objects[a].current \in Account
  BY <1>1, GetOrCreateExtends DEF Extends, Good
<1>3. t \in IntraBlockStateType /\ Good(t) /\ ObjectOf(t, a) = obj /\ obj \in Object \cup {None}
  BY <1>1, GetObjectQuiet, ObjectOfType DEF Fine, Good
<1>4. EmptyAccount \in Account /\ None \notin Account /\ None \notin Object
      /\ EmptyAccount.incarnation = 0 /\ EmptyAccount.code_hash = EmptyHash
  BY EmptyAccountType, ValuesAssumption DEF EmptyAccount
<1>5. CASE obj = None
  <2> DEFINE d == CreateDelta(a)
             o == [initial |-> None, current |-> EmptyAccount]
  <2>1. d \in Delta /\ IsObjectDelta(d) /\ d.address = a /\ Replaced(d) = None
    BY DEF CreateDelta, Delta, IsObjectDelta, Replaced
  <2>2. u = WithObject(t, d, a, o)
    BY <1>5 DEF GetOrCreateObject, WithObject
  <2>3. o \in Object /\ o.initial = None /\ o.current = EmptyAccount
    BY <1>4 DEF Object
  <2> HIDE DEF o, d, t
  <2>4. t.db.accounts[a] = None
    BY <1>3, <1>5, NoObject
  <2>5. KnownObject(t, a, o)
    BY <1>4, <2>3, <2>4 DEF KnownObject
  <2>6. Succeeds(ObjectOf(t, a), o)
    <3>1. ~Alive(ObjectOf(t, a))
      BY <1>3, <1>5 DEF Alive
    <3>2. Alive(o) /\ o.current.incarnation = 0
      BY <1>4, <2>3 DEF Alive
    <3>3. QED BY <3>1, <3>2 DEF Succeeds
  <2>7. Fine(u, v, B)
    BY <1>1, <1>2, <1>3, <1>5, <2>1, <2>2, <2>3, <2>5, <2>6, ObjectFine
  <2>8. QED BY <1>2, <2>7
<1>6. CASE obj # None /\ obj.current = None
  <2> DEFINE d == UpdateDelta(a, obj)
             o == [obj EXCEPT !.current = EmptyAccount]
  <2>1. d \in Delta /\ IsObjectDelta(d) /\ d.address = a /\ Replaced(d) = obj
    BY <1>3, <1>6 DEF UpdateDelta, Delta, IsObjectDelta, Replaced
  <2>2. u = WithObject(t, d, a, o)
    BY <1>3, <1>6 DEF GetOrCreateObject, WithObject, Journalled, IntraBlockStateType
  <2>3. o \in Object /\ o.initial = obj.initial /\ o.current = EmptyAccount
    BY <1>3, <1>4, <1>6 DEF Object
  <2>4. KnownObject(t, a, obj)
    BY <1>1, <1>3, <1>6, KnownObjectOf DEF Fine, Kept, History
  <2> HIDE DEF o, d, t
  <2>5. KnownObject(t, a, o)
    BY <1>4, <2>3, <2>4 DEF KnownObject
  <2>6. Succeeds(ObjectOf(t, a), o)
    <3>1. ~Alive(ObjectOf(t, a))
      BY <1>3, <1>6 DEF Alive
    <3>2. Alive(o) /\ o.current.incarnation = 0
      BY <1>4, <2>3 DEF Alive
    <3>3. QED BY <3>1, <3>2 DEF Succeeds
  <2>7. Fine(u, v, B)
    BY <1>1, <1>2, <1>3, <2>1, <2>2, <2>3, <2>5, <2>6, ObjectFine
  <2>8. QED BY <1>2, <2>7
<1>7. CASE obj # None /\ obj.current # None
  <2>1. u = t
    BY <1>7 DEF GetOrCreateObject
  <2>2. QED BY <1>1, <1>2, <2>1
<1>8. QED BY <1>5, <1>6, <1>7

\* The assignment to obj.current of set_balance, set_nonce and set_code
\* keeps the history, once the code of the account is in code_.
LEMMA SetCurrentFine ==
    ASSUME NEW s, NEW a \in Address, NEW account \in Account, NEW v, NEW B, Fine(s, v, B),
           s.objects[a] \in Object, s.objects[a].current \in Account,
           account.incarnation = s.objects[a].current.incarnation,
           \/ account.code_hash = s.objects[a].current.code_hash
           \/ account.code_hash \in s.code
    PROVE  Fine(SetCurrent(s, a, account), v, B)
<1> DEFINE obj == s.objects[a]
           d == UpdateDelta(a, obj)
           o == [obj EXCEPT !.current = account]
           t == SetCurrent(s, a, account)
<1>1. s \in IntraBlockStateType /\ Good(s)
  BY DEF Fine, Good
<1>2. Good(t)
  BY <1>1, UpdateAccountExtends DEF Extends
<1>3. None \notin Account /\ None \notin Object
  BY ValuesAssumption
<1>4. d \in Delta /\ IsObjectDelta(d) /\ d.address = a /\ Replaced(d) = obj
  BY DEF UpdateDelta, Delta, IsObjectDelta, Replaced
<1>5. o \in Object /\ o.initial = obj.initial /\ o.current = account
  BY DEF Object
<1>6. t = WithObject(s, d, a, o)
  BY <1>1 DEF SetCurrent, WithObject, Journalled, IntraBlockStateType
<1>7. ObjectOf(s, a) = obj
  BY <1>3 DEF ObjectOf
<1>8. KnownObject(s, a, obj)
  BY <1>1, <1>3, <1>7, KnownObjectOf DEF Fine, Kept, History
<1>9. obj # None /\ obj.current # None
  BY <1>3
<1> HIDE DEF o, d, t, obj
<1>10. KnownObject(s, a, o)
  BY <1>5, <1>8, <1>9 DEF KnownObject, SameIncarnation, Alive, obj
<1>11. Succeeds(ObjectOf(s, a), o)
  <2>1. SameGeneration(obj, o)
    BY <1>3, <1>5, <1>9 DEF SameGeneration, Alive, obj
  <2>2. QED BY <1>7, <2>1 DEF Succeeds
<1>12. Fine(t, v, B)
  BY <1>2, <1>4, <1>5, <1>6, <1>7, <1>10, <1>11, ObjectFine
<1>13. QED BY <1>12 DEF t

\* A change of the substate, journalled or not, keeps the history.
LEMMA SubstateFine ==
    ASSUME NEW s, NEW t, NEW d \in Delta, NEW v, NEW B, Fine(s, v, B), Extends(s, t),
           SameAccounts(s, t), t.code = s.code,
           \/ t.journal = s.journal
           \/ t.journal = Append(s.journal, [delta |-> d, before |-> View(s)]),
           d.type \in {"Suicide", "Touch", "AccountAccess", "StorageAccess"},
           ~(d.type = "Touch" /\ d.address = Ripemd)
    PROVE  Fine(t, v, B)
<1>1. s \in IntraBlockStateType /\ Good(s)
  BY DEF Fine, Good
<1>2. t \in IntraBlockStateType /\ Good(t)
  BY DEF Extends, Good
<1>3. Knows(s, t)
  BY DEF Knows, SameAccounts
<1>4. Stores(s, t)
  <2>1. \A b \in Address : ObjectOf(t, b) = ObjectOf(s, b)
    BY DEF ObjectOf, SameAccounts
  <2>2. QED BY <2>1, FineFits DEF Stores, SameAccounts
<1>5. Steady(View(s), View(t))
  <2>1. View(t).objects = View(s).objects /\ View(t).slots = View(s).slots
    BY DEF View, SameAccounts, ObjectOf
  <2>2. QED BY <2>1 DEF Steady, SameGeneration
<1>6. Sound(t, d)
  BY DEF Sound, IsStorageDelta, IsObjectDelta
<1>7. Kept(t, v, B)
  <2>1. CASE t.journal = s.journal
    <3>1. View(t) = View(s)
      BY <1>1, <2>1, QuietView
    <3>2. QED BY <1>1, <1>2, <1>3, <1>4, <2>1, <3>1, QuietKept DEF Fine
  <2>2. CASE t.journal = Append(s.journal, [delta |-> d, before |-> View(s)])
    BY <1>1, <1>2, <1>3, <1>4, <1>5, <1>6, <2>2, AppendKept DEF Fine
  <2>3. QED BY <2>1, <2>2
<1>8. QED BY <1>2, <1>7 DEF Fine, SameAccounts

\* touch keeps the history: it journals no entry for RIPEMD-160.
LEMMA TouchFine ==
    ASSUME NEW s, NEW a \in Address, NEW v, NEW B, Fine(s, v, B)
    PROVE  Fine(Touch(s, a), v, B)
<1> DEFINE d == IF a = Ripemd THEN SuicideDelta(a) ELSE TouchDelta(a)
           j == Journalled(s, TouchDelta(a))
           t == Touch(s, a)
<1>1. s \in IntraBlockStateType /\ Good(s) /\ Extends(s, t)
  BY TouchExtends DEF Fine, Good
<1>2. TouchDelta(a) \in Delta
  BY DEF TouchDelta, Delta
<1>3. /\ d \in Delta /\ ~(d.type = "Touch" /\ d.address = Ripemd)
      /\ d.type \in {"Suicide", "Touch", "AccountAccess", "StorageAccess"}
  BY DEF TouchDelta, SuicideDelta, Delta
<1>4. /\ j \in IntraBlockStateType /\ SameAccounts(s, j) /\ j.code = s.code
      /\ j.journal = Append(s.journal, [delta |-> TouchDelta(a), before |-> View(s)])
  BY <1>1, <1>2, JournalledFields
<1>5. CASE a \in s.touched \/ a = Ripemd
  <2>1. t = [s EXCEPT !.touched = s.touched \cup {a}]
    BY <1>5 DEF Touch
  <2>2. SameAccounts(s, t) /\ t.code = s.code /\ t.journal = s.journal
    BY <1>1, <2>1 DEF IntraBlockStateType, SameAccounts
  <2> HIDE DEF t, d
  <2>3. Fine(t, v, B)
    BY <1>1, <1>3, <2>2, SubstateFine
  <2>4. QED BY <2>3 DEF t
<1>6. CASE ~(a \in s.touched \/ a = Ripemd)
  <2>1. t = [j EXCEPT !.touched = j.touched \cup {a}] /\ d = TouchDelta(a)
    BY <1>6 DEF Touch
  <2> HIDE DEF j, t, d
  <2>2. SameAccounts(j, t) /\ t.code = j.code /\ t.journal = j.journal
    BY <1>4, <2>1 DEF IntraBlockStateType, SameAccounts
  <2>3. SameAccounts(s, t) /\ t.code = s.code
        /\ t.journal = Append(s.journal, [delta |-> d, before |-> View(s)])
    BY <1>4, <2>1, <2>2 DEF SameAccounts
  <2>4. Fine(t, v, B)
    BY SMTT(30), <1>1, <1>3, <2>3, SubstateFine
  <2>5. QED BY <2>4 DEF t
<1>7. QED BY <1>5, <1>6

\* record_suicide keeps the history.
LEMMA RecordSuicideFine ==
    ASSUME NEW s, NEW a \in Address, NEW v, NEW B, Fine(s, v, B)
    PROVE  Fine(RecordSuicide(s, a), v, B)
<1> DEFINE d == SuicideDelta(a)
           j == Journalled(s, d)
           t == RecordSuicide(s, a)
<1>1. s \in IntraBlockStateType /\ Good(s) /\ Extends(s, t)
  BY RecordSuicideExtends DEF Fine, Good
<1>2. d \in Delta /\ d.type = "Suicide"
  BY DEF SuicideDelta, Delta
<1>3. /\ j \in IntraBlockStateType /\ SameAccounts(s, j) /\ j.code = s.code
      /\ j.journal = Append(s.journal, [delta |-> d, before |-> View(s)])
  BY <1>1, <1>2, JournalledFields
<1>4. t = s \/ t = [j EXCEPT !.self_destructs = j.self_destructs \cup {a}]
  BY DEF RecordSuicide
<1> HIDE DEF j, t, d
<1>5. \/ t = s
      \/ SameAccounts(j, t) /\ t.code = j.code /\ t.journal = j.journal
  BY <1>3, <1>4 DEF IntraBlockStateType, SameAccounts
<1>6. SameAccounts(s, t) /\ t.code = s.code
      /\ (t.journal = s.journal \/ t.journal = Append(s.journal, [delta |-> d, before |-> View(s)]))
  BY <1>3, <1>5 DEF SameAccounts
<1>7. Fine(t, v, B)
  BY SMTT(30), <1>1, <1>2, <1>6, SubstateFine
<1>8. QED BY <1>7 DEF t

\* access_account keeps the history.
LEMMA AccessAccountFine ==
    ASSUME NEW s, NEW a \in Address, NEW v, NEW B, Fine(s, v, B)
    PROVE  Fine(AccessAccount(s, a), v, B)
<1> DEFINE d == AccountAccessDelta(a)
           j == Journalled(s, d)
           t == AccessAccount(s, a)
<1>1. s \in IntraBlockStateType /\ Good(s) /\ Extends(s, t)
  BY AccessAccountExtends DEF Fine, Good
<1>2. d \in Delta /\ d.type = "AccountAccess"
  BY DEF AccountAccessDelta, Delta
<1>3. /\ j \in IntraBlockStateType /\ SameAccounts(s, j) /\ j.code = s.code
      /\ j.journal = Append(s.journal, [delta |-> d, before |-> View(s)])
  BY <1>1, <1>2, JournalledFields
<1>4. t = s \/ t = [j EXCEPT !.accessed_addresses = j.accessed_addresses \cup {a}]
  BY DEF AccessAccount
<1> HIDE DEF j, t, d
<1>5. \/ t = s
      \/ SameAccounts(j, t) /\ t.code = j.code /\ t.journal = j.journal
  BY <1>3, <1>4 DEF IntraBlockStateType, SameAccounts
<1>6. SameAccounts(s, t) /\ t.code = s.code
      /\ (t.journal = s.journal \/ t.journal = Append(s.journal, [delta |-> d, before |-> View(s)]))
  BY <1>3, <1>5 DEF SameAccounts
<1>7. Fine(t, v, B)
  BY SMTT(30), <1>1, <1>2, <1>6, SubstateFine
<1>8. QED BY <1>7 DEF t

\* access_storage keeps the history.
LEMMA AccessStorageFine ==
    ASSUME NEW s, NEW a \in Address, NEW k \in Key, NEW v, NEW B, Fine(s, v, B)
    PROVE  Fine(AccessStorage(s, a, k), v, B)
<1> DEFINE d == StorageAccessDelta(a, k)
           j == Journalled(s, d)
           t == AccessStorage(s, a, k)
<1>1. s \in IntraBlockStateType /\ Good(s) /\ Extends(s, t)
  BY AccessStorageExtends DEF Fine, Good
<1>2. d \in Delta /\ d.type = "StorageAccess"
  BY DEF StorageAccessDelta, Delta
<1>3. /\ j \in IntraBlockStateType /\ SameAccounts(s, j) /\ j.code = s.code
      /\ j.journal = Append(s.journal, [delta |-> d, before |-> View(s)])
  BY <1>1, <1>2, JournalledFields
<1>4. t = s \/ t = [j EXCEPT !.accessed_storage_keys = j.accessed_storage_keys \cup {<<a, k>>}]
  BY DEF AccessStorage
<1> HIDE DEF j, t, d
<1>5. \/ t = s
      \/ SameAccounts(j, t) /\ t.code = j.code /\ t.journal = j.journal
  BY <1>3, <1>4 DEF IntraBlockStateType, SameAccounts
<1>6. SameAccounts(s, t) /\ t.code = s.code
      /\ (t.journal = s.journal \/ t.journal = Append(s.journal, [delta |-> d, before |-> View(s)]))
  BY <1>3, <1>5 DEF SameAccounts
<1>7. Fine(t, v, B)
  BY SMTT(30), <1>1, <1>2, <1>6, SubstateFine
<1>8. QED BY <1>7 DEF t

\* set_balance, and add_to_balance and subtract_from_balance through it,
\* keep the history.
LEMMA SetBalanceFine ==
    ASSUME NEW s, NEW a \in Address, NEW balance \in Uint, NEW v, NEW B, Fine(s, v, B)
    PROVE  Fine(SetBalance(s, a, balance), v, B)
<1> DEFINE t == GetOrCreateObject(s, a)
           account == [t.objects[a].current EXCEPT !.balance = balance]
           u == SetCurrent(t, a, account)
<1>1. Fine(t, v, B) /\ t.objects[a] \in Object /\ t.objects[a].current \in Account
  BY GetOrCreateFine
<1> HIDE DEF t
<1>2. /\ account \in Account /\ account.incarnation = t.objects[a].current.incarnation
      /\ account.code_hash = t.objects[a].current.code_hash
  BY <1>1 DEF Account
<1> HIDE DEF account
<1>3. Fine(u, v, B)
  BY <1>1, <1>2, SetCurrentFine
<1> HIDE DEF u
<1>4. Fine(Touch(u, a), v, B)
  BY <1>3, TouchFine
<1>5. QED BY <1>4 DEF SetBalance, u, account, t

\* set_nonce keeps the history.
LEMMA SetNonceFine ==
    ASSUME NEW s, NEW a \in Address, NEW nonce \in Nat, NEW v, NEW B, Fine(s, v, B)
    PROVE  Fine(SetNonce(s, a, nonce), v, B)
<1> DEFINE t == GetOrCreateObject(s, a)
           account == [t.objects[a].current EXCEPT !.nonce = nonce]
           u == SetCurrent(t, a, account)
<1>1. Fine(t, v, B) /\ t.objects[a] \in Object /\ t.objects[a].current \in Account
  BY GetOrCreateFine
<1> HIDE DEF t
<1>2. /\ account \in Account /\ account.incarnation = t.objects[a].current.incarnation
      /\ account.code_hash = t.objects[a].current.code_hash
  BY <1>1 DEF Account
<1> HIDE DEF account
<1>3. Fine(u, v, B)
  BY <1>1, <1>2, SetCurrentFine
<1>4. QED BY <1>3 DEF SetNonce, u, account, t

\* set_code keeps the history: what it adds to code_ is the code of the
\* account it sets.
LEMMA SetCodeFine ==
    ASSUME NEW s, NEW a \in Address, NEW hash \in Code, NEW v, NEW B, Fine(s, v, B)
    PROVE  Fine(SetCode(s, a, hash), v, B)
<1> DEFINE t == GetOrCreateObject(s, a)
           account == [t.objects[a].current EXCEPT !.code_hash = hash]
           codes == t.code \cup {hash}
           u == [t EXCEPT !.code = codes]
<1>1. /\ Fine(t, v, B) /\ t \in IntraBlockStateType
      /\ t.objects[a] \in Object /\ t.objects[a].current \in Account
  BY GetOrCreateFine
<1> HIDE DEF t
<1>2. codes \in SUBSET Code /\ t.code \subseteq codes /\ hash \in codes
  BY <1>1 DEF IntraBlockStateType
<1>3. /\ account \in Account /\ account.incarnation = t.objects[a].current.incarnation
      /\ account.code_hash = hash
  BY <1>1 DEF Account
<1> HIDE DEF account
<1>4. SetCode(s, a, hash) = SetCurrent(u, a, account)
  <2> DEFINE j == Append(t.journal, [delta |-> UpdateDelta(a, t.objects[a]), before |-> View(t)])
             o == [t.objects EXCEPT ![a].current = account]
  <2>1. SetCode(s, a, hash) = [SetCurrent(t, a, account) EXCEPT !.code = @ \cup {hash}]
    BY DEF SetCode, t, account
  <2>2. u \in IntraBlockStateType /\ u.objects = t.objects /\ u.journal = t.journal /\ View(u) = View(t)
    <3>1. Extends(t, u) /\ u.objects = t.objects /\ u.journal = t.journal
      BY <1>1, <1>2, CodeQuiet DEF Fine, IntraBlockStateType
    <3>2. QED BY <1>1, <3>1, QuietView DEF Fine, Extends, Good
  <2>3. SetCurrent(t, a, account) = [t EXCEPT !.journal = j, !.objects = o]
    BY <1>1 DEF SetCurrent, Journalled, IntraBlockStateType
  <2>4. SetCurrent(u, a, account) = [u EXCEPT !.journal = j, !.objects = o]
    <3> HIDE DEF u
    <3>1. SetCurrent(u, a, account) =
            [u EXCEPT !.journal = Append(u.journal, [delta |-> UpdateDelta(a, u.objects[a]), before |-> View(u)]),
                      !.objects = [u.objects EXCEPT ![a].current = account]]
      BY <2>2 DEF SetCurrent, Journalled, IntraBlockStateType
    <3>2. QED BY <2>2, <3>1
  <2> HIDE DEF j, o
  <2>5. [[t EXCEPT !.journal = j, !.objects = o] EXCEPT !.code = @ \cup {hash}]
          = [u EXCEPT !.journal = j, !.objects = o]
    BY <1>1 DEF IntraBlockStateType
  <2>6. QED BY <2>1, <2>3, <2>4, <2>5
<1>5. Fine(u, v, B) /\ u.objects = t.objects /\ u.code = codes
  BY <1>1, <1>2, CodeFine DEF IntraBlockStateType
<1> HIDE DEF u, codes
<1>6. Fine(SetCurrent(u, a, account), v, B)
  BY <1>1, <1>2, <1>3, <1>5, SetCurrentFine
<1>7. QED BY <1>4, <1>6

\* get_code keeps the history.
LEMMA GetCodeFine ==
    ASSUME NEW s, NEW a \in Address, NEW v, NEW B, Fine(s, v, B)
    PROVE  Fine(GetCode(s, a), v, B)
<1> DEFINE t == GetObject(s, a)
           codes == t.code \cup ({CodeHash(s, a)} \ {EmptyHash})
<1>1. Fine(t, v, B) /\ t \in IntraBlockStateType /\ s \in IntraBlockStateType
  BY GetObjectFine DEF Fine, Good
<1> HIDE DEF t
<1>2. CodeHash(s, a) \in Code
  <2>1. ObjectOf(s, a) \in Object \cup {None}
    BY <1>1, ObjectOfType
  <2>2. QED BY <2>1, ValuesAssumption DEF CodeHash, Exists, Alive, Object, Account
<1>3. codes \in SUBSET Code /\ t.code \subseteq codes
  BY <1>1, <1>2 DEF IntraBlockStateType
<1> HIDE DEF codes
<1>4. Fine([t EXCEPT !.code = codes], v, B)
  BY <1>1, <1>3, CodeFine
<1>5. QED BY <1>4 DEF GetCode, codes, t

-----------------------------------------------------------------------------
\* Caching in one storage keeps the history, when what is cached fits.
LEMMA StorageFine ==
    ASSUME NEW s, NEW a \in Address, NEW sto \in Storage, NEW v, NEW B, Fine(s, v, B),
           Extends(s, WithStorage(s, a, sto)), Fits(s.db, ObjectOf(s, a), sto, a),
           \A k \in Key : HasSlot(s.storage[a], k) => HasSlot(sto, k)
    PROVE  Fine(WithStorage(s, a, sto), v, B)
<1> DEFINE t == WithStorage(s, a, sto)
<1>1. s \in IntraBlockStateType /\ Good(s)
  BY DEF Fine, Good
<1>2. /\ t \in IntraBlockStateType /\ t.db = s.db /\ t.objects = s.objects /\ t.journal = s.journal
      /\ t.storage[a] = sto /\ \A b \in Address \ {a} : t.storage[b] = s.storage[b]
  BY SMTT(30), <1>1, SetStorageFields
<1>3. t.code = s.code
  BY <1>1 DEF WithStorage, IntraBlockStateType
<1>4. Extends(s, t) /\ Good(t)
  BY DEF Extends
<1> HIDE DEF t
<1>5. View(t) = View(s)
  BY <1>1, <1>2, <1>4, QuietView
<1>6. Knows(s, t)
  BY <1>2, <1>3 DEF Knows
<1>7. Stores(s, t)
  <2>1. \A b \in Address : ObjectOf(t, b) = ObjectOf(s, b)
    BY <1>2 DEF ObjectOf
  <2>2. \A b \in Address : Fits(t.db, ObjectOf(t, b), t.storage[b], b)
    BY <1>2, <2>1, FineFits
  <2>3. QED BY <1>2, <2>2 DEF Stores
<1>8. Kept(t, v, B)
  BY <1>1, <1>2, <1>5, <1>6, <1>7, QuietKept DEF Fine
<1>9. QED BY <1>2, <1>4, <1>8 DEF Fine, t

\* get_storage keeps the history.  Afterwards the slot of a contract whose
\* storage is in db is cached, unless it was written to before.
LEMMA GetStorageFine ==
    ASSUME NEW s, NEW a \in Address, NEW k \in Key, NEW original \in BOOLEAN, NEW v, NEW B,
           Fine(s, v, B)
    PROVE  LET t == GetStorage(s, a, k, original)
           IN /\ Fine(t, v, B)
              /\ Alive(ObjectOf(s, a)) /\ SameIncarnation(ObjectOf(s, a)) => HasSlot(t.storage[a], k)
<1> DEFINE t == GetObject(s, a)
           obj == t.objects[a]
           sto == IF t.storage[a] = None THEN EmptyStorage ELSE t.storage[a]
           val == OriginalValue(t.db, obj, sto, a, k)
           entry == [initial |-> val, original |-> val]
           cached == [sto EXCEPT !.committed[k] = entry]
           r == GetStorage(s, a, k, original)
<1>1. /\ s \in IntraBlockStateType /\ Good(s) /\ Fine(t, v, B) /\ t \in IntraBlockStateType /\ t.db = s.db
      /\ obj = ObjectOf(s, a) /\ ObjectOf(t, a) = obj /\ Extends(s, t)
  BY GetObjectFine, GetObjectQuiet DEF Fine, Good, Extends
<1>2. obj \in Object \cup {None}
  BY <1>1, ObjectOfType
<1>3. t.storage[a] \in Storage \cup {None} /\ t.db \in StateBuffer
  <2> HIDE DEF t
  <2>1. QED BY <1>1 DEF IntraBlockStateType
<1>4. \/ r = t /\ ~Alive(obj)
      \/ /\ r = WithStorage(t, a, sto) /\ Alive(obj)
         /\ sto.current[k] # None \/ sto.committed[k] # None \/ ~SameIncarnation(obj)
      \/ /\ r = WithStorage(t, a, cached) /\ Alive(obj)
         /\ SameIncarnation(obj) /\ sto.committed[k] = None
  BY <1>1 DEF GetStorage, WithStorage
<1>5. Fits(t.db, obj, t.storage[a], a)
  BY <1>1, FineFits
<1> HIDE DEF t, obj, r
<1>6. /\ sto \in Storage /\ sto # None /\ Fits(t.db, obj, sto, a)
      /\ \A l \in Key : HasSlot(t.storage[a], l) => HasSlot(sto, l)
      /\ Slots(t.db, obj, sto, a) = Slots(t.db, obj, t.storage[a], a)
  <2>1. sto \in Storage /\ sto # None
    BY <1>3, EmptyStorageType, ValuesAssumption
  <2>2. Fits(t.db, obj, EmptyStorage, a)
    BY DEF Fits, EmptyStorage
  <2>3. QED BY <1>5, <2>1, <2>2, SlotsOfEmpty DEF HasSlot
<1> HIDE DEF sto
<1>7. CASE r = t /\ ~Alive(obj)
  BY <1>1, <1>7 DEF r
<1>8. CASE /\ r = WithStorage(t, a, sto) /\ Alive(obj)
           /\ sto.current[k] # None \/ sto.committed[k] # None \/ ~SameIncarnation(obj)
  <2>1. Extends(t, r)
    BY <1>1, <1>6, <1>8, StorageQuiet DEF Fine
  <2>2. Fine(r, v, B)
    BY <1>1, <1>6, <1>8, <2>1, StorageFine
  <2>3. r.storage[a] = sto
    BY SMTT(30), <1>1, <1>6, <1>8, SetStorageFields
  <2>4. SameIncarnation(obj) => HasSlot(sto, k)
    BY <1>6, <1>8 DEF Fits, HasSlot
  <2>5. QED BY <1>1, <2>2, <2>3, <2>4 DEF r
<1>9. CASE /\ r = WithStorage(t, a, cached) /\ Alive(obj)
           /\ SameIncarnation(obj) /\ sto.committed[k] = None
  <2>1. obj \in Object
    BY <1>2, <1>9 DEF Alive
  <2>2. cached \in Storage /\ Slots(t.db, obj, cached, a) = Slots(t.db, obj, sto, a)
    BY <1>3, <1>6, <1>9, <2>1, SlotsOfCached
  <2>3. val = BlockStart(t.db, obj, a, k) /\ val \in Value
    BY <1>1, <1>3, <1>6, <1>9, <2>1, ValueType DEF OriginalValue, BlockStart
  <2>4. entry # None /\ entry.initial = val /\ entry.original = val
    <3>1. entry \in CommittedValue /\ None \notin CommittedValue
      BY <2>3, ValuesAssumption DEF CommittedValue
    <3>2. QED BY <3>1
  <2> HIDE DEF entry
  <2>5. cached.current = sto.current /\ cached.committed[k] = entry
        /\ \A l \in Key \ {k} : cached.committed[l] = sto.committed[l]
    BY <1>6 DEF Storage
  <2> HIDE DEF cached, val
  <2>6. Fits(t.db, obj, cached, a)
    <3>1. ASSUME ~IsContract(obj)
          PROVE  val = Zero
      <4>1. obj.current.incarnation = 0
        <5>1. obj.current \in Account
          BY <1>9, <2>1 DEF Alive, Object
        <5>2. obj.current.incarnation \in Nat
          BY SMTT(30), <5>1, WidthAssumption DEF Account, Incarnation
        <5>3. QED BY SMTT(30), <1>9, <3>1, <5>2 DEF IsContract
      <4>2. CleanDb(t.db)
        BY <1>1 DEF Fine
      <4>3. QED BY <1>9, <2>3, <4>1, <4>2 DEF BlockStart, CleanDb
    <3>2. QED BY <1>6, <2>3, <2>4, <2>5, <3>1 DEF Fits
  <2>7. \A l \in Key : HasSlot(sto, l) => HasSlot(cached, l)
    BY <2>2, <2>4, <2>5, ValuesAssumption DEF HasSlot
  <2>8. Extends(t, r)
    BY <1>1, <1>6, <1>9, <2>2, StorageQuiet DEF Fine
  <2>9. Fine(r, v, B)
    BY <1>1, <1>6, <1>9, <2>2, <2>6, <2>7, <2>8, StorageFine
  <2>10. r.storage[a] = cached
    BY SMTT(30), <1>1, <1>9, <2>2, SetStorageFields
  <2>11. HasSlot(cached, k)
    BY <2>2, <2>4, <2>5, ValuesAssumption DEF HasSlot
  <2>12. QED BY <1>1, <2>9, <2>10, <2>11 DEF r
<1>10. QED BY <1>4, <1>7, <1>8, <1>9

\* set_storage keeps the history: the contract whose slot it writes to has
\* the slot's value in db cached by then.
LEMMA SetStorageFine ==
    ASSUME NEW s, NEW a \in Address, NEW k \in Key, NEW value \in Value, NEW v, NEW B,
           Fine(s, v, B), IsContract(ObjectOf(s, a))
    PROVE  Fine(SetStorage(s, a, k, value), v, B)
<1> DEFINE t == GetStorage(s, a, k, FALSE)
           obj == t.objects[a]
           sto == t.storage[a]
           prev == CurrentValue(s.db, obj, sto, a, k)
           d == StorageChangeDelta(a, k, prev)
           j == Journalled(t, d)
           written == Written(sto, k, value)
           u == WithStorage(j, a, written)
<1>0. Good(s) /\ s \in IntraBlockStateType /\ Alive(ObjectOf(s, a))
  BY DEF Fine, Good, IsContract
<1>1. /\ Fine(t, v, B) /\ Good(t) /\ t \in IntraBlockStateType /\ t.db = s.db
      /\ SameIncarnation(ObjectOf(s, a)) => HasSlot(t.storage[a], k)
  BY <1>0, GetStorageExtends, GetStorageFine DEF Extends, Good
<1>2. obj = ObjectOf(s, a) /\ sto \in Storage
  BY <1>0, GetStorageExtends
<1>3. obj \in Object /\ ObjectOf(t, a) = obj
  <2>1. obj \in Object
    BY <1>0, <1>2, ObjectOfType DEF Alive
  <2>2. QED BY <1>2, <2>1, ValuesAssumption DEF ObjectOf
<1>4. Good(SetStorage(s, a, k, value))
  BY <1>0, SetStorageExtends DEF Extends
<1> HIDE DEF t
<1>5. prev \in Value
  BY <1>0, <1>2, <1>3, ValueType DEF IntraBlockStateType
<1>6. CASE prev = value
  <2>1. SetStorage(s, a, k, value) = t
    BY <1>6 DEF SetStorage, t
  <2>2. QED BY <1>1, <2>1
<1>7. CASE prev # value
  <2>1. d \in Delta /\ d.type = "StorageChange" /\ d.address = a /\ d.key = k
    BY SMTT(60), <1>5 DEF StorageChangeDelta, Delta
  <2>2. /\ j \in IntraBlockStateType /\ SameAccounts(t, j) /\ j.code = t.code
        /\ j.journal = Append(t.journal, [delta |-> d, before |-> View(t)])
    BY <1>1, <2>1, JournalledFields
  <2>3. SetStorage(s, a, k, value) = u
    <3>1. SetStorage(s, a, k, value) = [j EXCEPT !.storage[a].current[k] = value]
      BY SMTT(60), <1>7 DEF SetStorage, t
    <3>2. j.storage[a] = sto
      BY <2>2 DEF SameAccounts
    <3> HIDE DEF j, sto
    <3>3. QED BY <3>1, <3>2 DEF Written, WithStorage
  <2> HIDE DEF j, d, prev, obj, sto
  <2>4. /\ written \in Storage /\ written.committed = sto.committed
        /\ \A l \in Key : written.current[l] # None => l = k \/ sto.current[l] # None
    BY <1>2 DEF Written, Storage
  <2>5. written # None /\ sto # None
    BY <1>2, <2>4, ValuesAssumption
  <2> HIDE DEF written
  <2>6. /\ u \in IntraBlockStateType /\ u.db = j.db /\ u.objects = j.objects
        /\ u.journal = j.journal /\ u.storage[a] = written
        /\ \A b \in Address \ {a} : u.storage[b] = j.storage[b]
    BY SMTT(60), <2>2, <2>4, SetStorageFields
  <2>7. u.code = j.code
    BY <2>2 DEF WithStorage, IntraBlockStateType
  <2>8. Good(u)
    BY <1>4, <2>3
  <2> HIDE DEF u
  <2>9. /\ u.db = t.db /\ u.objects = t.objects /\ u.code = t.code
        /\ u.journal = Append(t.journal, [delta |-> d, before |-> View(t)])
        /\ \A b \in Address \ {a} : u.storage[b] = t.storage[b]
        /\ \A b \in Address : ObjectOf(u, b) = ObjectOf(t, b)
    BY <2>2, <2>6, <2>7 DEF SameAccounts, ObjectOf
  <2>10. Knows(t, u)
    BY <2>9 DEF Knows
  <2>11. SameIncarnation(obj) => sto.committed[k] # None
    BY <1>1, <1>2 DEF HasSlot, sto
  <2>12. Stores(t, u)
    <3>1. Fits(t.db, obj, sto, a)
      BY <1>1, <1>3, FineFits DEF sto
    <3>2. Fits(u.db, ObjectOf(u, a), u.storage[a], a)
      <4>1. Fits(t.db, obj, written, a)
        BY <1>2, <2>4, <2>5, <2>11, <3>1 DEF Fits
      <4>2. QED BY <1>3, <2>6, <2>9, <4>1
    <3>3. \A b \in Address \ {a} : Fits(u.db, ObjectOf(u, b), u.storage[b], b)
      BY <1>1, <2>9, FineFits
    <3>4. ASSUME NEW b \in Address, NEW l \in Key, HasSlot(t.storage[b], l)
          PROVE  HasSlot(u.storage[b], l)
      BY <2>4, <2>5, <2>6, <2>9, <3>4 DEF HasSlot, sto
    <3>5. QED BY <3>2, <3>3, <3>4 DEF Stores
  <2>13. Steady(View(t), View(u))
    <3>1. ASSUME NEW b \in Address, NEW l \in Key
          PROVE  View(u).slots[b][l].original = View(t).slots[b][l].original
      <4>1. /\ View(u).slots[b][l].original = OriginalValue(u.db, ObjectOf(u, b), u.storage[b], b, l)
            /\ View(t).slots[b][l].original = OriginalValue(t.db, ObjectOf(t, b), t.storage[b], b, l)
        BY DEF View, Slots
      <4>2. CASE b = a
        BY <2>4, <2>5, <2>6, <2>9, <4>1, <4>2 DEF OriginalValue, sto
      <4>3. CASE b # a
        BY <2>9, <4>1, <4>3
      <4>4. QED BY <4>2, <4>3
    <3>2. \A b \in Address : View(u).objects[b] = View(t).objects[b]
      BY <2>9 DEF View
    <3>3. QED BY <3>1, <3>2 DEF Steady, SameGeneration
  <2>14. Sound(u, d)
    <3>1. ObjectOf(u, a) = obj /\ IsContract(obj)
      BY <1>2, <1>3, <2>9
    <3>2. SameIncarnation(obj) => HasSlot(u.storage[a], k)
      BY <2>4, <2>5, <2>6, <2>11 DEF HasSlot
    <3>3. QED BY <2>1, <3>1, <3>2 DEF Sound, IsStorageDelta, IsObjectDelta
  <2>15. Kept(u, v, B)
    BY <1>1, <2>1, <2>6, <2>9, <2>10, <2>12, <2>13, <2>14, AppendKept DEF Fine
  <2>16. Fine(u, v, B)
    BY <1>1, <2>8, <2>9, <2>15 DEF Fine
  <2>17. QED BY <2>3, <2>16
<1>8. QED BY <1>6, <1>7

-----------------------------------------------------------------------------
\* Later is transitive on observations.
LEMMA LaterTransitive ==
    ASSUME NEW u \in ViewType, NEW v \in ViewType, NEW w \in ViewType, Later(u, v), Later(v, w)
    PROVE  Later(u, w)
<1> DEFINE N(x, a) == x.objects[a].current.incarnation
<1>1. ASSUME NEW x \in ViewType, NEW a \in Address, Alive(x.objects[a])
      PROVE  N(x, a) \in Int
  <2>1. x.objects[a] \in Object
    BY <1>1 DEF ViewType, Alive
  <2>2. x.objects[a].current \in Account
    BY <1>1, <2>1 DEF Object, Alive
  <2>3. N(x, a) \in Incarnation
    BY <2>2 DEF Account
  <2>4. QED BY SMTT(30), <2>3, WidthAssumption DEF Incarnation
<1>2. ASSUME NEW a \in Address, Alive(u.objects[a])
      PROVE  /\ Alive(w.objects[a]) /\ w.objects[a].initial = u.objects[a].initial
             /\ \/ N(w, a) > N(u, a)
                \/ /\ N(w, a) = N(u, a)
                   /\ \A k \in Key : w.slots[a][k].original = u.slots[a][k].original
  <2>1. /\ Alive(v.objects[a]) /\ v.objects[a].initial = u.objects[a].initial
        /\ \/ N(v, a) > N(u, a)
           \/ /\ N(v, a) = N(u, a)
              /\ \A k \in Key : v.slots[a][k].original = u.slots[a][k].original
    BY <1>2 DEF Later
  <2>2. /\ Alive(w.objects[a]) /\ w.objects[a].initial = v.objects[a].initial
        /\ \/ N(w, a) > N(v, a)
           \/ /\ N(w, a) = N(v, a)
              /\ \A k \in Key : w.slots[a][k].original = v.slots[a][k].original
    BY <2>1 DEF Later
  <2>3. N(u, a) \in Int /\ N(v, a) \in Int /\ N(w, a) \in Int
    BY <1>1, <1>2, <2>1, <2>2
  <2> HIDE DEF N
  <2>4. QED BY SMTT(30), <2>1, <2>2, <2>3
<1>3. QED BY <1>2 DEF Later

\* The two entries of create_contract keep the history: d keeps the object
\* that is replaced and e the storage that belongs to it.
LEMMA AppendTwoKept ==
    ASSUME NEW s \in IntraBlockStateType, NEW t \in IntraBlockStateType, NEW w \in IntraBlockStateType,
           NEW d \in Delta, NEW e \in Delta, NEW a \in Address, NEW v \in ViewType, NEW B, Fine(s, v, B),
           t.journal = Append(s.journal, [delta |-> d, before |-> View(s)]),
           w.journal = Append(t.journal, [delta |-> e, before |-> View(t)]),
           IsObjectDelta(d), d.address = a, Replaced(d) = ObjectOf(s, a),
           IsStorageDelta(e), e.address = a, WipedStorage(e) = s.storage[a],
           Later(View(s), View(t)), Later(View(s), View(w)), Knows(s, w),
           w.storage[a] = None,
           \A b \in Address \ {a} : w.storage[b] = s.storage[b] /\ ObjectOf(w, b) = ObjectOf(s, b)
    PROVE  Kept(w, v, B)
<1> DEFINE n == Len(s.journal)
           D(i) == w.journal[i].delta
<1>1. /\ n \in Nat /\ Len(w.journal) = n + 2
      /\ \A j \in 1 .. n : w.journal[j] = s.journal[j] /\ s.journal[j].delta \in Delta
      /\ D(n + 1) = d /\ D(n + 2) = e
      /\ \A j \in 0 .. n : ViewAt(w, j) = ViewAt(s, j)
      /\ ViewAt(w, n + 1) = View(t) /\ ViewAt(w, n + 2) = View(w)
  <2>1. /\ n \in Nat /\ Len(t.journal) = n + 1
        /\ \A j \in 1 .. n : t.journal[j] = s.journal[j] /\ s.journal[j].delta \in Delta
        /\ t.journal[n + 1].delta = d
        /\ \A j \in 0 .. n : ViewAt(t, j) = ViewAt(s, j)
        /\ ViewAt(t, n + 1) = View(t)
    BY AppendViews
  <2>2. /\ Len(w.journal) = Len(t.journal) + 1
        /\ \A j \in 1 .. Len(t.journal) : w.journal[j] = t.journal[j]
        /\ w.journal[Len(t.journal) + 1].delta = e
        /\ \A j \in 0 .. Len(t.journal) : ViewAt(w, j) = ViewAt(t, j)
        /\ ViewAt(w, Len(t.journal) + 1) = View(w)
    BY SMTT(30), AppendViews
  <2> HIDE DEF n
  <2>3. /\ \A j \in 1 .. n : j \in 1 .. n + 1
        /\ \A j \in 0 .. n : j \in 0 .. n + 1
        /\ n + 1 \in 1 .. n + 1 /\ n + 1 \in 0 .. n + 1 /\ n + 1 + 1 = n + 2
    BY SMTT(30), <2>1
  <2>4. QED BY <2>1, <2>2, <2>3
<1>2. /\ ~IsStorageDelta(d) /\ ~IsObjectDelta(e) /\ d.type # "Touch" /\ e.type # "Touch"
      /\ d.type # "StorageChange" /\ e.type # "StorageChange"
  BY DEF IsStorageDelta, IsObjectDelta
<1>3. /\ Recorded(s) /\ Aged(s, n, v) /\ WipesPaired(s) /\ Generations(s, n) /\ SlotsKept(s, n)
      /\ Whole(s, B)
  BY DEF Fine, Kept, History
<1> HIDE DEF n
<1>4. \A i \in 1 .. n + 2 : i \in 1 .. n \/ i = n + 1 \/ i = n + 2
  BY SMTT(30), <1>1
<1>5. Recorded(w)
  <2>1. ASSUME NEW b \in Address, w.objects[b] # None
        PROVE  KnownObject(w, b, w.objects[b])
    BY <1>3, <2>1, KnownGrows DEF Recorded, Knows
  <2>2. d.type = "Update" => KnownObject(w, a, d.previous)
    <3>1. ASSUME d.type = "Update"
          PROVE  KnownObject(w, a, d.previous)
      <4>1. d.previous = ObjectOf(s, a)
        BY <3>1 DEF Replaced
      <4>2. d.previous \in Object /\ None \notin Object
        BY <3>1, ValuesAssumption DEF Delta
      <4>3. KnownObject(s, a, ObjectOf(s, a))
        BY <1>3, <4>1, <4>2, KnownObjectOf
      <4>4. QED BY <4>1, <4>3, KnownGrows
    <3>2. QED BY <3>1
  <2>3. ASSUME NEW j \in 1 .. n + 2
        PROVE  /\ D(j).type = "Update" => KnownObject(w, D(j).address, D(j).previous)
               /\ ~(D(j).type = "Touch" /\ D(j).address = Ripemd)
    <3>1. CASE j = n + 1
      BY <1>1, <1>2, <2>2, <3>1
    <3>2. CASE j = n + 2
      BY <1>1, <1>2, <3>2 DEF IsObjectDelta
    <3>3. CASE j \in 1 .. n
      BY <1>1, <1>3, <3>3, KnownGrows DEF Recorded, n
    <3>4. QED BY <1>4, <3>1, <3>2, <3>3
  <2>4. QED BY <1>1, <2>1, <2>3 DEF Recorded
<1>6. Aged(w, n + 2, v)
  <2>1. ViewAt(w, 0) = v /\ \A j \in 0 .. n : Later(v, ViewAt(w, j))
    <3>1. 0 \in 0 .. n
      BY SMTT(30), <1>1
    <3>2. QED BY <1>1, <1>3, <3>1 DEF Aged
  <2>2. ViewAt(s, n) = View(s) /\ n \in 0 .. n
    BY SMTT(30), <1>1 DEF ViewAt, n
  <2>3. View(s) \in ViewType /\ View(t) \in ViewType /\ View(w) \in ViewType
    BY ViewTypeOK
  <2>4. Later(v, View(s))
    BY <1>1, <2>1, <2>2
  <2>5. Later(v, View(t)) /\ Later(v, View(w))
    BY <2>3, <2>4, LaterTransitive
  <2>6. \A j \in 0 .. n + 2 : j \in 0 .. n \/ j = n + 1 \/ j = n + 2
    BY SMTT(30), <1>1
  <2>7. QED BY <1>1, <2>1, <2>5, <2>6 DEF Aged
<1>7. WipesPaired(w)
  <2>1. ASSUME NEW i \in 1 .. n + 2, IsStorageDelta(D(i))
        PROVE  /\ i > 1 /\ IsObjectDelta(D(i - 1)) /\ D(i - 1).address = D(i).address
               /\ Fits(w.db, Replaced(D(i - 1)), WipedStorage(D(i)), D(i).address)
    <3>1. CASE i = n + 2
      <4>1. i > 1 /\ i - 1 = n + 1
        BY SMTT(30), <1>1, <3>1
      <4>2. Fits(s.db, ObjectOf(s, a), s.storage[a], a)
        BY FineFits
      <4>3. QED BY <1>1, <3>1, <4>1, <4>2 DEF Knows
    <3>2. CASE i \in 1 .. n
      <4>1. i > 1 => i - 1 \in 1 .. n
        BY SMTT(30), <1>1, <3>2
      <4>2. QED BY <1>1, <1>3, <2>1, <3>2, <4>1 DEF WipesPaired, Knows, n
    <3>3. i # n + 1
      BY <1>1, <1>2, <2>1
    <3>4. QED BY <1>4, <3>1, <3>2, <3>3
  <2>2. QED BY <1>1, <2>1 DEF WipesPaired
<1>8. Generations(w, n + 2)
  <2>1. ASSUME NEW j \in 1 .. n + 2, IsObjectDelta(D(j))
        PROVE  \/ j < n + 2 /\ Wipes(D(j + 1), D(j).address)
               \/ Succeeds(Replaced(D(j)), ViewAt(w, j).objects[D(j).address])
    <3>1. CASE j = n + 1
      <4>1. j < n + 2 /\ j + 1 = n + 2
        BY SMTT(30), <1>1, <3>1
      <4>2. QED BY <1>1, <3>1, <4>1 DEF Wipes
    <3>2. CASE j \in 1 .. n
      <4>1. \/ j < n /\ Wipes(s.journal[j + 1].delta, s.journal[j].delta.address)
            \/ Succeeds(Replaced(s.journal[j].delta), ViewAt(s, j).objects[s.journal[j].delta.address])
        BY <1>1, <1>3, <2>1, <3>2 DEF Generations, n
      <4>2. j \in 0 .. n /\ (j < n => j + 1 \in 1 .. n /\ j < n + 2)
        BY SMTT(30), <1>1, <3>2
      <4>3. QED BY <1>1, <3>2, <4>1, <4>2
    <3>3. j # n + 2
      BY <1>1, <1>2, <2>1
    <3>4. QED BY <1>4, <3>1, <3>2, <3>3
  <2>2. QED BY <1>1, <2>1 DEF Generations
<1>9. SlotsKept(w, n + 2)
  <2> DEFINE O(j) == ViewAt(w, j).objects[D(j).address]
             A(j) == D(j).address
  <2>1. ASSUME NEW j \in 1 .. n + 2, D(j).type = "StorageChange"
        PROVE  /\ IsContract(O(j))
               /\ SameIncarnation(O(j)) =>
                    /\ Unwiped(w, A(j), j, n + 2) => HasSlot(w.storage[A(j)], D(j).key)
                    /\ \A i \in j + 1 .. n + 2 :
                         Wipes(D(i), A(j)) /\ Unwiped(w, A(j), j, i - 1) =>
                           HasSlot(WipedStorage(D(i)), D(j).key)
    <3>1. j \in 1 .. n
      BY <1>1, <1>2, <1>4, <2>1
    <3>2. /\ j \in 0 .. n /\ D(j) = s.journal[j].delta /\ O(j) = ViewAt(s, j).objects[A(j)]
          /\ n + 2 \in j + 1 .. n + 2
      <4>1. n \in Nat
        BY <1>1
      <4>2. j \in 0 .. n /\ n + 2 \in j + 1 .. n + 2
        BY SMTT(30), <3>1, <4>1
      <4>3. QED BY <1>1, <3>1, <4>2
    <3>3. A(j) \in Address /\ D(j).key \in Key
      <4>1. D(j) \in Delta
        BY <1>1, <3>1
      <4>2. QED BY <2>1, <4>1 DEF Delta
    <3>4. /\ IsContract(O(j))
          /\ SameIncarnation(O(j)) =>
               /\ Unwiped(s, A(j), j, n) => HasSlot(s.storage[A(j)], D(j).key)
               /\ \A i \in j + 1 .. n :
                    Wipes(s.journal[i].delta, A(j)) /\ Unwiped(s, A(j), j, i - 1) =>
                      HasSlot(WipedStorage(s.journal[i].delta), D(j).key)
      BY <1>3, <2>1, <3>1, <3>2 DEF SlotsKept
    <3>5. ASSUME NEW m \in 0 .. n + 2, NEW l \in 0 .. n, l <= m, Unwiped(w, A(j), j, m)
          PROVE  Unwiped(s, A(j), j, l)
      <4>1. n \in Nat /\ \A i \in 1 .. n : w.journal[i] = s.journal[i]
        BY <1>1
      <4>2. \A i \in j + 1 .. l : i \in j + 1 .. m /\ i \in 1 .. n
        <5>1. n \in Nat /\ j \in 1 .. n /\ l <= m /\ l \in 0 .. n /\ m \in 0 .. n + 2
          BY <3>1, <3>5, <4>1
        <5>2. QED BY SMTT(30), <5>1
      <4>3. \A i \in j + 1 .. l : i \in j + 1 .. m /\ w.journal[i] = s.journal[i]
        BY <4>1, <4>2
      <4>4. QED BY <3>5, <4>3 DEF Unwiped
    <3>6. ASSUME Unwiped(w, A(j), j, n + 2), SameIncarnation(O(j))
          PROVE  HasSlot(w.storage[A(j)], D(j).key)
      <4>1. A(j) # a
        BY <1>1, <3>2, <3>6 DEF Unwiped, Wipes
      <4>2. n + 2 \in 0 .. n + 2 /\ n \in 0 .. n /\ n <= n + 2
        BY SMTT(30), <1>1
      <4>3. Unwiped(s, A(j), j, n)
        BY <3>5, <3>6, <4>2
      <4>4. QED BY <3>3, <3>4, <3>6, <4>1, <4>3
    <3>7. ASSUME NEW i \in j + 1 .. n + 2, Wipes(D(i), A(j)), Unwiped(w, A(j), j, i - 1),
                 SameIncarnation(O(j))
          PROVE  HasSlot(WipedStorage(D(i)), D(j).key)
      <4>1. i \in 1 .. n + 2
        BY SMTT(30), <1>1, <3>1
      <4>2. CASE i = n + 2
        <5>1. n + 1 \in 0 .. n + 2 /\ n \in 0 .. n /\ n <= n + 1 /\ i - 1 = n + 1
          BY SMTT(30), <1>1, <4>2
        <5>2. Unwiped(s, A(j), j, n)
          BY <3>5, <3>7, <5>1
        <5>3. A(j) = a /\ D(i) = e
          BY <1>1, <3>7, <4>2 DEF Wipes
        <5>4. QED BY <3>4, <3>7, <5>2, <5>3
      <4>3. CASE i \in 1 .. n
        <5>1. i - 1 \in 0 .. n + 2 /\ i - 1 \in 0 .. n /\ i - 1 <= i - 1 /\ i \in j + 1 .. n
          BY SMTT(30), <1>1, <3>1, <4>3
        <5>2. Unwiped(s, A(j), j, i - 1)
          BY <3>5, <3>7, <5>1
        <5>3. QED BY <1>1, <3>4, <3>7, <4>3, <5>1, <5>2
      <4>4. i # n + 1
        BY <1>1, <1>2, <3>7 DEF Wipes
      <4>5. QED BY <1>4, <4>1, <4>2, <4>3, <4>4
    <3>8. QED BY <3>4, <3>6, <3>7
  <2>2. QED BY <2>1 DEF SlotsKept
<1>10. AllFit(w, n + 2)
  <2>1. Fits(w.db, ObjectOf(w, a), w.storage[a], a)
    BY DEF Fits
  <2>2. \A b \in Address \ {a} : Fits(w.db, ObjectOf(w, b), w.storage[b], b)
    BY FineFits DEF Knows
  <2>3. QED BY <2>1, <2>2 DEF AllFit
<1>11. Whole(w, B)
  <2>1. ASSUME NEW m \in B
        PROVE  m \in 0 .. n + 2 /\ (m < n + 2 => ~IsStorageDelta(D(m + 1)))
    <3>1. m \in 0 .. n /\ (m < n => ~IsStorageDelta(s.journal[m + 1].delta))
      BY <1>3 DEF Whole, n
    <3>2. n \in Nat
      BY <1>1
    <3>3. m \in 0 .. n + 2
      BY SMTT(30), <3>1, <3>2
    <3>4. CASE m = n
      BY <1>1, <1>2, <3>3, <3>4
    <3>5. CASE m < n
      <4>1. m + 1 \in 1 .. n
        BY SMTT(30), <3>1, <3>2, <3>5
      <4>2. QED BY <1>1, <3>1, <3>3, <3>5, <4>1
    <3>6. m = n \/ m < n
      BY SMTT(30), <3>1, <3>2
    <3>7. QED BY <3>4, <3>5, <3>6
  <2>2. QED BY <1>1, <2>1 DEF Whole
<1>12. QED BY <1>1, <1>5, <1>6, <1>7, <1>8, <1>9, <1>10, <1>11 DEF Kept, History

\* create_contract gives a contract that exists a greater incarnation.
LEMMA IncarnationGrows ==
    ASSUME NEW s \in IntraBlockStateType, NEW a \in Address, Alive(ObjectOf(s, a))
    PROVE  PrevIncarnation(s, a) + 1 > ObjectOf(s, a).current.incarnation
<1> DEFINE prev == ObjectOf(s, a)
           inc == prev.current.incarnation
<1>1. prev \in Object /\ prev.current \in Account
  <2>1. prev \in Object
    BY ObjectOfType DEF Alive
  <2>2. QED BY <2>1 DEF Alive, Object
<1>2. inc \in Incarnation /\ s.db.incarnations[a] \in Incarnation
  BY <1>1 DEF Account, IntraBlockStateType, StateBuffer
<1>3. PrevIncarnation(s, a) = IF inc = 0 THEN s.db.incarnations[a] ELSE inc
  BY DEF PrevIncarnation, Alive
<1> HIDE DEF inc
<1>4. PrevIncarnation(s, a) + 1 > inc
  BY SMTT(30), <1>2, <1>3, WidthAssumption DEF Incarnation
<1>5. QED BY <1>4 DEF inc

\* create_contract keeps the history.
LEMMA CreateContractFine ==
    ASSUME NEW s, NEW a \in Address, NEW v \in ViewType, NEW B, Fine(s, v, B),
           PrevIncarnation(s, a) < MaxIncarnation
    PROVE  Fine(CreateContract(s, a), v, B)
<1> DEFINE prev == ObjectOf(s, a)
           account == [EmptyAccount EXCEPT !.balance = Balance(s, a),
                                           !.incarnation = PrevIncarnation(s, a) + 1]
           created == [initial |-> IF prev = None THEN None ELSE prev.initial, current |-> account]
           g == GetObject(s, a)
           d == IF prev = None THEN CreateDelta(a) ELSE UpdateDelta(a, prev)
           t == WithObject(g, d, a, created)
           e == IF t.storage[a] = None THEN StorageCreateDelta(a) ELSE StorageWipeDelta(a, t.storage[a])
           u == Journalled(t, e)
           w == WithStorage(u, a, None)
<1>1. CreateContract(s, a) = w
  BY DEF CreateContract, WithObject, WithStorage
<1>2. /\ Good(s) /\ s \in IntraBlockStateType /\ Fine(g, v, B) /\ g \in IntraBlockStateType
      /\ g.db = s.db
  BY GetObjectFine, GetObjectQuiet DEF Fine, Good, Extends
<1>3. g.objects[a] = prev /\ ObjectOf(g, a) = prev /\ prev \in Object \cup {None}
  BY <1>2, GetObjectQuiet, ObjectOfType
<1>4. Good(w)
  BY <1>1, <1>2, CreateContractExtends DEF Extends
<1>5. Alive(prev) => PrevIncarnation(s, a) + 1 > prev.current.incarnation
  BY <1>2, IncarnationGrows
<1> HIDE DEF g
<1>6. /\ account \in Account /\ account.code_hash = EmptyHash
      /\ account.incarnation = PrevIncarnation(s, a) + 1
  <2>1. Balance(s, a) \in Uint /\ PrevIncarnation(s, a) + 1 \in Incarnation
    BY SMTT(30), <1>2, BalanceType, PrevIncarnationType, WidthAssumption DEF Incarnation
  <2>2. account \in Account
    BY <2>1, EmptyAccountType DEF Account
  <2>3. QED BY <2>2 DEF EmptyAccount
<1> HIDE DEF account
<1>7. created \in Object /\ created # None /\ Alive(created)
  BY SMTT(30), <1>3, <1>6, ValuesAssumption DEF Object, Alive
<1>8. created.current = account /\ created.initial = IF prev = None THEN None ELSE prev.initial
  OBVIOUS
<1>9. d \in Delta /\ d.address = a /\ IsObjectDelta(d) /\ Replaced(d) = prev
  BY <1>3 DEF CreateDelta, UpdateDelta, Delta, IsObjectDelta, Replaced
<1>10. KnownObject(g, a, created)
  <2>1. prev = None => g.db.accounts[a] = None
    BY <1>2, NoObject
  <2>2. prev # None => prev.initial = g.db.accounts[a]
    BY <1>2, <1>3, KnownObjectOf DEF Fine, Kept, History, KnownObject
  <2>3. QED BY <1>6, <1>8, <2>1, <2>2 DEF KnownObject
<1> HIDE DEF created, d, prev
<1>11. /\ t \in IntraBlockStateType /\ t.db = g.db /\ t.storage = g.storage
       /\ t.journal = Append(g.journal, [delta |-> d, before |-> View(g)])
       /\ t.objects[a] = created
       /\ \A b \in Address \ {a} : t.objects[b] = g.objects[b]
  <2>1. g \in IntraBlockStateType /\ d \in Delta /\ created \in Object \cup {None}
    BY <1>2, <1>7, <1>9
  <2>2. QED BY SMTT(30), <2>1, SetObjectFields
<1>12. t.code = g.code
  BY <1>2 DEF WithObject, Journalled, IntraBlockStateType
<1> HIDE DEF t
<1>13. t.storage[a] \in Storage \cup {None}
  BY <1>11 DEF IntraBlockStateType
<1>14. e \in Delta /\ e.address = a /\ IsStorageDelta(e) /\ WipedStorage(e) = g.storage[a]
  BY <1>11, <1>13 DEF StorageCreateDelta, StorageWipeDelta, Delta, IsStorageDelta, WipedStorage
<1> HIDE DEF e
<1>15. /\ u \in IntraBlockStateType /\ SameAccounts(t, u) /\ u.code = t.code
       /\ u.journal = Append(t.journal, [delta |-> e, before |-> View(t)])
  BY SMTT(60), <1>11, <1>14, JournalledFields
<1> HIDE DEF u
<1>16. /\ w \in IntraBlockStateType /\ w.db = u.db /\ w.objects = u.objects
       /\ w.journal = u.journal /\ w.storage[a] = None
       /\ \A b \in Address \ {a} : w.storage[b] = u.storage[b]
  <2>1. None \in Storage \cup {None}
    OBVIOUS
  <2>2. QED BY <1>15, <2>1, SetStorageFields
<1>17. w.code = u.code
  BY <1>15 DEF WithStorage, IntraBlockStateType
<1> HIDE DEF w
<1>18. /\ w.db = g.db /\ w.code = g.code /\ w.objects[a] = created
       /\ w.journal = Append(t.journal, [delta |-> e, before |-> View(t)])
       /\ \A b \in Address \ {a} : w.objects[b] = g.objects[b] /\ w.storage[b] = g.storage[b]
  BY <1>11, <1>12, <1>15, <1>16, <1>17 DEF SameAccounts
<1>19. /\ ObjectOf(t, a) = created /\ ObjectOf(w, a) = created
       /\ \A b \in Address \ {a} : ObjectOf(t, b) = ObjectOf(g, b) /\ ObjectOf(w, b) = ObjectOf(g, b)
  BY <1>7, <1>11, <1>18 DEF ObjectOf
<1>20. Knows(g, w)
  BY <1>10, <1>18 DEF Knows, KnownObject
<1>21. ASSUME NEW x \in {t, w}
       PROVE  Later(View(g), View(x))
  <2>1. /\ x.db = g.db /\ ObjectOf(x, a) = created
        /\ \A b \in Address \ {a} : ObjectOf(x, b) = ObjectOf(g, b) /\ x.storage[b] = g.storage[b]
    BY <1>11, <1>18, <1>19
  <2>2. \A b \in Address : /\ View(x).objects[b] = ObjectOf(x, b) /\ View(g).objects[b] = ObjectOf(g, b)
                           /\ View(x).slots[b] = Slots(x.db, ObjectOf(x, b), x.storage[b], b)
                           /\ View(g).slots[b] = Slots(g.db, ObjectOf(g, b), g.storage[b], b)
    BY DEF View
  <2>3. \A b \in Address \ {a} : View(x).objects[b] = View(g).objects[b] /\ View(x).slots[b] = View(g).slots[b]
    BY ZenonT(90), <2>1, <2>2
  <2>4. View(x).objects[a] = created /\ View(g).objects[a] = prev
    BY <1>3, <2>1, <2>2
  <2>5. Alive(prev) => /\ Alive(created) /\ created.initial = prev.initial
                       /\ created.current.incarnation > prev.current.incarnation
    BY <1>5, <1>6, <1>7, <1>8 DEF Alive
  <2>6. QED BY <2>3, <2>4, <2>5 DEF Later
<1>22. Kept(w, v, B)
  <2>1. Later(View(g), View(t)) /\ Later(View(g), View(w))
    BY SMTT(30), <1>21
  <2>2. \A b \in Address \ {a} : w.storage[b] = g.storage[b] /\ ObjectOf(w, b) = ObjectOf(g, b)
    BY <1>18, <1>19
  <2>3. Replaced(d) = ObjectOf(g, a)
    BY <1>3, <1>9
  <2>4. QED BY ZenonT(90), <1>2, <1>9, <1>11, <1>14, <1>16, <1>18, <1>20, <2>1, <2>2, <2>3, AppendTwoKept
<1>23. Fine(w, v, B)
  BY <1>2, <1>4, <1>18, <1>22 DEF Fine
<1>24. QED BY <1>1, <1>23

-----------------------------------------------------------------------------
(***************************************************************************)
(* revert_to_snapshot keeps the history, one entry after the other.        *)
(***************************************************************************)

\* The storage that undoing a StorageChangeDelta leaves.
Rewritten(sto, d) ==
    [(IF sto = None THEN EmptyStorage ELSE sto) EXCEPT !.current[d.key] = d.previous]

\* Delta::revert changes nothing but what the delta is about.
LEMMA RevertFields ==
    ASSUME NEW s \in IntraBlockStateType, NEW d \in Delta
    PROVE  LET t == Revert(s, d)
               a == d.address
           IN /\ a \in Address
              /\ t.db = s.db /\ t.code = s.code /\ t.journal = s.journal
              /\ \A b \in Address \ {a} : t.objects[b] = s.objects[b] /\ t.storage[b] = s.storage[b]
              /\ t.objects[a] = IF IsObjectDelta(d) THEN Replaced(d) ELSE s.objects[a]
              /\ t.storage[a] = IF IsStorageDelta(d) THEN WipedStorage(d)
                                ELSE IF d.type = "StorageChange" THEN Rewritten(s.storage[a], d)
                                ELSE s.storage[a]
              /\ t.touched = IF d.type = "Touch" THEN s.touched \ {a} ELSE s.touched
<1> DEFINE t == Revert(s, d)
           a == d.address
<1>1. a \in Address /\ d.type \in {"Create", "Update", "Suicide", "Touch", "StorageChange",
                                  "StorageWipe", "StorageCreate", "StorageAccess", "AccountAccess"}
  BY DEF Delta
<1> HIDE DEF a
<1>2. CASE IsObjectDelta(d)
  <2> DEFINE o == Replaced(d)
  <2>1. t = [s EXCEPT !.objects[a] = o]
    BY SMTT(30), <1>2 DEF Revert, a, IsObjectDelta, Replaced
  <2> HIDE DEF o, t
  <2>2. /\ t.db = s.db /\ t.code = s.code /\ t.journal = s.journal /\ t.storage = s.storage
        /\ t.touched = s.touched /\ t.objects = [s.objects EXCEPT ![a] = o]
    BY <2>1 DEF IntraBlockStateType
  <2>3. t.objects[a] = o /\ \A b \in Address \ {a} : t.objects[b] = s.objects[b]
    BY <1>1, <2>2 DEF IntraBlockStateType
  <2>4. QED BY SMTT(30), <1>1, <1>2, <2>2, <2>3 DEF IsObjectDelta, IsStorageDelta, o, t, a
<1>3. CASE IsStorageDelta(d) \/ d.type = "StorageChange"
  <2> DEFINE x == IF IsStorageDelta(d) THEN WipedStorage(d) ELSE Rewritten(s.storage[a], d)
  <2>1. t = [s EXCEPT !.storage[a] = x]
    <3>1. CASE IsStorageDelta(d)
      BY SMTT(60), <3>1 DEF Revert, a, IsStorageDelta, WipedStorage
    <3>2. CASE d.type = "StorageChange"
      <4>1. x = Rewritten(s.storage[a], d)
        BY <3>2 DEF IsStorageDelta
      <4>2. t = [s EXCEPT !.storage[a] = Rewritten(s.storage[a], d)]
        BY <1>1, <3>2 DEF Revert, Rewritten, a, IntraBlockStateType
      <4>3. QED BY <4>1, <4>2
    <3>3. QED BY <1>3, <3>1, <3>2
  <2> HIDE DEF x, t
  <2>2. /\ t.db = s.db /\ t.code = s.code /\ t.journal = s.journal /\ t.objects = s.objects
        /\ t.touched = s.touched /\ t.storage = [s.storage EXCEPT ![a] = x]
    BY <2>1 DEF IntraBlockStateType
  <2>3. t.storage[a] = x /\ \A b \in Address \ {a} : t.storage[b] = s.storage[b]
    BY <1>1, <2>2 DEF IntraBlockStateType
  <2>4. ~IsObjectDelta(d) /\ d.type # "Touch"
    BY <1>3 DEF IsObjectDelta, IsStorageDelta
  <2>5. QED BY SMTT(30), <1>1, <1>3, <2>2, <2>3, <2>4 DEF x, t, a
<1>4. CASE d.type \in {"Suicide", "Touch", "AccountAccess", "StorageAccess"}
  <2>1. /\ t.db = s.db /\ t.code = s.code /\ t.journal = s.journal /\ t.objects = s.objects
        /\ t.storage = s.storage
        /\ t.touched = IF d.type = "Touch" THEN s.touched \ {a} ELSE s.touched
    BY <1>4 DEF Revert, a, IntraBlockStateType
  <2>2. ~IsObjectDelta(d) /\ ~IsStorageDelta(d) /\ d.type # "StorageChange"
    BY <1>4 DEF IsObjectDelta, IsStorageDelta
  <2>3. QED BY <1>1, <2>1, <2>2 DEF t, a
<1>5. QED BY <1>1, <1>2, <1>3, <1>4 DEF IsObjectDelta, IsStorageDelta

\* Undoing the entry c.
LEMMA RevertKept ==
    ASSUME NEW s \in IntraBlockStateType, NEW v, NEW B, NEW c \in 1 .. Len(s.journal),
           CleanDb(s.db), History(s, c, v, B), Linked(s, c), View(s) = ViewAt(s, c),
           c < Len(s.journal) /\ IsStorageDelta(s.journal[c + 1].delta) =>
             s.storage[s.journal[c + 1].delta.address] = WipedStorage(s.journal[c + 1].delta)
    PROVE  History(Revert(s, s.journal[c].delta), c - 1, v, B)
<1> DEFINE n == Len(s.journal)
           D(i) == s.journal[i].delta
           d == D(c)
           a == d.address
           t == Revert(s, d)
<1>1. /\ n \in Nat /\ c \in 1 .. n /\ c - 1 \in Nat /\ c - 1 < n /\ c - 1 + 1 = c /\ c \in 1 .. c
      /\ c < n => c + 1 \in 1 .. n /\ c + 1 - 1 = c
  <2>1. s.journal \in Seq(Entry)
    BY DEF IntraBlockStateType, Entry
  <2>2. n \in Nat
    BY SMTT(30), <2>1
  <2>3. QED BY SMTT(30), <2>2
<1>2. \A i \in 1 .. n : D(i) \in Delta
  <2>1. s.journal \in Seq(Entry)
    BY DEF IntraBlockStateType, Entry
  <2>2. \A i \in 1 .. n : s.journal[i] \in Entry
    BY SMTT(30), <2>1
  <2>3. QED BY <2>2 DEF Entry
<1>3. d \in Delta
  BY <1>1, <1>2
<1>4. /\ a \in Address
      /\ t.db = s.db /\ t.code = s.code /\ t.journal = s.journal
      /\ \A b \in Address \ {a} : t.objects[b] = s.objects[b] /\ t.storage[b] = s.storage[b]
      /\ t.objects[a] = IF IsObjectDelta(d) THEN Replaced(d) ELSE s.objects[a]
      /\ t.storage[a] = IF IsStorageDelta(d) THEN WipedStorage(d)
                        ELSE IF d.type = "StorageChange" THEN Rewritten(s.storage[a], d)
                        ELSE s.storage[a]
  BY <1>3, RevertFields
<1>5. /\ Recorded(s) /\ Aged(s, c, v) /\ WipesPaired(s) /\ Generations(s, c) /\ SlotsKept(s, c)
      /\ AllFit(s, c) /\ Whole(s, B)
  BY DEF History
<1>6. Link(s.db, d, ViewAt(s, c - 1), ViewAt(s, c), NextDelta(s, c))
  BY <1>1 DEF Linked
<1>7. View(s).objects[a] = ObjectOf(s, a)
  BY <1>4 DEF View
<1> HIDE DEF t
<1>8. \A j \in 0 .. c - 1 : ViewAt(t, j) = ViewAt(s, j) /\ j < n
  <2>1. \A j \in 0 .. c - 1 : j < n
    BY SMTT(30), <1>1
  <2>2. QED BY <1>4, <2>1 DEF ViewAt
<1>9. \A j \in 1 .. c - 1 : j \in 1 .. c /\ j \in 0 .. c - 1
  BY SMTT(30), <1>1
<1>10. ObjectOf(t, a) = IF IsObjectDelta(d) THEN Replaced(d) ELSE ObjectOf(s, a)
  <2>1. CASE ~IsObjectDelta(d)
    BY <1>4, <2>1 DEF ObjectOf
  <2>2. CASE d.type = "Update"
    <3>1. d.previous \in Object /\ None \notin Object
      BY <1>3, <2>2, ValuesAssumption DEF Delta
    <3>2. IsObjectDelta(d) /\ Replaced(d) = d.previous
      BY <2>2 DEF IsObjectDelta, Replaced
    <3>3. QED BY ZenonT(90), <1>4, <3>1, <3>2 DEF ObjectOf
  <2>3. CASE d.type = "Create"
    <3>1. s.db.accounts[a] = None
      BY <1>6, <2>3 DEF Link
    <3>2. IsObjectDelta(d) /\ Replaced(d) = None
      BY <2>3 DEF IsObjectDelta, Replaced
    <3>3. QED BY <1>4, <3>1, <3>2 DEF ObjectOf
  <2>4. QED BY <2>1, <2>2, <2>3 DEF IsObjectDelta
<1>11. \A b \in Address \ {a} : ObjectOf(t, b) = ObjectOf(s, b)
  BY <1>4 DEF ObjectOf
\* The entry after c, when it is a storage entry, goes with the object entry c.
<1>12. ASSUME NEW b, c < n, Wipes(D(c + 1), b)
       PROVE  /\ IsObjectDelta(d) /\ b = a /\ s.storage[a] = WipedStorage(D(c + 1))
              /\ Fits(s.db, Replaced(d), WipedStorage(D(c + 1)), a)
  <2>1. c + 1 \in 1 .. n /\ c + 1 - 1 = c
    BY <1>1, <1>12
  <2>2. IsStorageDelta(D(c + 1)) /\ D(c + 1).address = b
    BY <1>12 DEF Wipes
  <2>3. /\ IsObjectDelta(D(c + 1 - 1)) /\ D(c + 1 - 1).address = b
        /\ Fits(s.db, Replaced(D(c + 1 - 1)), WipedStorage(D(c + 1)), b)
    <3>1. \A i \in 1 .. n : IsStorageDelta(D(i)) =>
                            /\ IsObjectDelta(D(i - 1)) /\ D(i - 1).address = D(i).address
                            /\ Fits(s.db, Replaced(D(i - 1)), WipedStorage(D(i)), D(i).address)
      BY <1>5 DEF WipesPaired
    <3> HIDE DEF D, n
    <3>2. QED BY SMTT(30), <2>1, <2>2, <3>1
  <2>4. D(c + 1 - 1) = d
    BY <2>1
  <2>5. s.storage[b] = WipedStorage(D(c + 1))
    BY SMTT(30), <1>12, <2>2
  <2>6. d.address = b /\ IsObjectDelta(d) /\ Fits(s.db, Replaced(d), WipedStorage(D(c + 1)), b)
    BY <2>3, <2>4
  <2>7. QED BY <2>5, <2>6
<1> HIDE DEF d, a, n
<1>13. Recorded(t)
  <2>1. \A b, o : KnownObject(s, b, o) => KnownObject(t, b, o)
    BY <1>4 DEF KnownObject
  <2>2. \A i \in 1 .. n : D(i).type = "Update" => KnownObject(s, D(i).address, D(i).previous)
    BY <1>5 DEF Recorded, n
  <2>3. IsObjectDelta(d) /\ Replaced(d) # None => KnownObject(s, a, Replaced(d))
    BY <1>1, <2>2 DEF Replaced, IsObjectDelta, d, a
  <2>4. ASSUME NEW b \in Address, t.objects[b] # None
        PROVE  KnownObject(t, b, t.objects[b])
    <3>1. CASE b = a
      BY <1>4, <1>5, <2>1, <2>3, <2>4, <3>1 DEF Recorded
    <3>2. CASE b # a
      BY <1>4, <1>5, <2>1, <2>4, <3>2 DEF Recorded
    <3>3. QED BY <3>1, <3>2
  <2>5. QED BY <1>4, <1>5, <2>1, <2>4 DEF Recorded
<1>14. Aged(t, c - 1, v)
  <2>1. \A j \in 0 .. c - 1 : j \in 0 .. c
    BY SMTT(30), <1>1
  <2>2. 0 \in 0 .. c - 1
    BY SMTT(30), <1>1
  <2>3. QED BY <1>5, <1>8, <2>1, <2>2 DEF Aged
<1>15. WipesPaired(t)
  BY <1>4, <1>5 DEF WipesPaired
<1>16. Generations(t, c - 1)
  BY <1>4, <1>5, <1>8, <1>9 DEF Generations
<1>17. Whole(t, B)
  BY <1>4, <1>5 DEF Whole
<1>18. SlotsKept(t, c - 1)
  <2> DEFINE O(j) == ViewAt(s, j).objects[D(j).address]
             A(j) == D(j).address
             K(j) == D(j).key
  <2>0. \A b, i, j : Unwiped(t, b, i, j) <=> Unwiped(s, b, i, j)
    BY <1>4 DEF Unwiped
  <2>1. ASSUME NEW j \in 1 .. c - 1, D(j).type = "StorageChange"
        PROVE  /\ IsContract(O(j))
               /\ SameIncarnation(O(j)) =>
                    /\ Unwiped(s, A(j), j, c - 1) => HasSlot(t.storage[A(j)], K(j))
                    /\ \A i \in j + 1 .. c - 1 :
                         Wipes(D(i), A(j)) /\ Unwiped(s, A(j), j, i - 1) =>
                           HasSlot(WipedStorage(D(i)), K(j))
    <3>1. /\ j \in 1 .. c /\ c \in j + 1 .. c
          /\ \A i \in j + 1 .. c - 1 : i \in j + 1 .. c
          /\ \A i \in j + 1 .. c : i \in j + 1 .. c - 1 \/ i = c
      BY SMTT(30), <1>1
    <3>2. A(j) \in Address /\ K(j) \in Key
      <4>1. j \in 1 .. n
        BY SMTT(30), <1>1
      <4>2. D(j) \in Delta
        BY <1>2, <4>1 DEF n
      <4>3. QED BY SMTT(30), <2>1, <4>2 DEF Delta
    <3>3. /\ IsContract(O(j))
          /\ SameIncarnation(O(j)) =>
               /\ Unwiped(s, A(j), j, c) => HasSlot(s.storage[A(j)], K(j))
               /\ \A i \in j + 1 .. c :
                    Wipes(D(i), A(j)) /\ Unwiped(s, A(j), j, i - 1) =>
                      HasSlot(WipedStorage(D(i)), K(j))
      BY <1>5, <2>1, <3>1 DEF SlotsKept
    <3>4. ASSUME SameIncarnation(O(j)), Unwiped(s, A(j), j, c - 1)
          PROVE  HasSlot(t.storage[A(j)], K(j))
      <4>1. CASE Wipes(d, A(j))
        <5>1. HasSlot(WipedStorage(d), K(j))
          BY <3>1, <3>3, <3>4, <4>1 DEF d
        <5>2. t.storage[A(j)] = WipedStorage(d)
          BY <1>4, <4>1 DEF Wipes, a
        <5>3. QED BY <5>1, <5>2
      <4>2. CASE ~Wipes(d, A(j))
        <5>1. Unwiped(s, A(j), j, c)
          BY <3>1, <3>4, <4>2 DEF Unwiped, d
        <5>2. HasSlot(s.storage[A(j)], K(j))
          BY <3>3, <3>4, <5>1
        <5>3. CASE A(j) = a /\ d.type = "StorageChange"
          <6>1. t.storage[a] = Rewritten(s.storage[a], d)
            BY <1>4, <5>3 DEF IsStorageDelta
          <6>2. s.storage[a] \in Storage /\ s.storage[a] # None
            BY <1>4, <5>2, <5>3 DEF HasSlot, IntraBlockStateType
          <6>3. Rewritten(s.storage[a], d).committed = s.storage[a].committed
                /\ Rewritten(s.storage[a], d) \in [committed: [Key -> CommittedValue \cup {None}],
                                                   current: [Key -> Value \cup {None}]]
            <7>1. d.previous \in Value
              BY <1>3, <5>3 DEF Delta
            <7>2. QED BY <6>2, <7>1 DEF Rewritten, Storage
          <6>4. Rewritten(s.storage[a], d) # None
            BY <6>3, ValuesAssumption DEF Storage
          <6>5. QED BY <5>2, <5>3, <6>1, <6>3, <6>4 DEF HasSlot
        <5>4. CASE ~(A(j) = a /\ d.type = "StorageChange")
          <6>1. t.storage[A(j)] = s.storage[A(j)]
            BY <1>4, <3>2, <4>2, <5>4 DEF Wipes, a
          <6>2. QED BY <5>2, <6>1
        <5>5. QED BY <5>3, <5>4
      <4>3. QED BY SMTT(30), <4>1, <4>2
    <3>5. QED BY <3>1, <3>3, <3>4
  <2>2. QED BY <1>4, <1>8, <1>9, <2>0, <2>1 DEF SlotsKept
<1>19. AllFit(t, c - 1)
  <2>1. ASSUME NEW b \in Address \ {a}
        PROVE  Fits(t.db, ObjectOf(t, b), t.storage[b], b)
    <3>1. Fits(s.db, ObjectOf(s, b), s.storage[b], b)
      BY <1>5, <1>12, <2>1 DEF AllFit, n
    <3>2. QED BY <1>4, <1>11, <3>1
  <2>2. \/ c - 1 < Len(t.journal) /\ Wipes(t.journal[c - 1 + 1].delta, a)
        \/ Fits(t.db, ObjectOf(t, a), t.storage[a], a)
    <3>1. CASE IsStorageDelta(d)
      BY <1>1, <1>4, <3>1 DEF Wipes, d, a, n
    <3>2. CASE IsObjectDelta(d)
      <4>0. t.storage[a] = s.storage[a] /\ ObjectOf(t, a) = Replaced(d)
        BY <1>4, <1>10, <3>2 DEF IsObjectDelta, IsStorageDelta
      <4>1. CASE c < n /\ Wipes(D(c + 1), a)
        BY <1>4, <1>12, <4>0, <4>1
      <4>2. CASE ~(c < n /\ Wipes(D(c + 1), a))
        <5>1. Fits(s.db, ObjectOf(s, a), s.storage[a], a)
          BY <1>4, <1>5, <4>2 DEF AllFit, n
        <5>2. Succeeds(Replaced(d), ObjectOf(s, a))
          BY <1>1, <1>5, <1>7, <3>2, <4>2 DEF Generations, n, d, a
        <5>3. Fits(s.db, Replaced(d), s.storage[a], a)
          BY <1>4, <5>1, <5>2, FitsSuccessor
        <5>4. QED BY <1>4, <4>0, <5>3
      <4>3. QED BY <4>1, <4>2
    <3>3. CASE ~IsStorageDelta(d) /\ ~IsObjectDelta(d)
      <4>1. Fits(s.db, ObjectOf(s, a), s.storage[a], a) /\ ObjectOf(t, a) = ObjectOf(s, a)
        BY <1>4, <1>5, <1>10, <1>12, <3>3 DEF AllFit, n
      <4>2. CASE d.type = "StorageChange"
        <5> DEFINE o == ObjectOf(s, a)
                   x == Rewritten(s.storage[a], d)
                   y == IF s.storage[a] = None THEN EmptyStorage ELSE s.storage[a]
        <5>1. t.storage[a] = x /\ d.key \in Key /\ s.storage[a] \in Storage \cup {None}
          <6>1. d.key \in Key
            BY <1>3, <4>2 DEF Delta
          <6>2. QED BY <1>4, <3>3, <4>2, <6>1 DEF IntraBlockStateType
        <5>2. IsContract(o) /\ (SameIncarnation(o) => HasSlot(s.storage[a], d.key))
          <6>1. Unwiped(s, a, c, c)
            <7>1. \A i \in c + 1 .. c : FALSE
              BY SMTT(30), <1>1
            <7>2. QED BY <7>1 DEF Unwiped
          <6>2. QED BY <1>1, <1>5, <1>7, <4>2, <6>1 DEF SlotsKept, d, a
        <5>3. y \in Storage /\ Fits(s.db, o, y, a)
          <6>1. Fits(s.db, o, EmptyStorage, a)
            BY DEF Fits, EmptyStorage
          <6>2. QED BY <4>1, <5>1, <6>1, EmptyStorageType
        <5>4. x.committed = y.committed /\ \A k \in Key \ {d.key} : x.current[k] = y.current[k]
          <6>1. x = [y EXCEPT !.current[d.key] = d.previous]
            BY DEF Rewritten
          <6> HIDE DEF x, y
          <6>2. QED BY <5>1, <5>3, <6>1 DEF Storage
        <5>5. SameIncarnation(o) => y.committed[d.key] # None
          BY <5>2 DEF HasSlot
        <5>6. y # None
          BY <5>3, ValuesAssumption
        <5> HIDE DEF x, y, o
        <5>7. Fits(s.db, o, x, a)
          BY <5>2, <5>3, <5>4, <5>5, <5>6 DEF Fits
        <5>8. QED BY <1>4, <4>1, <5>1, <5>7 DEF o
      <4>3. CASE d.type # "StorageChange"
        BY <1>4, <3>3, <4>1, <4>3
      <4>4. QED BY <4>2, <4>3
    <3>4. QED BY <3>1, <3>2, <3>3
  <2>3. QED BY <2>1, <2>2 DEF AllFit
<1>20. History(t, c - 1, v, B)
  BY <1>13, <1>14, <1>15, <1>16, <1>17, <1>18, <1>19 DEF History
<1>21. QED BY <1>20 DEF t, d

\* The truncation of the journal at the end of revert_to_snapshot.
LEMMA TruncateKept ==
    ASSUME NEW s \in IntraBlockStateType, NEW t, NEW v, NEW B, NEW C, NEW c \in 0 .. Len(s.journal),
           History(s, c, v, B), View(s) = ViewAt(s, c), c \in B, View(t) = View(s),
           t.db = s.db /\ t.objects = s.objects /\ t.storage = s.storage /\ t.code = s.code,
           t.journal = SubSeq(s.journal, 1, c),
           \A m \in C : m \in B /\ m <= c
    PROVE  History(t, c, v, C)
<1> DEFINE n == Len(s.journal)
           D(i) == s.journal[i].delta
<1>1. n \in Nat /\ c \in 0 .. n /\ s.journal \in Seq(Entry) /\ 0 \in 0 .. c
  <2>1. s.journal \in Seq(Entry)
    BY DEF IntraBlockStateType, Entry
  <2>2. n \in Nat
    BY SMTT(30), <2>1
  <2>3. QED BY SMTT(30), <2>1, <2>2
<1>2. Len(t.journal) = c /\ \A j \in 1 .. c : t.journal[j] = s.journal[j]
  BY ZenonT(90), <1>1, PrefixOfPrefix
<1>3. /\ Recorded(s) /\ Aged(s, c, v) /\ WipesPaired(s) /\ Generations(s, c) /\ SlotsKept(s, c)
      /\ AllFit(s, c) /\ Whole(s, B)
  BY DEF History
<1>4. c < n => ~IsStorageDelta(D(c + 1))
  BY <1>3 DEF Whole
<1> HIDE DEF n
<1>5. \A j \in 1 .. c : j \in 1 .. n /\ j \in 0 .. c /\ (j > 1 => j - 1 \in 1 .. c)
  BY SMTT(30), <1>1
<1>6. ASSUME NEW j \in 0 .. c
      PROVE  ViewAt(t, j) = ViewAt(s, j)
  <2>1. CASE j = c
    <3>1. ViewAt(t, j) = View(t)
      BY SMTT(30), <1>1, <1>2, <2>1 DEF ViewAt
    <3>2. QED BY <2>1, <3>1
  <2>2. CASE j < c
    <3>1. j + 1 \in 1 .. c /\ j < n
      BY SMTT(30), <1>1, <2>2
    <3>2. QED BY <1>2, <2>2, <3>1 DEF ViewAt, n
  <2>3. QED BY SMTT(30), <1>1, <2>1, <2>2
<1>7. Recorded(t)
  <2>1. \A a, o : KnownObject(s, a, o) => KnownObject(t, a, o)
    BY DEF KnownObject
  <2>2. QED BY <1>2, <1>3, <1>5, <2>1 DEF Recorded, n
<1>8. Aged(t, c, v)
  BY <1>1, <1>3, <1>6 DEF Aged
<1>9. WipesPaired(t)
  BY <1>2, <1>3, <1>5 DEF WipesPaired, n
<1>10. Generations(t, c)
  <2>1. ASSUME NEW j \in 1 .. c, IsObjectDelta(D(j))
        PROVE  \/ j < c /\ Wipes(t.journal[j + 1].delta, D(j).address)
               \/ Succeeds(Replaced(D(j)), ViewAt(s, j).objects[D(j).address])
    <3>1. \/ j < n /\ Wipes(D(j + 1), D(j).address)
          \/ Succeeds(Replaced(D(j)), ViewAt(s, j).objects[D(j).address])
      BY <1>3, <2>1 DEF Generations, n
    <3>2. j = c \/ (j < c /\ j + 1 \in 1 .. c)
      BY SMTT(30), <1>1
    <3>3. QED BY <1>2, <1>4, <3>1, <3>2 DEF Wipes
  <2>2. QED BY <1>2, <1>5, <1>6, <2>1 DEF Generations
<1>11. SlotsKept(t, c)
  <2>1. ASSUME NEW j \in 1 .. c, NEW a, NEW m \in 0 .. c
        PROVE  Unwiped(t, a, j, m) <=> Unwiped(s, a, j, m)
    <3>1. \A i \in j + 1 .. m : i \in 1 .. c
      BY SMTT(30), <1>1
    <3>2. QED BY <1>2, <3>1 DEF Unwiped
  <2>2. ASSUME NEW j \in 1 .. c
        PROVE  \A i \in j + 1 .. c : i \in 1 .. c /\ i - 1 \in 0 .. c
    BY SMTT(30), <1>1
  <2>3. c \in 0 .. c
    BY SMTT(30), <1>1
  <2>4. QED BY <1>2, <1>3, <1>5, <1>6, <2>1, <2>2, <2>3 DEF SlotsKept
<1>12. AllFit(t, c)
  <2>1. \A a \in Address : ObjectOf(t, a) = ObjectOf(s, a)
    BY DEF ObjectOf
  <2>2. QED BY <1>3, <1>4, <2>1 DEF AllFit, Wipes, n
<1>13. Whole(t, C)
  <2>1. ASSUME NEW m \in C
        PROVE  m \in 0 .. c /\ (m < c => ~IsStorageDelta(t.journal[m + 1].delta))
    <3>1. m \in 0 .. n /\ m <= c /\ (m < n => ~IsStorageDelta(D(m + 1)))
      BY <1>3 DEF Whole, n
    <3>2. m \in 0 .. c /\ (m < c => m < n /\ m + 1 \in 1 .. c)
      BY SMTT(30), <1>1, <3>1
    <3>3. QED BY <1>2, <3>1, <3>2
  <2>2. QED BY <1>2, <2>1 DEF Whole
<1>14. QED BY <1>7, <1>8, <1>9, <1>10, <1>11, <1>12, <1>13 DEF History

-----------------------------------------------------------------------------
(***************************************************************************)
(* The end of a transaction.                                               *)
(***************************************************************************)

\* Every object starts from db and every storage fits its object.
Founded(s) == /\ \A a \in Address : s.objects[a] # None => KnownObject(s, a, s.objects[a])
              /\ \A a \in Address : Fits(s.db, ObjectOf(s, a), s.storage[a], a)

\* ... and no slot has a value that is not the original one.
Settled(s) == /\ Founded(s)
              /\ \A a \in Address, k \in Key : s.storage[a] # None => s.storage[a].current[k] = None

\* destruct keeps the objects and the storage founded.
LEMMA DestructFounded ==
    ASSUME NEW s \in IntraBlockStateType, NEW addresses \in SUBSET Address, Founded(s)
    PROVE  Founded(Destruct(s, addresses)) /\ Destruct(s, addresses).db = s.db
<1> DEFINE sto == [a \in Address |-> IF a \in addresses THEN None ELSE s.storage[a]]
           obj == [a \in Address |-> IF a \in addresses /\ ObjectOf(s, a) # None
                                     THEN [ObjectOf(s, a) EXCEPT !.current = None] ELSE s.objects[a]]
           t == Destruct(s, addresses)
<1>1. t = [s EXCEPT !.storage = sto, !.objects = obj]
  BY DEF Destruct
<1>2. \A a \in Address :
        /\ sto[a] = IF a \in addresses THEN None ELSE s.storage[a]
        /\ obj[a] = IF a \in addresses /\ ObjectOf(s, a) # None
                    THEN [ObjectOf(s, a) EXCEPT !.current = None] ELSE s.objects[a]
  OBVIOUS
<1> HIDE DEF sto, obj, t
<1>3. t.storage = sto /\ t.objects = obj /\ t.db = s.db /\ t.code = s.code
  BY <1>1 DEF IntraBlockStateType
<1>4. ASSUME NEW a \in Address, t.objects[a] # None
      PROVE  KnownObject(t, a, t.objects[a])
  <2>1. CASE a \in addresses /\ ObjectOf(s, a) # None
    <3>1. ObjectOf(s, a) \in Object
      BY <2>1, ObjectOfType
    <3>2. ObjectOf(s, a).initial = s.db.accounts[a]
      BY <2>1 DEF Founded, ObjectOf, KnownObject
    <3>3. t.objects[a].initial = ObjectOf(s, a).initial /\ t.objects[a].current = None
      <4>1. t.objects[a] = [ObjectOf(s, a) EXCEPT !.current = None]
        BY <1>2, <1>3, <2>1
      <4>2. QED BY <3>1, <4>1 DEF Object
    <3>4. QED BY <1>3, <3>2, <3>3 DEF KnownObject, Alive
  <2>2. CASE ~(a \in addresses /\ ObjectOf(s, a) # None)
    <3>1. t.objects[a] = s.objects[a]
      BY <1>2, <1>3, <2>2
    <3>2. QED BY <1>3, <1>4, <3>1 DEF Founded, KnownObject
  <2>3. QED BY <2>1, <2>2
<1>5. ASSUME NEW a \in Address
      PROVE  Fits(t.db, ObjectOf(t, a), t.storage[a], a)
  <2>1. CASE a \in addresses
    BY <1>2, <1>3, <2>1 DEF Fits
  <2>2. CASE a \notin addresses
    <3>1. t.objects[a] = s.objects[a] /\ t.storage[a] = s.storage[a]
      BY <1>2, <1>3, <2>2
    <3>2. ObjectOf(t, a) = ObjectOf(s, a)
      BY <1>3, <3>1 DEF ObjectOf
    <3>3. QED BY <1>3, <3>1, <3>2 DEF Founded
  <2>3. QED BY <2>1, <2>2
<1>6. Founded(t)
  BY <1>4, <1>5 DEF Founded
<1>7. QED BY <1>3, <1>6 DEF t

\* destruct_touched_dead does.
LEMMA DestructTouchedDeadFounded ==
    ASSUME NEW s \in IntraBlockStateType, Founded(s)
    PROVE  Founded(DestructTouchedDead(s)) /\ DestructTouchedDead(s).db = s.db
<1> DEFINE obj == [a \in Address |-> IF a \in s.touched THEN ObjectOf(s, a) ELSE s.objects[a]]
           t == [s EXCEPT !.objects = obj]
           dead == {a \in s.touched : IsDead(s, a)}
<1>1. obj \in [Address -> Object \cup {None}]
  BY ObjectOfType DEF IntraBlockStateType
<1>2. dead \in SUBSET Address
  BY DEF IntraBlockStateType
<1>3. \A a \in Address : obj[a] = s.objects[a] \/ obj[a] = ObjectOf(s, a)
  OBVIOUS
<1>4. DestructTouchedDead(s) = Destruct(t, dead)
  BY DEF DestructTouchedDead
<1> HIDE DEF obj, dead
<1>5. t \in IntraBlockStateType /\ t.objects = obj /\ t.db = s.db /\ t.code = s.code /\ t.storage = s.storage
  BY <1>1 DEF IntraBlockStateType
<1> HIDE DEF t
<1>6. \A a \in Address : ObjectOf(t, a) = ObjectOf(s, a)
  BY <1>3, <1>5 DEF ObjectOf
<1>7. ASSUME NEW a \in Address, t.objects[a] # None
      PROVE  KnownObject(t, a, t.objects[a])
  <2>1. KnownObject(s, a, t.objects[a])
    <3>1. CASE s.objects[a] # None
      BY <1>3, <1>5, <1>7, <3>1 DEF Founded, ObjectOf
    <3>2. CASE s.objects[a] = None
      <4>1. t.objects[a] = [initial |-> s.db.accounts[a], current |-> s.db.accounts[a]]
        BY <1>3, <1>5, <1>7, <3>2 DEF ObjectOf
      <4>2. QED BY SMTT(30), <4>1 DEF KnownObject, SameIncarnation, Alive
    <3>3. QED BY <3>1, <3>2
  <2>2. QED BY <1>5, <2>1 DEF KnownObject
<1>8. Founded(t)
  BY <1>5, <1>6, <1>7 DEF Founded
<1>9. QED BY <1>2, <1>4, <1>5, <1>8, DestructFounded

\* finalize_transaction makes the current values the original ones and keeps
\* the initial ones; a slot without an initial value is of a new contract.
LEMMA FinalizeSettled ==
    ASSUME NEW s \in IntraBlockStateType, Founded(s)
    PROVE  Settled(FinalizeTransaction(s)) /\ FinalizeTransaction(s).db = s.db
<1> DEFINE sto == [a \in Address |-> IF s.storage[a] = None THEN None ELSE FinalizeStorage(s.storage[a])]
           t == FinalizeTransaction(s)
<1>1. t = [s EXCEPT !.storage = sto]
  BY DEF FinalizeTransaction
<1>2. \A a \in Address : sto[a] = IF s.storage[a] = None THEN None ELSE FinalizeStorage(s.storage[a])
  OBVIOUS
<1> HIDE DEF sto, t
<1>3. t.storage = sto /\ t.objects = s.objects /\ t.db = s.db /\ t.code = s.code
  BY <1>1 DEF IntraBlockStateType
<1>4. \A a \in Address : ObjectOf(t, a) = ObjectOf(s, a)
  BY <1>3 DEF ObjectOf
<1>5. ASSUME NEW a \in Address, NEW k \in Key, t.storage[a] # None
      PROVE  /\ t.storage[a].current[k] = None
             /\ s.storage[a] # None
             /\ s.storage[a].current[k] = None => t.storage[a].committed[k] = s.storage[a].committed[k]
             /\ s.storage[a].current[k] # None =>
                  t.storage[a].committed[k].initial = IF s.storage[a].committed[k] = None THEN Zero
                                                      ELSE s.storage[a].committed[k].initial
  <2>1. s.storage[a] # None /\ t.storage[a] = FinalizeStorage(s.storage[a])
    BY <1>2, <1>3, <1>5
  <2> DEFINE x == s.storage[a]
  <2>2. FinalizeStorage(x).current[k] = None
    BY DEF FinalizeStorage
  <2>3. FinalizeStorage(x).committed[k]
          = IF x.current[k] = None THEN x.committed[k]
            ELSE [initial |-> IF x.committed[k] = None THEN Zero ELSE x.committed[k].initial,
                  original |-> x.current[k]]
    BY DEF FinalizeStorage
  <2> HIDE DEF x
  <2>4. x.current[k] # None =>
          FinalizeStorage(x).committed[k].initial
            = IF x.committed[k] = None THEN Zero ELSE x.committed[k].initial
    BY SMTT(30), <2>3
  <2>5. QED BY <2>1, <2>2, <2>3, <2>4 DEF x
<1>6. ASSUME NEW a \in Address
      PROVE  Fits(t.db, ObjectOf(t, a), t.storage[a], a)
  <2> DEFINE o == ObjectOf(s, a)
             p == s.storage[a]
             q == t.storage[a]
  <2>1. Fits(s.db, o, p, a)
    BY DEF Founded
  <2>2. ASSUME q # None, NEW k \in Key
        PROVE  /\ q.committed[k] # None => q.committed[k].initial = BlockStart(s.db, o, a, k)
               /\ q.current[k] # None => IsContract(o) /\ (SameIncarnation(o) => q.committed[k] # None)
               /\ ~IsContract(o) /\ q.committed[k] # None => q.committed[k].original = Zero
    <3>1. /\ p # None /\ q.current[k] = None
          /\ p.current[k] = None => q.committed[k] = p.committed[k]
          /\ p.current[k] # None =>
               q.committed[k].initial = IF p.committed[k] = None THEN Zero ELSE p.committed[k].initial
      BY <1>5, <2>2
    <3>2. /\ p.committed[k] # None => p.committed[k].initial = BlockStart(s.db, o, a, k)
          /\ p.current[k] # None => IsContract(o) /\ (SameIncarnation(o) => p.committed[k] # None)
          /\ ~IsContract(o) /\ p.committed[k] # None => p.committed[k].original = Zero
      BY <2>1, <3>1 DEF Fits
    <3> HIDE DEF o, p, q
    <3>3. QED BY <3>1, <3>2 DEF BlockStart
  <2>3. Fits(s.db, o, q, a)
    BY <2>2 DEF Fits
  <2>4. QED BY <1>3, <1>4, <2>3
<1>7. \A a \in Address : t.objects[a] # None => KnownObject(t, a, t.objects[a])
  BY <1>3 DEF Founded, KnownObject
<1>8. Settled(t)
  BY <1>5, <1>6, <1>7 DEF Settled, Founded
<1>9. QED BY <1>3, <1>8 DEF t

\* A transaction begins without history.
LEMMA ClearKept ==
    ASSUME NEW s \in IntraBlockStateType, Settled(s)
    PROVE  LET t == ClearJournalAndSubstate(s)
           IN /\ t.db = s.db /\ History(t, 0, View(t), {})
              /\ \A a \in Address, k \in Key : View(t).slots[a][k].current = View(t).slots[a][k].original
<1> DEFINE t == ClearJournalAndSubstate(s)
<1>1. /\ t.db = s.db /\ t.objects = s.objects /\ t.storage = s.storage /\ t.code = s.code
      /\ t.journal = <<>>
  BY DEF ClearJournalAndSubstate, IntraBlockStateType
<1> HIDE DEF t
<1>2. \A a \in Address : ObjectOf(t, a) = ObjectOf(s, a)
  BY <1>1 DEF ObjectOf
<1>3. /\ Len(t.journal) = 0 /\ \A j \in 1 .. 0 : FALSE
      /\ \A j \in 0 .. 0 : j = 0
  BY SMTT(30), <1>1
<1>4. ViewAt(t, 0) = View(t)
  BY SMTT(30), <1>3 DEF ViewAt
<1>5. Later(View(t), View(t))
  BY DEF Later
<1>6. Recorded(t)
  BY <1>1, <1>3 DEF Recorded, Settled, Founded, KnownObject
<1>7. Aged(t, 0, View(t))
  BY <1>3, <1>4, <1>5 DEF Aged
<1>8. WipesPaired(t) /\ Generations(t, 0) /\ SlotsKept(t, 0) /\ Whole(t, {})
  BY <1>3 DEF WipesPaired, Generations, SlotsKept, Whole
<1>9. AllFit(t, 0)
  BY <1>1, <1>2 DEF AllFit, Settled, Founded
<1>10. ASSUME NEW a \in Address, NEW k \in Key
       PROVE  View(t).slots[a][k].current = View(t).slots[a][k].original
  <2>1. /\ View(t).slots[a][k].current = CurrentValue(t.db, ObjectOf(t, a), t.storage[a], a, k)
        /\ View(t).slots[a][k].original = OriginalValue(t.db, ObjectOf(t, a), t.storage[a], a, k)
    BY DEF View, Slots
  <2>2. t.storage[a] # None => t.storage[a].current[k] = None
    BY <1>1 DEF Settled
  <2>3. QED BY <2>1, <2>2 DEF CurrentValue
<1>11. QED BY <1>1, <1>6, <1>7, <1>8, <1>9, <1>10 DEF History, t

-----------------------------------------------------------------------------

=============================================================================
