----------------------- MODULE IntraBlockStateLemmas -----------------------
(***************************************************************************)
(* What the methods of IntraBlockState do to the journal: each of them     *)
(* extends it so that it can still be undone, Revert undoes the entry it   *)
(* is given, and the methods that end a transaction keep the types.        *)
(***************************************************************************)
EXTENDS Journal, TLAPS

\* What get_object finds or loads is an Object or nothing.
LEMMA ObjectOfType ==
    ASSUME NEW s \in IntraBlockStateType, NEW a \in Address
    PROVE  ObjectOf(s, a) \in Object \cup {None}
BY DEF StateBuffer, IntraBlockStateType, ObjectOf, Object

\* get_storage returns a storage value, for the original and the current value alike.
LEMMA ValueType ==
    ASSUME NEW db \in StateBuffer, NEW obj \in Object \cup {None}, NEW sto \in Storage \cup {None},
           NEW a \in Address, NEW k \in Key
    PROVE  /\ OriginalValue(db, obj, sto, a, k) \in Value
           /\ CurrentValue(db, obj, sto, a, k) \in Value
<1>1. OriginalValue(db, obj, sto, a, k) \in Value
  <2>1. CASE ~Alive(obj)
    BY <2>1, ValuesAssumption DEF OriginalValue
  <2>2. CASE Alive(obj)
    <3>1. obj \in Object /\ obj.current \in Account
      BY <2>2 DEF Alive, Object
    <3>2. CASE sto # None /\ sto.committed[k] # None
      BY <2>2, <3>2 DEF OriginalValue, Storage, CommittedValue
    <3>3. CASE ~(sto # None /\ sto.committed[k] # None) /\ SameIncarnation(obj)
      BY <2>2, <3>1, <3>3 DEF OriginalValue, StateBuffer, Account
    <3>4. CASE ~(sto # None /\ sto.committed[k] # None) /\ ~SameIncarnation(obj)
      BY <2>2, <3>4, ValuesAssumption DEF OriginalValue
    <3>5. QED BY <3>2, <3>3, <3>4
  <2>3. QED BY <2>1, <2>2
<1>2. CurrentValue(db, obj, sto, a, k) \in Value
  BY <1>1 DEF CurrentValue, Storage
<1>3. QED BY <1>1, <1>2

\* What the readers of IntraBlockState return is well typed.
LEMMA ViewTypeOK ==
    ASSUME NEW s \in IntraBlockStateType
    PROVE  View(s) \in ViewType
\* The slots read through get_storage form a total map of values.
<1>SlotsType. ASSUME NEW db \in StateBuffer, NEW obj \in Object \cup {None}, NEW sto \in Storage \cup {None},
                     NEW a \in Address
              PROVE  Slots(db, obj, sto, a) \in [Key -> [current: Value, original: Value]]
  BY ValueType DEF Slots
<1>1. \A a \in Address : ObjectOf(s, a) \in Object \cup {None}
  BY ObjectOfType
<1>2. s.db \in StateBuffer /\ \A a \in Address : s.storage[a] \in Storage \cup {None}
  BY DEF IntraBlockStateType
<1>3. \A a \in Address : Slots(s.db, ObjectOf(s, a), s.storage[a], a) \in [Key -> [current: Value, original: Value]]
  BY ZenonT(30), <1>1, <1>2, <1>SlotsType
<1>4. QED BY <1>1, <1>3 DEF View, ViewType, IntraBlockStateType

\* journal_.emplace_back keeps the types of the data members.
LEMMA JournalledType ==
    ASSUME NEW s \in IntraBlockStateType, NEW d \in Delta
    PROVE  Journalled(s, d) \in IntraBlockStateType
<1>1. [delta |-> d, before |-> View(s)] \in [delta: Delta, before: ViewType]
  BY ViewTypeOK
<1>2. s.journal \in Seq([delta: Delta, before: ViewType])
  BY DEF IntraBlockStateType
<1>3. Append(s.journal, [delta |-> d, before |-> View(s)]) \in Seq([delta: Delta, before: ViewType])
  BY <1>1, <1>2
<1>4. QED BY ZenonT(30), <1>3 DEF Journalled, IntraBlockStateType

-----------------------------------------------------------------------------
Entry == [delta: Delta, before: ViewType]

\* A state whose whole journal can be undone.
Good(s) == s \in IntraBlockStateType /\ Linked(s, Len(s.journal))

\* t is reached from s by an operation that is journalled as it should be.
Extends(s, t) == /\ Good(t)
                 /\ t.db = s.db /\ t.logs = s.logs
                 /\ Len(s.journal) <= Len(t.journal)
                 /\ \A n \in 1 .. Len(s.journal) : t.journal[n].delta = s.journal[n].delta
                 /\ \A n \in 0 .. Len(s.journal) : ViewAt(t, n) = ViewAt(s, n)

\* Operations compose: a method that calls two helpers in turn is journalled
\* as it should be when both are.
LEMMA ExtendsTransitive ==
    ASSUME NEW s, NEW t, NEW u, Good(s), Extends(s, t), Extends(t, u)
    PROVE  Extends(s, u)
<1>1. Len(s.journal) \in Nat /\ Len(t.journal) \in Nat /\ Len(u.journal) \in Nat
  BY DEF Extends, Good, IntraBlockStateType
<1>2. QED BY <1>1 DEF Extends

\* An entry that can be undone on its own can also be undone when more
\* entries of the journal follow it.
LEMMA LinkWithoutNext ==
    ASSUME NEW db, NEW d, NEW before, NEW after, NEW next,
           Link(db, d, before, after, None)
    PROVE  Link(db, d, before, after, next)
BY ZenonT(30) DEF Link

\* Caching: an operation that neither journals nor changes what is observed.
LEMMA QuietExtends ==
    ASSUME NEW s, NEW t \in IntraBlockStateType, Good(s),
           t.db = s.db, t.logs = s.logs, t.journal = s.journal, View(t) = View(s)
    PROVE  Extends(s, t)
<1>1. Len(s.journal) \in Nat
  BY DEF Good, IntraBlockStateType
<1>2. \A n : ViewAt(t, n) = ViewAt(s, n)
  BY DEF ViewAt
<1>3. \A n : NextDelta(t, n) = NextDelta(s, n)
  BY DEF NextDelta
<1>4. Linked(t, Len(t.journal))
  BY <1>2, <1>3 DEF Linked, Good
<1>5. QED BY <1>1, <1>2, <1>4 DEF Extends, Good

\* One journalled change.
LEMMA AppendExtends ==
    ASSUME NEW s, NEW t \in IntraBlockStateType, NEW d \in Delta, Good(s),
           t.db = s.db, t.logs = s.logs,
           t.journal = Append(s.journal, [delta |-> d, before |-> View(s)]),
           Link(s.db, d, View(s), View(t), None)
    PROVE  Extends(s, t)
<1> DEFINE n == Len(s.journal)
<1>1. s.journal \in Seq(Entry) /\ n \in Nat /\ [delta |-> d, before |-> View(s)] \in Entry
  BY ViewTypeOK DEF Good, IntraBlockStateType, Entry
<1>2. /\ Len(t.journal) = n + 1
      /\ \A j \in 1 .. n : t.journal[j] = s.journal[j]
      /\ t.journal[n + 1] = [delta |-> d, before |-> View(s)]
  BY <1>1
<1>3. \A j \in 0 .. n : ViewAt(t, j) = ViewAt(s, j)
  BY <1>1, <1>2 DEF ViewAt
<1>4. ViewAt(t, n + 1) = View(t)
  BY <1>1, <1>2 DEF ViewAt
<1>5. ASSUME NEW j \in 1 .. n + 1
      PROVE  Link(t.db, t.journal[j].delta, ViewAt(t, j - 1), ViewAt(t, j), NextDelta(t, j))
  <2>1. CASE j = n + 1
    <3>1. NextDelta(t, j) = None /\ ViewAt(t, j - 1) = View(s) /\ t.journal[j].delta = d
      BY <1>1, <1>2, <1>3, <2>1 DEF NextDelta, ViewAt
    <3>2. QED BY <3>1, <1>4, <2>1
  <2>2. CASE j < n + 1
    <3>1. j \in 1 .. n /\ j - 1 \in 0 .. n /\ j \in 0 .. n
      BY <1>1, <2>2
    <3>2. Link(t.db, t.journal[j].delta, ViewAt(t, j - 1), ViewAt(t, j), NextDelta(s, j))
      BY <3>1, <1>2, <1>3 DEF Good, Linked
    <3>3. CASE j < n
      <4>1. NextDelta(t, j) = NextDelta(s, j)
        BY <1>1, <1>2, <3>1, <3>3 DEF NextDelta
      <4>2. QED BY <4>1, <3>2
    <3>4. CASE j = n
      <4>1. NextDelta(s, j) = None /\ NextDelta(t, j) = d
        BY <1>1, <1>2, <3>4 DEF NextDelta
      <4>2. d # None
        BY ValuesAssumption
      <4>3. QED BY <4>1, <4>2, <3>2, LinkWithoutNext
    <3>5. QED BY <1>1, <2>2, <3>3, <3>4
  <2>3. QED BY <1>1, <2>1, <2>2
<1>6. Linked(t, Len(t.journal))
  BY <1>2, <1>5 DEF Linked
<1>7. QED BY <1>1, <1>2, <1>3, <1>6 DEF Extends, Good

-----------------------------------------------------------------------------
SameSubstate(s, t) == /\ t.self_destructs = s.self_destructs
                      /\ t.touched = s.touched
                      /\ t.accessed_addresses = s.accessed_addresses
                      /\ t.accessed_storage_keys = s.accessed_storage_keys

\* Two observations that agree field by field are the same.
LEMMA ViewEquality ==
    ASSUME NEW v \in ViewType, NEW w \in ViewType,
           v.objects = w.objects, v.slots = w.slots, v.self_destructs = w.self_destructs,
           v.touched = w.touched, v.accessed_addresses = w.accessed_addresses,
           v.accessed_storage_keys = w.accessed_storage_keys
    PROVE  v = w
BY DEF ViewType

\* A view that differs from v in the object and the slots of one account.
LEMMA WithAccountEquality ==
    ASSUME NEW v \in ViewType, NEW u \in ViewType, NEW a \in Address, NEW obj \in Object \cup {None},
           NEW slots \in [Key -> [current: Value, original: Value]],
           u.objects = [v.objects EXCEPT ![a] = obj], u.slots = [v.slots EXCEPT ![a] = slots],
           u.self_destructs = v.self_destructs, u.touched = v.touched,
           u.accessed_addresses = v.accessed_addresses,
           u.accessed_storage_keys = v.accessed_storage_keys
    PROVE  u = WithAccount(v, a, obj, slots)
<1> DEFINE w == WithAccount(v, a, obj, slots)
<1>1. /\ w \in ViewType
      /\ w.objects = [v.objects EXCEPT ![a] = obj]
      /\ w.slots = [v.slots EXCEPT ![a] = slots]
      /\ w.self_destructs = v.self_destructs
      /\ w.touched = v.touched
      /\ w.accessed_addresses = v.accessed_addresses
      /\ w.accessed_storage_keys = v.accessed_storage_keys
  BY ZenonT(30) DEF WithAccount, ViewType
<1> HIDE DEF w
<1>2. u = w
  BY <1>1, ViewEquality
<1>3. QED BY <1>2 DEF w

\* A change of one account's object and storage is seen at that account only.
LEMMA ViewLocal ==
    ASSUME NEW s \in IntraBlockStateType, NEW t \in IntraBlockStateType, NEW a \in Address,
           t.db = s.db, SameSubstate(s, t),
           \A b \in Address \ {a} : t.objects[b] = s.objects[b] /\ t.storage[b] = s.storage[b]
    PROVE  View(t) = WithAccount(View(s), a, ObjectOf(t, a), Slots(t.db, ObjectOf(t, a), t.storage[a], a))
<1> DEFINE obj == ObjectOf(t, a)
           slots == Slots(t.db, ObjectOf(t, a), t.storage[a], a)
<1>0. View(s) \in ViewType /\ View(t) \in ViewType
  BY ViewTypeOK
<1>1. \A b \in Address \ {a} : ObjectOf(t, b) = ObjectOf(s, b)
  BY ZenonT(30) DEF ObjectOf
<1>2. \A b \in Address \ {a} : Slots(t.db, ObjectOf(t, b), t.storage[b], b)
                                 = Slots(s.db, ObjectOf(s, b), s.storage[b], b)
  BY ZenonT(30), <1>1
<1>3. /\ View(t).objects = [View(s).objects EXCEPT ![a] = obj]
      /\ obj \in Object \cup {None}
  BY ZenonT(30), <1>1, ObjectOfType DEF View
<1>4. /\ View(t).slots = [View(s).slots EXCEPT ![a] = slots]
      /\ slots \in [Key -> [current: Value, original: Value]]
  BY ZenonT(30), <1>2, <1>0 DEF View, ViewType
<1>5. /\ View(t).self_destructs = View(s).self_destructs
      /\ View(t).touched = View(s).touched
      /\ View(t).accessed_addresses = View(s).accessed_addresses
      /\ View(t).accessed_storage_keys = View(s).accessed_storage_keys
  BY ZenonT(30) DEF View, SameSubstate
<1>9. obj \in Object \cup {None} /\ slots \in [Key -> [current: Value, original: Value]]
  BY ZenonT(30), <1>3, <1>4
<1> HIDE DEF obj, slots
<1>7. View(t) = WithAccount(View(s), a, obj, slots)
  BY SMTT(60), <1>0, <1>3, <1>4, <1>5, <1>9, WithAccountEquality
<1>8. QED BY <1>7 DEF obj, slots

\* The slots depend on the object through its generation only.
LEMMA SlotsOfGeneration ==
    ASSUME NEW db, NEW o, NEW p, NEW sto, NEW a, SameGeneration(o, p)
    PROVE  Slots(db, o, sto, a) = Slots(db, p, sto, a)
<1>1. \A k \in Key : OriginalValue(db, o, sto, a, k) = OriginalValue(db, p, sto, a, k)
  BY DEF OriginalValue, SameGeneration, SameIncarnation
<1>2. \A k \in Key : CurrentValue(db, o, sto, a, k) = CurrentValue(db, p, sto, a, k)
  BY <1>1 DEF CurrentValue, SameGeneration
<1>3. QED BY <1>1, <1>2 DEF Slots

\* get_storage reads zero from an account that does not exist.
LEMMA NoSlotsOfDead ==
    ASSUME NEW db, NEW obj, NEW sto, NEW a, ~Alive(obj)
    PROVE  Slots(db, obj, sto, a) = NoSlots
BY DEF Slots, NoSlots, CurrentValue, OriginalValue

\* get_object caches the account it loads, which is not observable.
LEMMA GetObjectQuiet ==
    ASSUME NEW s, NEW a \in Address, Good(s)
    PROVE  /\ GetObject(s, a).objects[a] = ObjectOf(s, a)
           /\ GetObject(s, a).storage = s.storage
           /\ ObjectOf(GetObject(s, a), a) = ObjectOf(s, a)
           /\ Extends(s, GetObject(s, a))
<1> DEFINE t == GetObject(s, a)
<1>1. s \in IntraBlockStateType
  BY DEF Good
<1>2. t \in IntraBlockStateType
  BY ZenonT(30), <1>1, ObjectOfType DEF GetObject, IntraBlockStateType
<1>3. /\ t.objects[a] = ObjectOf(s, a) /\ t.storage = s.storage /\ t.db = s.db
      /\ t.journal = s.journal /\ t.logs = s.logs /\ SameSubstate(s, t)
      /\ \A b \in Address \ {a} : t.objects[b] = s.objects[b]
  BY <1>1 DEF GetObject, IntraBlockStateType, SameSubstate
<1>4. ObjectOf(t, a) = ObjectOf(s, a)
  BY ZenonT(30), <1>3 DEF ObjectOf
<1>5. View(t) = View(s)
  <2>1. View(t) = WithAccount(View(s), a, ObjectOf(t, a), Slots(t.db, ObjectOf(t, a), t.storage[a], a))
    BY ZenonT(30), <1>1, <1>2, <1>3, ViewLocal
  <2>2. View(s).objects[a] = ObjectOf(s, a) /\ View(s).slots[a] = Slots(s.db, ObjectOf(s, a), s.storage[a], a)
    BY DEF View
  <2>3. View(s) \in ViewType
    BY <1>1, ViewTypeOK
  <2>4. View(s) = WithAccount(View(s), a, View(s).objects[a], View(s).slots[a])
    BY ZenonT(30), <2>3 DEF ViewType, WithAccount
  <2>5. QED BY <2>1, <2>2, <2>4, <1>3, <1>4
<1>6. Extends(s, t)
  BY <1>2, <1>3, <1>5, QuietExtends
<1>7. QED BY <1>3, <1>4, <1>6

\* A delta of an object whose storage is the same before and after it.
LEMMA UpdateExtends ==
    ASSUME NEW s, NEW t \in IntraBlockStateType, NEW a \in Address, Good(s),
           t.db = s.db, t.logs = s.logs, SameSubstate(s, t), t.storage = s.storage,
           \A b \in Address \ {a} : t.objects[b] = s.objects[b],
           s.objects[a] # None, t.objects[a] # None,
           t.journal = Append(s.journal, [delta |-> UpdateDelta(a, s.objects[a]), before |-> View(s)]),
           s.objects[a].current = None \/ SameGeneration(s.objects[a], t.objects[a])
    PROVE  Extends(s, t)
<1> DEFINE d == UpdateDelta(a, s.objects[a])
<1>1. s \in IntraBlockStateType /\ s.objects[a] \in Object
  BY ZenonT(30) DEF Good, IntraBlockStateType
<1>2. d \in Delta /\ d.type = "Update" /\ d.address = a /\ d.previous = s.objects[a]
  BY ZenonT(30), <1>1 DEF UpdateDelta, Delta
<1>3. ObjectOf(s, a) = s.objects[a] /\ ObjectOf(t, a) = t.objects[a]
  BY ZenonT(30) DEF ObjectOf
<1>4. View(s) = WithAccount(View(t), a, s.objects[a], Slots(s.db, s.objects[a], s.storage[a], a))
  <2>1. View(s) = WithAccount(View(t), a, ObjectOf(s, a), Slots(s.db, ObjectOf(s, a), s.storage[a], a))
    <3>1. SameSubstate(t, s)
      BY DEF SameSubstate
    <3>2. QED BY ZenonT(30), <1>1, <3>1, ViewLocal
  <2>2. QED BY ZenonT(30), <2>1, <1>3
<1>5. /\ View(s).slots[a] = Slots(s.db, s.objects[a], s.storage[a], a)
      /\ View(t).slots[a] = Slots(s.db, t.objects[a], s.storage[a], a)
      /\ View(t).objects[a] = t.objects[a]
  BY ZenonT(30), <1>3 DEF View
<1>6. CASE s.objects[a].current = None
  <2>1. View(s).slots[a] = NoSlots
    BY ZenonT(30), <1>5, <1>6 DEF Slots, NoSlots, CurrentValue, OriginalValue, Alive
  <2>2. Link(s.db, d, View(s), View(t), None)
    BY <1>2, <1>4, <1>5, <1>6, <2>1 DEF Link, IsStorageDelta, Alive
  <2>3. QED BY SMTT(60), <1>1, <1>2, <2>2, AppendExtends
<1>7. CASE SameGeneration(s.objects[a], t.objects[a])
  <2>1. View(s).slots[a] = View(t).slots[a]
    BY <1>5, <1>7, SlotsOfGeneration
  <2>2. Link(s.db, d, View(s), View(t), None)
    BY ZenonT(30), <1>2, <1>4, <1>5, <1>7, <2>1 DEF Link, IsStorageDelta
  <2>3. QED BY ZenonT(30), <1>1, <1>2, <2>2, AppendExtends
<1>8. QED BY <1>6, <1>7

-----------------------------------------------------------------------------
\* The account that get_or_create_object makes is an Account.
LEMMA EmptyAccountType == EmptyAccount \in Account
BY WidthAssumption, ValuesAssumption DEF EmptyAccount, Account, Uint, Incarnation

\* Replacing one object, after journalling delta d.
WithObject(s, d, a, o) == [Journalled(s, d) EXCEPT !.objects[a] = o]

\* What changes, and what does not, when one object is replaced after a
\* delta was journalled.
LEMMA SetObjectFields ==
    ASSUME NEW s \in IntraBlockStateType, NEW d \in Delta, NEW a \in Address,
           NEW o \in Object \cup {None}
    PROVE  LET t == WithObject(s, d, a, o)
           IN /\ t \in IntraBlockStateType
              /\ t.db = s.db /\ t.logs = s.logs /\ SameSubstate(s, t) /\ t.storage = s.storage
              /\ t.journal = Append(s.journal, [delta |-> d, before |-> View(s)])
              /\ t.objects[a] = o
              /\ \A b \in Address \ {a} : t.objects[b] = s.objects[b]
<1> DEFINE j == Journalled(s, d)
           t == [j EXCEPT !.objects[a] = o]
<1>1. j \in IntraBlockStateType
  BY JournalledType
<1>2. /\ j.db = s.db /\ j.logs = s.logs /\ SameSubstate(s, j) /\ j.storage = s.storage
      /\ j.journal = Append(s.journal, [delta |-> d, before |-> View(s)])
      /\ j.objects = s.objects
  BY DEF Journalled, SameSubstate, IntraBlockStateType
<1> HIDE DEF j
<1>3. t \in IntraBlockStateType
  BY ZenonT(30), <1>1 DEF IntraBlockStateType
<1>4. /\ t.db = j.db /\ t.logs = j.logs /\ SameSubstate(j, t) /\ t.storage = j.storage
      /\ t.journal = j.journal /\ t.objects = [j.objects EXCEPT ![a] = o]
  BY <1>1 DEF SameSubstate, IntraBlockStateType
<1>5. t.objects[a] = o /\ \A b \in Address \ {a} : t.objects[b] = j.objects[b]
  BY <1>1, <1>4 DEF IntraBlockStateType
<1> HIDE DEF t
<1>6. SameSubstate(s, t)
  BY <1>2, <1>4 DEF SameSubstate
<1>7. t = WithObject(s, d, a, o)
  BY DEF t, j, WithObject
<1>8. QED BY ZenonT(30), <1>2, <1>3, <1>4, <1>5, <1>6, <1>7

\* get_or_create_object journals what it creates, and its object has a
\* current account afterwards.
LEMMA GetOrCreateExtends ==
    ASSUME NEW s, NEW a \in Address, Good(s)
    PROVE  LET t == GetOrCreateObject(s, a)
           IN /\ Extends(s, t)
              /\ t.objects[a] \in Object /\ t.objects[a].current \in Account
<1> DEFINE t == GetObject(s, a)
           u == GetOrCreateObject(s, a)
<1>1. /\ Extends(s, t) /\ Good(t) /\ t \in IntraBlockStateType
      /\ t.objects[a] = ObjectOf(s, a) /\ ObjectOf(t, a) = t.objects[a]
      /\ t.objects[a] \in Object \cup {None}
  BY GetObjectQuiet, ObjectOfType DEF Extends, Good
<1>2. None \notin Account /\ None \notin Object
  BY ValuesAssumption
<1>3. CASE t.objects[a] = None
  <2> DEFINE d == CreateDelta(a)
             o == [initial |-> None, current |-> EmptyAccount]
  <2>1. d \in Delta /\ d.type = "Create" /\ d.address = a
    BY DEF CreateDelta, Delta
  <2>2. u = WithObject(t, d, a, o) /\ o \in Object
    BY <1>3, EmptyAccountType DEF GetOrCreateObject, Object, WithObject
  <2> HIDE DEF o, d
  <2>3. /\ u \in IntraBlockStateType
        /\ u.db = t.db /\ u.logs = t.logs /\ SameSubstate(t, u) /\ u.storage = t.storage
        /\ u.journal = Append(t.journal, [delta |-> d, before |-> View(t)])
        /\ u.objects[a] = o
        /\ \A b \in Address \ {a} : u.objects[b] = t.objects[b]
    BY <1>1, <2>1, <2>2, SetObjectFields
  <2>6. ObjectOf(t, a) = None /\ t.db.accounts[a] = None
    <3>1. CASE t.db.accounts[a] # None
      <4>1. t.db.accounts[a] \in Account
        BY ZenonT(30), <1>1, <3>1 DEF IntraBlockStateType, StateBuffer
      <4>2. ObjectOf(t, a) \in Object
        BY ZenonT(30), <1>3, <3>1, <4>1 DEF ObjectOf, Object
      <4>3. QED BY <1>1, <1>2, <1>3, <4>2
    <3>2. QED BY ZenonT(30), <3>1, <1>1, <1>3
  <2>7. View(t) = WithAccount(View(u), a, None, NoSlots)
    <3>1. View(t) = WithAccount(View(u), a, ObjectOf(t, a), Slots(t.db, ObjectOf(t, a), t.storage[a], a))
      <4>1. SameSubstate(u, t)
        BY ZenonT(30), <2>3 DEF SameSubstate
      <4>2. QED BY ZenonT(30), <4>1, <1>1, <2>3, ViewLocal
    <3>2. Slots(t.db, None, t.storage[a], a) = NoSlots
      BY ZenonT(30), NoSlotsOfDead DEF Alive
    <3>3. QED BY ZenonT(30), <3>1, <3>2, <2>6
  <2>8. Link(t.db, d, View(t), View(u), None)
    BY <2>1, <2>6, <2>7 DEF Link, IsStorageDelta
  <2>9. Extends(t, u)
    BY ZenonT(30), <1>1, <2>1, <2>3, <2>8, AppendExtends
  <2>10. u.objects[a].current = EmptyAccount
    BY <2>3 DEF o
  <2>11. QED BY ZenonT(30), <1>1, <2>2, <2>3, <2>9, <2>10, EmptyAccountType, ExtendsTransitive
<1>4. CASE t.objects[a] # None /\ t.objects[a].current = None
  <2> DEFINE d == UpdateDelta(a, t.objects[a])
             o == [t.objects[a] EXCEPT !.current = EmptyAccount]
  <2>1. d \in Delta
    BY ZenonT(30), <1>1, <1>4 DEF UpdateDelta, Delta
  <2>2. u = WithObject(t, d, a, o)
    BY ZenonT(30), <1>1, <1>4 DEF GetOrCreateObject, WithObject, Journalled, IntraBlockStateType
  <2>3. o \in Object /\ o.current = EmptyAccount
    BY <1>1, <1>4, EmptyAccountType DEF Object
  <2> HIDE DEF o, d
  <2>4. /\ u \in IntraBlockStateType
        /\ u.db = t.db /\ u.logs = t.logs /\ SameSubstate(t, u) /\ u.storage = t.storage
        /\ u.journal = Append(t.journal, [delta |-> d, before |-> View(t)])
        /\ u.objects[a] = o
        /\ \A b \in Address \ {a} : u.objects[b] = t.objects[b]
    BY <1>1, <2>1, <2>2, <2>3, SetObjectFields
  <2>5. Extends(t, u)
    BY ZenonT(30), <1>1, <1>2, <1>4, <2>3, <2>4, UpdateExtends DEF d
  <2>6. QED BY ZenonT(30), <1>1, <2>3, <2>4, <2>5, EmptyAccountType, ExtendsTransitive
<1>5. CASE t.objects[a] # None /\ t.objects[a].current # None
  <2>1. u = t
    BY <1>5 DEF GetOrCreateObject
  <2>2. QED BY ZenonT(30), <1>1, <1>5, <2>1 DEF Object
<1>6. QED BY ZenonT(30), <1>3, <1>4, <1>5

\* The assignment to obj.current in set_balance, set_nonce and set_code is
\* undone by the UpdateDelta journalled before it.
LEMMA UpdateAccountExtends ==
    ASSUME NEW s, NEW a \in Address, NEW account \in Account, Good(s),
           s.objects[a] \in Object, s.objects[a].current \in Account,
           account.incarnation = s.objects[a].current.incarnation
    PROVE  Extends(s, SetCurrent(s, a, account))
<1> DEFINE d == UpdateDelta(a, s.objects[a])
           o == [s.objects[a] EXCEPT !.current = account]
           t == SetCurrent(s, a, account)
<1>1. s \in IntraBlockStateType /\ d \in Delta
  BY ZenonT(30) DEF Good, UpdateDelta, Delta
<1>2. None \notin Account /\ None \notin Object
  BY ValuesAssumption
<1>3. o \in Object /\ o.initial = s.objects[a].initial /\ o.current = account
  BY DEF Object
<1>4. t = WithObject(s, d, a, o)
  BY <1>1 DEF SetCurrent, WithObject, Journalled, IntraBlockStateType
<1> HIDE DEF o, d, t
<1>5. /\ t \in IntraBlockStateType
      /\ t.db = s.db /\ t.logs = s.logs /\ SameSubstate(s, t) /\ t.storage = s.storage
      /\ t.journal = Append(s.journal, [delta |-> d, before |-> View(s)])
      /\ t.objects[a] = o
      /\ \A b \in Address \ {a} : t.objects[b] = s.objects[b]
  BY <1>1, <1>3, <1>4, SetObjectFields
<1>6. SameGeneration(s.objects[a], o)
  BY <1>2, <1>3 DEF SameGeneration, Alive
<1>7. Extends(s, t)
  BY ZenonT(30), <1>2, <1>3, <1>5, <1>6, UpdateExtends DEF d
<1>8. QED BY <1>7 DEF t

\* Substate sets: an entry that removes the one element that was added.
SameAccounts(s, t) == t.db = s.db /\ t.objects = s.objects /\ t.storage = s.storage

\* What is observed when only the substate (self_destructs_, touched_ and the
\* EIP-2929 sets) differs.
LEMMA ViewOfSubstate ==
    ASSUME NEW s, NEW t, SameAccounts(s, t)
    PROVE  View(t) = [objects |-> View(s).objects, slots |-> View(s).slots,
                      self_destructs |-> t.self_destructs,
                      touched |-> t.touched \ {Ripemd},
                      accessed_addresses |-> t.accessed_addresses,
                      accessed_storage_keys |-> t.accessed_storage_keys]
<1>1. \A b \in Address : ObjectOf(t, b) = ObjectOf(s, b)
  BY ZenonT(30) DEF ObjectOf, SameAccounts
<1>2. \A b \in Address : Slots(t.db, ObjectOf(t, b), t.storage[b], b)
                          = Slots(s.db, ObjectOf(s, b), s.storage[b], b)
  BY ZenonT(30), <1>1 DEF SameAccounts
<1>3. QED BY ZenonT(30), <1>1, <1>2 DEF View

\* An observation with another set of self-destructs, spelled out.
LEMMA SelfDestructsExcept ==
    ASSUME NEW v \in ViewType, NEW x
    PROVE  [v EXCEPT !.self_destructs = x] =
             [objects |-> v.objects, slots |-> v.slots, self_destructs |-> x,
              touched |-> v.touched, accessed_addresses |-> v.accessed_addresses,
              accessed_storage_keys |-> v.accessed_storage_keys]
BY DEF ViewType

\* An observation with another set of touched accounts, spelled out.
LEMMA TouchedExcept ==
    ASSUME NEW v \in ViewType, NEW x
    PROVE  [v EXCEPT !.touched = x] =
             [objects |-> v.objects, slots |-> v.slots, self_destructs |-> v.self_destructs,
              touched |-> x, accessed_addresses |-> v.accessed_addresses,
              accessed_storage_keys |-> v.accessed_storage_keys]
BY DEF ViewType

\* An observation with another set of warm addresses, spelled out.
LEMMA AccessedAddressesExcept ==
    ASSUME NEW v \in ViewType, NEW x
    PROVE  [v EXCEPT !.accessed_addresses = x] =
             [objects |-> v.objects, slots |-> v.slots, self_destructs |-> v.self_destructs,
              touched |-> v.touched, accessed_addresses |-> x,
              accessed_storage_keys |-> v.accessed_storage_keys]
BY DEF ViewType

\* An observation with another set of warm storage keys, spelled out.
LEMMA AccessedStorageKeysExcept ==
    ASSUME NEW v \in ViewType, NEW x
    PROVE  [v EXCEPT !.accessed_storage_keys = x] =
             [objects |-> v.objects, slots |-> v.slots, self_destructs |-> v.self_destructs,
              touched |-> v.touched, accessed_addresses |-> v.accessed_addresses,
              accessed_storage_keys |-> x]
BY DEF ViewType

\* Assigning one set of addresses of the substate leaves all else alone.
LEMMA SubstateFields ==
    ASSUME NEW s \in IntraBlockStateType, NEW x \in SUBSET Address
    PROVE  /\ LET t == [s EXCEPT !.self_destructs = x]
              IN /\ t \in IntraBlockStateType /\ SameAccounts(s, t)
                 /\ t.logs = s.logs /\ t.journal = s.journal /\ t.self_destructs = x
                 /\ t.touched = s.touched /\ t.accessed_addresses = s.accessed_addresses
                 /\ t.accessed_storage_keys = s.accessed_storage_keys
           /\ LET t == [s EXCEPT !.touched = x]
              IN /\ t \in IntraBlockStateType /\ SameAccounts(s, t)
                 /\ t.logs = s.logs /\ t.journal = s.journal /\ t.touched = x
                 /\ t.self_destructs = s.self_destructs /\ t.accessed_addresses = s.accessed_addresses
                 /\ t.accessed_storage_keys = s.accessed_storage_keys
           /\ LET t == [s EXCEPT !.accessed_addresses = x]
              IN /\ t \in IntraBlockStateType /\ SameAccounts(s, t)
                 /\ t.logs = s.logs /\ t.journal = s.journal /\ t.accessed_addresses = x
                 /\ t.self_destructs = s.self_destructs /\ t.touched = s.touched
                 /\ t.accessed_storage_keys = s.accessed_storage_keys
BY ZenonT(30) DEF IntraBlockStateType, SameAccounts

\* journal_.emplace_back changes the journal only.
LEMMA JournalledFields ==
    ASSUME NEW s \in IntraBlockStateType, NEW d \in Delta
    PROVE  LET t == Journalled(s, d)
           IN /\ t \in IntraBlockStateType /\ SameAccounts(s, t) /\ SameSubstate(s, t)
              /\ t.journal = Append(s.journal, [delta |-> d, before |-> View(s)])
              /\ t.logs = s.logs /\ t.refund = s.refund /\ t.code = s.code
BY ZenonT(30), JournalledType DEF Journalled, IntraBlockStateType, SameAccounts, SameSubstate

\* An entry that removes from a set of the substate the element just added.
LEMMA SubstateExtends ==
    ASSUME NEW s, NEW t \in IntraBlockStateType, NEW d \in Delta, Good(s),
           SameAccounts(s, t), t.logs = s.logs,
           t.journal = Append(s.journal, [delta |-> d, before |-> View(s)]),
           d.type \in {"Suicide", "Touch", "AccountAccess", "StorageAccess"},
           s.self_destructs = IF d.type = "Suicide" THEN t.self_destructs \ {d.address}
                              ELSE t.self_destructs,
           s.touched \ {Ripemd} = IF d.type = "Touch" THEN (t.touched \ {Ripemd}) \ {d.address}
                                  ELSE t.touched \ {Ripemd},
           s.accessed_addresses = IF d.type = "AccountAccess" THEN t.accessed_addresses \ {d.address}
                                  ELSE t.accessed_addresses,
           s.accessed_storage_keys = IF d.type = "StorageAccess"
                                     THEN t.accessed_storage_keys \ {<<d.address, d.key>>}
                                     ELSE t.accessed_storage_keys
    PROVE  Extends(s, t)
<1> DEFINE v == View(t)
<1>1. SameAccounts(t, s) /\ s \in IntraBlockStateType /\ v \in ViewType
  BY ZenonT(30), ViewTypeOK DEF SameAccounts, Good
<1>2. View(s) = [objects |-> v.objects, slots |-> v.slots, self_destructs |-> s.self_destructs,
                 touched |-> s.touched \ {Ripemd}, accessed_addresses |-> s.accessed_addresses,
                 accessed_storage_keys |-> s.accessed_storage_keys]
  BY ZenonT(30), <1>1, ViewOfSubstate
<1>3. /\ v.self_destructs = t.self_destructs /\ v.touched = t.touched \ {Ripemd}
      /\ v.accessed_addresses = t.accessed_addresses
      /\ v.accessed_storage_keys = t.accessed_storage_keys
  BY ZenonT(30) DEF View
<1> HIDE DEF v
<1>4. /\ d.type = "Suicide" => View(s) = [v EXCEPT !.self_destructs = v.self_destructs \ {d.address}]
      /\ d.type = "Touch" => View(s) = [v EXCEPT !.touched = v.touched \ {d.address}]
      /\ d.type = "AccountAccess" =>
           View(s) = [v EXCEPT !.accessed_addresses = v.accessed_addresses \ {d.address}]
      /\ d.type = "StorageAccess" =>
           View(s) = [v EXCEPT !.accessed_storage_keys = v.accessed_storage_keys \ {<<d.address, d.key>>}]
  <2>1. CASE d.type = "Suicide"
    <3> DEFINE x == s.self_destructs
    <3>1. View(s) = [objects |-> v.objects, slots |-> v.slots, self_destructs |-> x,
                     touched |-> v.touched, accessed_addresses |-> v.accessed_addresses,
                     accessed_storage_keys |-> v.accessed_storage_keys]
      BY ZenonT(30), <1>2, <1>3, <2>1
    <3>2. x = v.self_destructs \ {d.address}
      BY ZenonT(30), <1>3, <2>1
    <3> HIDE DEF x
    <3>3. View(s) = [v EXCEPT !.self_destructs = x]
      BY <1>1, <3>1, SelfDestructsExcept
    <3>4. QED BY <2>1, <3>2, <3>3
  <2>2. CASE d.type = "Touch"
    <3> DEFINE x == s.touched \ {Ripemd}
    <3>1. View(s) = [objects |-> v.objects, slots |-> v.slots, self_destructs |-> v.self_destructs,
                     touched |-> x, accessed_addresses |-> v.accessed_addresses,
                     accessed_storage_keys |-> v.accessed_storage_keys]
      BY ZenonT(30), <1>2, <1>3, <2>2
    <3>2. x = v.touched \ {d.address}
      BY ZenonT(30), <1>3, <2>2
    <3> HIDE DEF x
    <3>3. View(s) = [v EXCEPT !.touched = x]
      BY <1>1, <3>1, TouchedExcept
    <3>4. QED BY <2>2, <3>2, <3>3
  <2>3. CASE d.type = "AccountAccess"
    <3> DEFINE x == s.accessed_addresses
    <3>1. View(s) = [objects |-> v.objects, slots |-> v.slots, self_destructs |-> v.self_destructs,
                     touched |-> v.touched, accessed_addresses |-> x,
                     accessed_storage_keys |-> v.accessed_storage_keys]
      BY ZenonT(30), <1>2, <1>3, <2>3
    <3>2. x = v.accessed_addresses \ {d.address}
      BY ZenonT(30), <1>3, <2>3
    <3> HIDE DEF x
    <3>3. View(s) = [v EXCEPT !.accessed_addresses = x]
      BY <1>1, <3>1, AccessedAddressesExcept
    <3>4. QED BY <2>3, <3>2, <3>3
  <2>4. CASE d.type = "StorageAccess"
    <3> DEFINE x == s.accessed_storage_keys
    <3>1. View(s) = [objects |-> v.objects, slots |-> v.slots, self_destructs |-> v.self_destructs,
                     touched |-> v.touched, accessed_addresses |-> v.accessed_addresses,
                     accessed_storage_keys |-> x]
      BY ZenonT(30), <1>2, <1>3, <2>4
    <3>2. x = v.accessed_storage_keys \ {<<d.address, d.key>>}
      BY ZenonT(30), <1>3, <2>4
    <3> HIDE DEF x
    <3>3. View(s) = [v EXCEPT !.accessed_storage_keys = x]
      BY <1>1, <3>1, AccessedStorageKeysExcept
    <3>4. QED BY <2>4, <3>2, <3>3
  <2>5. QED BY <2>1, <2>2, <2>3, <2>4
<1>5. Link(s.db, d, View(s), View(t), None)
  BY ZenonT(30), <1>4 DEF Link, IsStorageDelta, v
<1>6. QED BY ZenonT(30), <1>5, AppendExtends DEF SameAccounts

\* touch is undone by its TouchDelta; RIPEMD-160's touch is not journalled
\* and is not part of the view.
LEMMA TouchExtends ==
    ASSUME NEW s, NEW a \in Address, Good(s)
    PROVE  Extends(s, Touch(s, a))
<1> DEFINE d == TouchDelta(a)
           x == s.touched \cup {a}
<1>1. s \in IntraBlockStateType /\ d \in Delta /\ d.type = "Touch" /\ d.address = a
  BY ZenonT(30) DEF Good, TouchDelta, Delta
<1>2. x \in SUBSET Address
  BY <1>1 DEF IntraBlockStateType
<1>3. CASE a \in s.touched \/ a = Ripemd
  <2> DEFINE t == [s EXCEPT !.touched = x]
  <2>1. Touch(s, a) = t
    BY <1>3 DEF Touch
  <2>2. /\ t \in IntraBlockStateType /\ SameAccounts(s, t) /\ t.logs = s.logs /\ t.journal = s.journal
        /\ t.touched = x /\ t.self_destructs = s.self_destructs
        /\ t.accessed_addresses = s.accessed_addresses
        /\ t.accessed_storage_keys = s.accessed_storage_keys
    BY ZenonT(30), <1>1, <1>2, SubstateFields
  <2> HIDE DEF t
  <2>3. t.touched \ {Ripemd} = s.touched \ {Ripemd}
    BY <1>3, <2>2
  <2>4. View(t) = View(s)
    BY ZenonT(30), <2>2, <2>3, ViewOfSubstate DEF View
  <2>5. QED BY ZenonT(30), <2>1, <2>2, <2>4, QuietExtends DEF SameAccounts
<1>4. CASE ~(a \in s.touched \/ a = Ripemd)
  <2> DEFINE j == Journalled(s, d)
             t == [j EXCEPT !.touched = x]
  <2>1. /\ j \in IntraBlockStateType /\ SameAccounts(s, j) /\ SameSubstate(s, j) /\ j.logs = s.logs
        /\ j.journal = Append(s.journal, [delta |-> d, before |-> View(s)])
    BY ZenonT(30), <1>1, JournalledFields
  <2>2. Touch(s, a) = t
    BY ZenonT(30), <1>4, <2>1 DEF Touch, SameSubstate
  <2> HIDE DEF j, d, x
  <2>3. /\ t \in IntraBlockStateType /\ SameAccounts(j, t) /\ t.logs = j.logs /\ t.journal = j.journal
        /\ t.touched = x /\ t.self_destructs = j.self_destructs
        /\ t.accessed_addresses = j.accessed_addresses
        /\ t.accessed_storage_keys = j.accessed_storage_keys
    BY ZenonT(30), <1>2, <2>1, SubstateFields
  <2> HIDE DEF t
  <2>4. s.touched \ {Ripemd} = (t.touched \ {Ripemd}) \ {a}
    BY ZenonT(30), <1>4, <2>3 DEF x
  <2>5. SameAccounts(s, t)
    BY ZenonT(30), <2>1, <2>3 DEF SameAccounts
  <2>6. Extends(s, t)
    BY ZenonT(30), <1>1, <2>1, <2>3, <2>4, <2>5, SubstateExtends DEF SameSubstate
  <2>7. QED BY <2>2, <2>6
<1>5. QED BY <1>3, <1>4

\* record_suicide is undone by its SuicideDelta.
LEMMA RecordSuicideExtends ==
    ASSUME NEW s, NEW a \in Address, Good(s)
    PROVE  Extends(s, RecordSuicide(s, a))
<1> DEFINE d == SuicideDelta(a)
           x == s.self_destructs \cup {a}
<1>1. s \in IntraBlockStateType /\ d \in Delta /\ d.type = "Suicide" /\ d.address = a
  BY ZenonT(30) DEF Good, SuicideDelta, Delta
<1>2. x \in SUBSET Address
  BY <1>1 DEF IntraBlockStateType
<1>3. CASE a \in s.self_destructs
  <2>1. RecordSuicide(s, a) = s
    BY <1>3 DEF RecordSuicide
  <2>2. QED BY <1>1, <2>1, QuietExtends
<1>4. CASE a \notin s.self_destructs
  <2> DEFINE j == Journalled(s, d)
             t == [j EXCEPT !.self_destructs = x]
  <2>1. /\ j \in IntraBlockStateType /\ SameAccounts(s, j) /\ SameSubstate(s, j) /\ j.logs = s.logs
        /\ j.journal = Append(s.journal, [delta |-> d, before |-> View(s)])
    BY ZenonT(30), <1>1, JournalledFields
  <2>2. RecordSuicide(s, a) = t
    BY <1>4, <2>1 DEF RecordSuicide, SameSubstate
  <2> HIDE DEF j, d, x
  <2>3. /\ t \in IntraBlockStateType /\ SameAccounts(j, t) /\ t.logs = j.logs /\ t.journal = j.journal
        /\ t.self_destructs = x
        /\ t.touched = j.touched
        /\ t.accessed_addresses = j.accessed_addresses
        /\ t.accessed_storage_keys = j.accessed_storage_keys
    BY ZenonT(30), <1>2, <2>1, SubstateFields
  <2> HIDE DEF t
  <2>4. s.self_destructs = t.self_destructs \ {a}
    BY <1>4, <2>3 DEF x
  <2>5. SameAccounts(s, t)
    BY ZenonT(30), <2>1, <2>3 DEF SameAccounts
  <2>6. Extends(s, t)
    BY ZenonT(30), <1>1, <2>1, <2>3, <2>4, <2>5, SubstateExtends DEF SameSubstate
  <2>7. QED BY <2>2, <2>6
<1>5. QED BY ZenonT(30), <1>3, <1>4

\* access_account is undone by its AccountAccessDelta.
LEMMA AccessAccountExtends ==
    ASSUME NEW s, NEW a \in Address, Good(s)
    PROVE  Extends(s, AccessAccount(s, a))
<1> DEFINE d == AccountAccessDelta(a)
           x == s.accessed_addresses \cup {a}
<1>1. s \in IntraBlockStateType /\ d \in Delta /\ d.type = "AccountAccess" /\ d.address = a
  BY ZenonT(30) DEF Good, AccountAccessDelta, Delta
<1>2. x \in SUBSET Address
  BY <1>1 DEF IntraBlockStateType
<1>3. CASE a \in s.accessed_addresses
  <2>1. AccessAccount(s, a) = s
    BY <1>3 DEF AccessAccount
  <2>2. QED BY <1>1, <2>1, QuietExtends
<1>4. CASE a \notin s.accessed_addresses
  <2> DEFINE j == Journalled(s, d)
             t == [j EXCEPT !.accessed_addresses = x]
  <2>1. /\ j \in IntraBlockStateType /\ SameAccounts(s, j) /\ SameSubstate(s, j) /\ j.logs = s.logs
        /\ j.journal = Append(s.journal, [delta |-> d, before |-> View(s)])
    BY ZenonT(30), <1>1, JournalledFields
  <2>2. AccessAccount(s, a) = t
    BY <1>4, <2>1 DEF AccessAccount, SameSubstate
  <2> HIDE DEF j, d, x
  <2>3. /\ t \in IntraBlockStateType /\ SameAccounts(j, t) /\ t.logs = j.logs /\ t.journal = j.journal
        /\ t.accessed_addresses = x
        /\ t.self_destructs = j.self_destructs
        /\ t.touched = j.touched
        /\ t.accessed_storage_keys = j.accessed_storage_keys
    BY ZenonT(30), <1>2, <2>1, SubstateFields
  <2> HIDE DEF t
  <2>4. s.accessed_addresses = t.accessed_addresses \ {a}
    BY <1>4, <2>3 DEF x
  <2>5. SameAccounts(s, t)
    BY ZenonT(30), <2>1, <2>3 DEF SameAccounts
  <2>6. Extends(s, t)
    BY ZenonT(30), <1>1, <2>1, <2>3, <2>4, <2>5, SubstateExtends DEF SameSubstate
  <2>7. QED BY <2>2, <2>6
<1>5. QED BY ZenonT(30), <1>3, <1>4

\* access_storage is undone by its StorageAccessDelta.
LEMMA AccessStorageExtends ==
    ASSUME NEW s, NEW a \in Address, NEW k \in Key, Good(s)
    PROVE  Extends(s, AccessStorage(s, a, k))
\* Assigning accessed_storage_keys_ leaves all else alone.
<1>StorageKeysFields. ASSUME NEW s0 \in IntraBlockStateType, NEW y \in SUBSET (Address \X Key)
                      PROVE  LET t == [s0 EXCEPT !.accessed_storage_keys = y]
                             IN /\ t \in IntraBlockStateType /\ SameAccounts(s0, t)
                                /\ t.logs = s0.logs /\ t.journal = s0.journal /\ t.accessed_storage_keys = y
                                /\ t.self_destructs = s0.self_destructs /\ t.touched = s0.touched
                                /\ t.accessed_addresses = s0.accessed_addresses
  BY ZenonT(30) DEF IntraBlockStateType, SameAccounts
<1> DEFINE d == StorageAccessDelta(a, k)
           x == s.accessed_storage_keys \cup {<<a, k>>}
<1>1. s \in IntraBlockStateType /\ d \in Delta /\ d.type = "StorageAccess" /\ d.address = a /\ d.key = k
  BY ZenonT(30) DEF Good, StorageAccessDelta, Delta
<1>2. x \in SUBSET (Address \X Key)
  BY <1>1 DEF IntraBlockStateType
<1>3. CASE <<a, k>> \in s.accessed_storage_keys
  <2>1. AccessStorage(s, a, k) = s
    BY <1>3 DEF AccessStorage
  <2>2. QED BY ZenonT(30), <1>1, <2>1, QuietExtends
<1>4. CASE <<a, k>> \notin s.accessed_storage_keys
  <2> DEFINE j == Journalled(s, d)
             t == [j EXCEPT !.accessed_storage_keys = x]
  <2>1. /\ j \in IntraBlockStateType /\ SameAccounts(s, j) /\ SameSubstate(s, j) /\ j.logs = s.logs
        /\ j.journal = Append(s.journal, [delta |-> d, before |-> View(s)])
    BY ZenonT(30), <1>1, JournalledFields
  <2>2. AccessStorage(s, a, k) = t
    BY <1>4, <2>1 DEF AccessStorage, SameSubstate
  <2> HIDE DEF j, d, x
  <2>3. /\ t \in IntraBlockStateType /\ SameAccounts(j, t) /\ t.logs = j.logs /\ t.journal = j.journal
        /\ t.accessed_storage_keys = x
        /\ t.self_destructs = j.self_destructs
        /\ t.touched = j.touched
        /\ t.accessed_addresses = j.accessed_addresses
    BY ZenonT(30), <1>2, <2>1, <1>StorageKeysFields
  <2> HIDE DEF t
  <2>4. s.accessed_storage_keys = t.accessed_storage_keys \ {<<a, k>>}
    BY ZenonT(30), <1>4, <2>3 DEF x
  <2>5. SameAccounts(s, t)
    BY ZenonT(30), <2>1, <2>3 DEF SameAccounts
  <2>6. Extends(s, t)
    BY ZenonT(30), <1>1, <2>1, <2>3, <2>4, <2>5, SubstateExtends DEF SameSubstate
  <2>7. QED BY <2>2, <2>6
<1>5. QED BY ZenonT(30), <1>3, <1>4

-----------------------------------------------------------------------------
\* get_balance returns a word of the width of balances.
LEMMA BalanceType ==
    ASSUME NEW s \in IntraBlockStateType, NEW a \in Address
    PROVE  Balance(s, a) \in Uint
<1>1. ObjectOf(s, a) \in Object \cup {None}
  BY ObjectOfType
<1>2. 0 \in Uint
  BY WidthAssumption DEF Uint
<1>3. CASE Alive(ObjectOf(s, a))
  <2>1. ObjectOf(s, a).current \in Account
    BY <1>1, <1>3 DEF Alive, Object
  <2>2. QED BY <1>3, <2>1 DEF Balance, Exists, Account
<1>4. QED BY ZenonT(30), <1>2, <1>3 DEF Balance, Exists

\* set_balance is journalled: creation, update and touch can be undone.
LEMMA SetBalanceExtends ==
    ASSUME NEW s, NEW a \in Address, NEW balance \in Uint, Good(s)
    PROVE  Extends(s, SetBalance(s, a, balance))
<1> DEFINE t == GetOrCreateObject(s, a)
           account == [t.objects[a].current EXCEPT !.balance = balance]
           u == SetCurrent(t, a, account)
<1>1. /\ Extends(s, t) /\ Good(t) /\ t.objects[a] \in Object /\ t.objects[a].current \in Account
  BY ZenonT(30), GetOrCreateExtends DEF Extends
<1> HIDE DEF t
<1>2. account \in Account /\ account.incarnation = t.objects[a].current.incarnation
  BY <1>1 DEF Account
<1> HIDE DEF account
<1>3. Extends(t, u) /\ Good(u)
  BY ZenonT(30), <1>1, <1>2, UpdateAccountExtends DEF Extends
<1> HIDE DEF u
<1>4. Extends(u, Touch(u, a))
  BY <1>3, TouchExtends
<1>5. Extends(s, Touch(u, a))
  BY <1>1, <1>3, <1>4, ExtendsTransitive
<1>6. QED BY <1>5 DEF SetBalance, u, account, t

\* set_nonce is journalled.
LEMMA SetNonceExtends ==
    ASSUME NEW s, NEW a \in Address, NEW nonce \in Nat, Good(s)
    PROVE  Extends(s, SetNonce(s, a, nonce))
<1> DEFINE t == GetOrCreateObject(s, a)
           account == [t.objects[a].current EXCEPT !.nonce = nonce]
<1>1. /\ Extends(s, t) /\ Good(t) /\ t.objects[a] \in Object /\ t.objects[a].current \in Account
  BY ZenonT(30), GetOrCreateExtends DEF Extends
<1> HIDE DEF t
<1>2. account \in Account /\ account.incarnation = t.objects[a].current.incarnation
  BY <1>1 DEF Account
<1> HIDE DEF account
<1>3. Extends(t, SetCurrent(t, a, account))
  BY ZenonT(30), <1>1, <1>2, UpdateAccountExtends
<1>4. Extends(s, SetCurrent(t, a, account))
  BY ZenonT(30), <1>1, <1>3, ExtendsTransitive
<1>5. QED BY <1>4 DEF SetNonce, account, t

\* A new entry of code_ is not observable: readers go through the code hash.
LEMMA CodeQuiet ==
    ASSUME NEW s, NEW codes \in SUBSET Code, Good(s)
    PROVE  Extends(s, [s EXCEPT !.code = codes])
<1> DEFINE t == [s EXCEPT !.code = codes]
<1>1. /\ t \in IntraBlockStateType /\ SameAccounts(s, t) /\ SameSubstate(s, t)
      /\ t.logs = s.logs /\ t.journal = s.journal
  BY ZenonT(30) DEF Good, IntraBlockStateType, SameAccounts, SameSubstate
<1> HIDE DEF t
<1>2. View(t) = View(s)
  BY ZenonT(30), <1>1, ViewOfSubstate DEF View, SameSubstate
<1>3. Extends(s, t)
  BY <1>1, <1>2, QuietExtends DEF SameAccounts
<1>4. QED BY <1>3 DEF t

\* set_code is journalled; the code it adds to code_ stays there on revert.
LEMMA SetCodeExtends ==
    ASSUME NEW s, NEW a \in Address, NEW hash \in Code, Good(s)
    PROVE  Extends(s, SetCode(s, a, hash))
<1> DEFINE t == GetOrCreateObject(s, a)
           account == [t.objects[a].current EXCEPT !.code_hash = hash]
           u == SetCurrent(t, a, account)
           codes == u.code \cup {hash}
<1>1. /\ Extends(s, t) /\ Good(t) /\ t.objects[a] \in Object /\ t.objects[a].current \in Account
  BY ZenonT(30), GetOrCreateExtends DEF Extends
<1> HIDE DEF t
<1>2. account \in Account /\ account.incarnation = t.objects[a].current.incarnation
  BY <1>1 DEF Account
<1> HIDE DEF account
<1>3. Extends(t, u) /\ Good(u)
  BY ZenonT(30), <1>1, <1>2, UpdateAccountExtends DEF Extends
<1> HIDE DEF u
<1>4. codes \in SUBSET Code
  BY ZenonT(30), <1>3 DEF Good, IntraBlockStateType
<1> HIDE DEF codes
<1>5. Extends(u, [u EXCEPT !.code = codes])
  BY <1>3, <1>4, CodeQuiet
<1>6. Extends(s, [u EXCEPT !.code = codes])
  BY <1>1, <1>3, <1>5, ExtendsTransitive
<1>7. QED BY ZenonT(30), <1>6 DEF SetCode, codes, u, account, t

-----------------------------------------------------------------------------
(***************************************************************************)
(* Storage and create_contract.                                            *)
(***************************************************************************)
\* The entry that storage_[address] default-constructs is a Storage.
LEMMA EmptyStorageType == EmptyStorage \in Storage
BY DEF EmptyStorage, Storage

WithStorage(s, a, sto) == [s EXCEPT !.storage[a] = sto]

\* Replacing the entry of storage_ of one address leaves all else alone.
LEMMA SetStorageFields ==
    ASSUME NEW s \in IntraBlockStateType, NEW a \in Address, NEW sto \in Storage \cup {None}
    PROVE  LET t == WithStorage(s, a, sto)
           IN /\ t \in IntraBlockStateType
              /\ t.db = s.db /\ t.logs = s.logs /\ SameSubstate(s, t) /\ t.objects = s.objects
              /\ t.journal = s.journal /\ t.refund = s.refund
              /\ t.storage[a] = sto
              /\ \A b \in Address \ {a} : t.storage[b] = s.storage[b]
              /\ ObjectOf(t, a) = ObjectOf(s, a)
<1> DEFINE t == WithStorage(s, a, sto)
<1>1. t \in IntraBlockStateType
  BY ZenonT(30) DEF IntraBlockStateType, WithStorage
<1>2. /\ t.db = s.db /\ t.logs = s.logs /\ SameSubstate(s, t) /\ t.objects = s.objects
      /\ t.journal = s.journal /\ t.refund = s.refund
      /\ t.storage = [s.storage EXCEPT ![a] = sto]
  BY DEF IntraBlockStateType, SameSubstate, WithStorage
<1>3. /\ t.storage[a] = sto
      /\ \A b \in Address \ {a} : t.storage[b] = s.storage[b]
  BY ZenonT(30), <1>2 DEF IntraBlockStateType
<1> HIDE DEF t
<1>4. ObjectOf(t, a) = ObjectOf(s, a)
  BY ZenonT(30), <1>2 DEF ObjectOf
<1>5. QED BY ZenonT(30), <1>1, <1>2, <1>3, <1>4 DEF t

\* Caching a slot, or an empty entry of storage_, is not observable.
LEMMA StorageQuiet ==
    ASSUME NEW s, NEW a \in Address, NEW sto \in Storage, Good(s),
           Slots(s.db, ObjectOf(s, a), sto, a) = Slots(s.db, ObjectOf(s, a), s.storage[a], a)
    PROVE  Extends(s, WithStorage(s, a, sto))
<1> DEFINE t == WithStorage(s, a, sto)
<1>1. s \in IntraBlockStateType
  BY DEF Good
<1>2. /\ t \in IntraBlockStateType
      /\ t.db = s.db /\ t.logs = s.logs /\ SameSubstate(s, t) /\ t.objects = s.objects
      /\ t.journal = s.journal /\ t.storage[a] = sto
      /\ \A b \in Address \ {a} : t.storage[b] = s.storage[b]
      /\ ObjectOf(t, a) = ObjectOf(s, a)
  BY <1>1, SetStorageFields
<1> HIDE DEF t
<1>3. View(t) = WithAccount(View(s), a, ObjectOf(t, a), Slots(t.db, ObjectOf(t, a), t.storage[a], a))
  BY ZenonT(30), <1>1, <1>2, ViewLocal
<1>4. View(s).objects[a] = ObjectOf(s, a) /\ View(s).slots[a] = Slots(s.db, ObjectOf(s, a), s.storage[a], a)
  BY ZenonT(30) DEF View
<1>5. View(s) \in ViewType
  BY <1>1, ViewTypeOK
<1>6. View(s) = WithAccount(View(s), a, View(s).objects[a], View(s).slots[a])
  BY ZenonT(30), <1>5 DEF ViewType, WithAccount
<1>7. View(t) = View(s)
  BY ZenonT(30), <1>2, <1>3, <1>4, <1>6
<1>8. Extends(s, t)
  BY ZenonT(30), <1>2, <1>7, QuietExtends
<1>9. QED BY <1>8 DEF t

\* An absent entry of storage_ reads like an empty one.
LEMMA SlotsOfEmpty ==
    ASSUME NEW db, NEW obj, NEW a
    PROVE  Slots(db, obj, EmptyStorage, a) = Slots(db, obj, None, a)
<1>1. EmptyStorage # None
  BY EmptyStorageType, ValuesAssumption
<1>2. \A k \in Key : OriginalValue(db, obj, EmptyStorage, a, k) = OriginalValue(db, obj, None, a, k)
  BY ZenonT(30), <1>1 DEF OriginalValue, EmptyStorage
<1>3. \A k \in Key : CurrentValue(db, obj, EmptyStorage, a, k) = CurrentValue(db, obj, None, a, k)
  BY ZenonT(30), <1>1, <1>2 DEF CurrentValue, EmptyStorage
<1>4. QED BY ZenonT(30), <1>2, <1>3 DEF Slots

\* Caching the value a slot has in db changes no reading of any slot.
LEMMA SlotsOfCached ==
    ASSUME NEW db \in StateBuffer, NEW obj \in Object, NEW sto \in Storage,
           NEW a \in Address, NEW k \in Key,
           Alive(obj), SameIncarnation(obj), sto.committed[k] = None
    PROVE  LET val == OriginalValue(db, obj, sto, a, k)
               cached == [sto EXCEPT !.committed[k] = [initial |-> val, original |-> val]]
           IN /\ cached \in Storage
              /\ Slots(db, obj, cached, a) = Slots(db, obj, sto, a)
<1> DEFINE val == OriginalValue(db, obj, sto, a, k)
           entry == [initial |-> val, original |-> val]
           cached == [sto EXCEPT !.committed[k] = entry]
<1>1. val \in Value
  BY ZenonT(30), ValueType
<1>2. entry \in CommittedValue /\ entry.original = val
  BY ZenonT(30), <1>1 DEF CommittedValue
<1>3. val = db.storage[a][obj.current.incarnation][k]
  BY ZenonT(30) DEF OriginalValue
<1>4. entry # None /\ sto # None
  BY ZenonT(30), <1>2, ValuesAssumption
<1> HIDE DEF entry, val
<1>5. cached \in Storage /\ cached.current = sto.current
      /\ cached.committed = [sto.committed EXCEPT ![k] = entry]
  BY <1>2 DEF Storage
<1>6. cached.committed[k] = entry /\ \A l \in Key \ {k} : cached.committed[l] = sto.committed[l]
  BY <1>5 DEF Storage
<1>7. cached # None
  BY <1>5, ValuesAssumption
<1> HIDE DEF cached
<1>8. ASSUME NEW l \in Key
      PROVE  OriginalValue(db, obj, cached, a, l) = OriginalValue(db, obj, sto, a, l)
  <2>1. CASE l = k
    BY ZenonT(30), <1>2, <1>3, <1>4, <1>6, <1>7, <2>1 DEF OriginalValue
  <2>2. CASE l # k
    BY ZenonT(30), <1>4, <1>6, <1>7, <2>2 DEF OriginalValue
  <2>3. QED BY ZenonT(30), <2>1, <2>2
<1>9. \A l \in Key : CurrentValue(db, obj, cached, a, l) = CurrentValue(db, obj, sto, a, l)
  BY ZenonT(30), <1>4, <1>5, <1>7, <1>8 DEF CurrentValue
<1>10. Slots(db, obj, cached, a) = Slots(db, obj, sto, a)
  BY ZenonT(30), <1>8, <1>9 DEF Slots
<1>11. QED BY <1>5, <1>10 DEF cached, entry, val

\* get_storage caches only, and leaves an entry of storage_ for an account
\* that exists.
LEMMA GetStorageExtends ==
    ASSUME NEW s, NEW a \in Address, NEW k \in Key, NEW original \in BOOLEAN, Good(s)
    PROVE  LET t == GetStorage(s, a, k, original)
           IN /\ Extends(s, t)
              /\ t.objects[a] = ObjectOf(s, a)
              /\ Alive(ObjectOf(s, a)) => t.storage[a] \in Storage
<1> DEFINE t == GetObject(s, a)
           obj == t.objects[a]
           sto == IF t.storage[a] = None THEN EmptyStorage ELSE t.storage[a]
           val == OriginalValue(s.db, obj, sto, a, k)
           cached == [sto EXCEPT !.committed[k] = [initial |-> val, original |-> val]]
           r == GetStorage(s, a, k, original)
<1>1. /\ Extends(s, t) /\ Good(t) /\ t \in IntraBlockStateType /\ t.db = s.db
      /\ obj = ObjectOf(s, a) /\ ObjectOf(t, a) = obj
      /\ obj \in Object \cup {None} /\ t.db \in StateBuffer /\ s.db \in StateBuffer
      /\ t.storage[a] \in Storage \cup {None}
  <2>1. Extends(s, t) /\ Good(t) /\ t.db = s.db /\ s \in IntraBlockStateType /\ t \in IntraBlockStateType
    BY ZenonT(30), GetObjectQuiet DEF Extends, Good
  <2>2. obj = ObjectOf(s, a) /\ ObjectOf(t, a) = obj
    BY ZenonT(30), GetObjectQuiet
  <2>3. obj \in Object \cup {None}
    BY <2>1, <2>2, ObjectOfType
  <2> HIDE DEF t
  <2>4. t.db \in StateBuffer /\ s.db \in StateBuffer /\ t.storage[a] \in Storage \cup {None}
    BY SMTT(60), <2>1 DEF IntraBlockStateType
  <2>5. QED BY ZenonT(30), <2>1, <2>2, <2>3, <2>4
<1>2. \/ r = t /\ ~Alive(obj)
      \/ r = WithStorage(t, a, sto) /\ Alive(obj)
      \/ /\ r = WithStorage(t, a, cached) /\ Alive(obj)
         /\ SameIncarnation(obj) /\ sto.committed[k] = None
  BY ZenonT(30) DEF GetStorage, WithStorage
<1> HIDE DEF t, obj, r
<1>3. sto \in Storage /\ Slots(t.db, obj, sto, a) = Slots(t.db, obj, t.storage[a], a)
  BY ZenonT(30), <1>1, EmptyStorageType, SlotsOfEmpty
<1> HIDE DEF sto
<1>4. CASE r = t /\ ~Alive(obj)
  BY ZenonT(30), <1>1, <1>4 DEF obj, r
<1>5. CASE r = WithStorage(t, a, sto) /\ Alive(obj)
  <2>1. Extends(t, r)
    BY ZenonT(30), <1>1, <1>3, <1>5, StorageQuiet
  <2>2. r.storage[a] = sto /\ r.objects = t.objects
    BY <1>1, <1>3, <1>5, SetStorageFields
  <2>3. Extends(s, r)
    BY ZenonT(30), <1>1, <2>1, ExtendsTransitive
  <2>4. QED BY ZenonT(30), <1>1, <1>3, <2>2, <2>3 DEF obj, r
<1>6. CASE /\ r = WithStorage(t, a, cached) /\ Alive(obj)
           /\ SameIncarnation(obj) /\ sto.committed[k] = None
  <2>1. obj \in Object
    BY <1>1, <1>6 DEF Alive
  <2>2. cached \in Storage /\ Slots(t.db, obj, cached, a) = Slots(t.db, obj, sto, a)
    BY <1>1, <1>3, <1>6, <2>1, SlotsOfCached
  <2> HIDE DEF cached
  <2>3. Extends(t, r)
    BY ZenonT(30), <1>1, <1>3, <1>6, <2>2, StorageQuiet
  <2>4. r.storage[a] = cached /\ r.objects = t.objects
    BY <1>1, <1>6, <2>2, SetStorageFields
  <2>5. Extends(s, r)
    BY ZenonT(30), <1>1, <2>3, ExtendsTransitive
  <2>6. QED BY ZenonT(30), <1>1, <2>2, <2>4, <2>5 DEF obj, r
<1>7. QED BY <1>2, <1>4, <1>5, <1>6

Written(sto, k, value) == [sto EXCEPT !.current[k] = value]
WithSlot(slots, k, value) == [slots EXCEPT ![k].current = value]

\* The slots before a write are those after it with the old value put back.
LEMMA SlotsOfWrite ==
    ASSUME NEW db \in StateBuffer, NEW obj \in Object, NEW sto \in Storage,
           NEW a \in Address, NEW k \in Key, NEW value \in Value, Alive(obj)
    PROVE  /\ Written(sto, k, value) \in Storage
           /\ Slots(db, obj, Written(sto, k, value), a) = WithSlot(Slots(db, obj, sto, a), k, value)
           /\ Slots(db, obj, sto, a) = WithSlot(Slots(db, obj, Written(sto, k, value), a), k,
                                                CurrentValue(db, obj, sto, a, k))
<1> DEFINE written == Written(sto, k, value)
           before == Slots(db, obj, sto, a)
           after == Slots(db, obj, written, a)
<1>1. /\ written \in Storage /\ written.committed = sto.committed
      /\ written.current = [sto.current EXCEPT ![k] = value]
  BY DEF Storage, Written
<1>2. written.current[k] = value /\ \A l \in Key \ {k} : written.current[l] = sto.current[l]
  BY ZenonT(30), <1>1 DEF Storage
<1>3. written # None /\ sto # None /\ value # None
  BY ZenonT(30), <1>1, ValuesAssumption
<1> HIDE DEF written
<1>4. \A l \in Key : OriginalValue(db, obj, written, a, l) = OriginalValue(db, obj, sto, a, l)
  BY ZenonT(30), <1>1, <1>3 DEF OriginalValue
<1>5. \A l \in Key \ {k} : CurrentValue(db, obj, written, a, l) = CurrentValue(db, obj, sto, a, l)
  BY ZenonT(30), <1>2, <1>3, <1>4 DEF CurrentValue
<1>6. CurrentValue(db, obj, written, a, k) = value
  BY ZenonT(30), <1>2, <1>3 DEF CurrentValue
<1>7. after = WithSlot(before, k, value)
  BY ZenonT(30), <1>4, <1>5, <1>6 DEF Slots, WithSlot
<1>8. before = WithSlot(after, k, CurrentValue(db, obj, sto, a, k))
  BY ZenonT(30), <1>4, <1>5, <1>6 DEF Slots, WithSlot
<1>9. QED BY ZenonT(30), <1>1, <1>7, <1>8 DEF written

\* set_storage is undone by its StorageChangeDelta, whatever was cached.
LEMMA SetStorageExtends ==
    ASSUME NEW s, NEW a \in Address, NEW k \in Key, NEW value \in Value, Good(s),
           Alive(ObjectOf(s, a))
    PROVE  Extends(s, SetStorage(s, a, k, value))
<1> DEFINE t == GetStorage(s, a, k, FALSE)
           obj == t.objects[a]
           sto == t.storage[a]
           prev == CurrentValue(s.db, obj, sto, a, k)
           d == StorageChangeDelta(a, k, prev)
           j == Journalled(t, d)
           written == Written(sto, k, value)
           u == WithStorage(j, a, written)
<1>1. Extends(s, t) /\ Good(t) /\ t \in IntraBlockStateType /\ t.db = s.db
  BY ZenonT(30), GetStorageExtends DEF Extends, Good
<1>2. obj = ObjectOf(s, a) /\ sto \in Storage
  BY ZenonT(30), GetStorageExtends
<1>3. obj \in Object /\ Alive(obj) /\ ObjectOf(t, a) = obj
  <2>1. obj \in Object
    BY ZenonT(30), <1>2, ObjectOfType DEF Good, Alive
  <2>2. QED BY ZenonT(30), <1>2, <2>1, ValuesAssumption DEF ObjectOf
<1> HIDE DEF t
<1>4. s.db \in StateBuffer
  BY ZenonT(30) DEF Good, IntraBlockStateType
<1>5. prev \in Value
  BY ZenonT(30), <1>2, <1>3, <1>4, ValueType
<1>6. CASE prev = value
  <2>1. SetStorage(s, a, k, value) = t
    BY <1>6 DEF SetStorage, t
  <2>2. QED BY ZenonT(30), <1>1, <2>1
<1>7. CASE prev # value
  <2>1. d \in Delta /\ d.type = "StorageChange" /\ d.address = a /\ d.key = k /\ d.previous = prev
    BY SMTT(60), <1>5 DEF StorageChangeDelta, Delta
  <2>2. /\ j \in IntraBlockStateType /\ SameAccounts(t, j) /\ SameSubstate(t, j) /\ j.logs = t.logs
        /\ j.journal = Append(t.journal, [delta |-> d, before |-> View(t)])
    BY ZenonT(30), <1>1, <2>1, JournalledFields
  <2>3. SetStorage(s, a, k, value) = u
    <3>1. SetStorage(s, a, k, value) = [j EXCEPT !.storage[a].current[k] = value]
      BY SMTT(60), <1>7 DEF SetStorage, t
    <3>2. j.storage[a] = sto
      BY ZenonT(30), <2>2 DEF SameAccounts
    <3> HIDE DEF j, sto
    <3>3. QED BY <3>1, <3>2 DEF Written, WithStorage
  <2>4. /\ written \in Storage
        /\ Slots(s.db, obj, sto, a) = WithSlot(Slots(s.db, obj, written, a), k, prev)
    BY SMTT(60), <1>2, <1>3, <1>4, SlotsOfWrite
  <2> HIDE DEF j, written, d, prev
  <2>5. /\ u \in IntraBlockStateType
        /\ u.db = j.db /\ u.logs = j.logs /\ SameSubstate(j, u) /\ u.objects = j.objects
        /\ u.journal = j.journal /\ u.storage[a] = written
        /\ \A b \in Address \ {a} : u.storage[b] = j.storage[b]
        /\ ObjectOf(u, a) = ObjectOf(j, a)
    BY SMTT(60), <2>2, <2>4, SetStorageFields
  <2> HIDE DEF u
  <2>6. /\ t.db = u.db /\ SameSubstate(u, t)
        /\ \A b \in Address \ {a} : t.objects[b] = u.objects[b] /\ t.storage[b] = u.storage[b]
    BY SMTT(60), <2>2, <2>5 DEF SameAccounts, SameSubstate
  <2>7. ObjectOf(u, a) = obj
    BY SMTT(60), <1>3, <2>2, <2>5 DEF SameAccounts, ObjectOf
  <2>8. View(t) = WithAccount(View(u), a, ObjectOf(t, a), Slots(t.db, ObjectOf(t, a), t.storage[a], a))
    BY SMTT(60), <1>1, <2>5, <2>6, ViewLocal
  <2>9. View(u).objects[a] = obj /\ View(u).slots[a] = Slots(s.db, obj, written, a)
    BY ZenonT(30), <1>1, <2>5, <2>6, <2>7 DEF View
  <2>10. View(t) = WithAccount(View(u), a, View(u).objects[a],
                               [View(u).slots[a] EXCEPT ![k].current = prev])
    BY ZenonT(30), <1>1, <1>3, <2>4, <2>8, <2>9 DEF WithSlot
  <2>11. Link(t.db, d, View(t), View(u), None)
    BY SMTT(60), <1>3, <2>1, <2>9, <2>10 DEF Link, IsStorageDelta
  <2>12. Extends(t, u)
    BY ZenonT(30), <1>1, <2>1, <2>2, <2>5, <2>11, AppendExtends DEF SameAccounts
  <2>13. QED BY SMTT(60), <1>1, <2>3, <2>12, ExtendsTransitive
<1>8. QED BY ZenonT(30), <1>6, <1>7

-----------------------------------------------------------------------------
\* create_contract finds an incarnation to continue from.
LEMMA PrevIncarnationType ==
    ASSUME NEW s \in IntraBlockStateType, NEW a \in Address
    PROVE  PrevIncarnation(s, a) \in Incarnation
<1>1. ObjectOf(s, a) \in Object \cup {None}
  BY ObjectOfType
<1>2. s.db.incarnations[a] \in Incarnation
  BY ZenonT(30) DEF IntraBlockStateType, StateBuffer
<1>3. 0 \in Incarnation
  BY WidthAssumption DEF Incarnation
<1>4. QED BY ZenonT(30), <1>1, <1>2, <1>3 DEF PrevIncarnation, Object, Account

\* Two entries appended by one operation, the first of which is undone
\* together with the second.
LEMMA AppendTwoExtends ==
    ASSUME NEW s, NEW t \in IntraBlockStateType, NEW d \in Delta, NEW e \in Delta, Good(s),
           NEW between \in ViewType,
           t.db = s.db, t.logs = s.logs,
           t.journal = Append(Append(s.journal, [delta |-> d, before |-> View(s)]),
                              [delta |-> e, before |-> between]),
           Link(s.db, d, View(s), between, e),
           Link(s.db, e, between, View(t), None)
    PROVE  Extends(s, t)
<1> DEFINE n == Len(s.journal)
           x == [delta |-> d, before |-> View(s)]
           y == [delta |-> e, before |-> between]
<1>0. s.journal \in Seq(Entry) /\ s \in IntraBlockStateType
  BY ZenonT(30) DEF Good, IntraBlockStateType, Entry
<1>1. n \in Nat
  BY <1>0
<1>a. x \in Entry /\ y \in Entry
  BY ZenonT(30), <1>0, ViewTypeOK DEF Entry
<1>2. x.delta = d /\ x.before = View(s) /\ y.delta = e /\ y.before = between
  BY ZenonT(30)
<1> HIDE DEF x, y
<1>3. /\ Len(t.journal) = n + 2
      /\ \A j \in 1 .. n : t.journal[j] = s.journal[j]
      /\ t.journal[n + 1] = x
      /\ t.journal[n + 2] = y
  BY <1>0, <1>1, <1>a DEF x, y
<1> HIDE DEF n
<1>4. \A j \in 0 .. n : ViewAt(t, j) = ViewAt(s, j)
  BY <1>1, <1>2, <1>3 DEF ViewAt, n
<1>5. ViewAt(t, n) = View(s) /\ ViewAt(t, n + 1) = between /\ ViewAt(t, n + 2) = View(t)
  BY <1>1, <1>2, <1>3 DEF ViewAt
<1>6. NextDelta(t, n + 1) = e /\ NextDelta(t, n + 2) = None
  BY <1>1, <1>2, <1>3 DEF NextDelta
<1>7. ASSUME NEW j \in 1 .. n + 2
      PROVE  Link(t.db, t.journal[j].delta, ViewAt(t, j - 1), ViewAt(t, j), NextDelta(t, j))
  <2>1. CASE j = n + 2
    <3>1. j - 1 = n + 1 /\ t.journal[j].delta = e
      BY <1>1, <1>2, <1>3, <2>1
    <3>2. QED BY ZenonT(30), <1>5, <1>6, <2>1, <3>1
  <2>2. CASE j = n + 1
    <3>1. j - 1 = n /\ t.journal[j].delta = d
      BY <1>1, <1>2, <1>3, <2>2
    <3>2. QED BY ZenonT(30), <1>5, <1>6, <2>2, <3>1
  <2>3. CASE j < n + 1
    <3>1. j \in 1 .. n /\ j - 1 \in 0 .. n /\ j \in 0 .. n
      BY <1>1, <2>3
    <3>2. Link(t.db, t.journal[j].delta, ViewAt(t, j - 1), ViewAt(t, j), NextDelta(s, j))
      BY ZenonT(30), <3>1, <1>3, <1>4 DEF Good, Linked, n
    <3>3. CASE j < n
      <4>1. NextDelta(t, j) = NextDelta(s, j)
        BY <1>1, <1>3, <3>1, <3>3 DEF NextDelta, n
      <4>2. QED BY ZenonT(30), <4>1, <3>2
    <3>4. CASE j = n
      <4>1. NextDelta(s, j) = None
        BY <1>1, <3>4 DEF NextDelta, n
      <4>2. QED BY ZenonT(30), <4>1, <3>2, LinkWithoutNext
    <3>5. j < n \/ j = n
      BY <1>1, <3>1
    <3>6. QED BY ZenonT(30), <3>3, <3>4, <3>5
  <2>4. j = n + 2 \/ j = n + 1 \/ j < n + 1
    BY <1>1
  <2>5. QED BY ZenonT(30), <2>1, <2>2, <2>3, <2>4
<1>8. Linked(t, Len(t.journal))
  BY ZenonT(30), <1>3, <1>7 DEF Linked
<1>9. QED BY <1>1, <1>3, <1>4, <1>8 DEF Extends, Good, n

\* create_contract is undone by its two entries: the object's and then the
\* storage's, which together restore the slots.
LEMMA CreateContractExtends ==
    ASSUME NEW s, NEW a \in Address, Good(s), PrevIncarnation(s, a) < MaxIncarnation
    PROVE  Extends(s, CreateContract(s, a))
<1> DEFINE prev == ObjectOf(s, a)
           account == [EmptyAccount EXCEPT !.balance = Balance(s, a),
                                           !.incarnation = PrevIncarnation(s, a) + 1]
           created == [initial |-> IF prev = None THEN None ELSE prev.initial, current |-> account]
           g == GetObject(s, a)
           d == IF prev = None THEN CreateDelta(a) ELSE UpdateDelta(a, prev)
           t == WithObject(g, d, a, created)
           e == IF t.storage[a] = None THEN StorageCreateDelta(a) ELSE StorageWipeDelta(a, t.storage[a])
           u == Journalled(t, e)
           w == WithStorage(u, a, None)
<1>1. CreateContract(s, a) = w
  BY DEF CreateContract, WithObject, WithStorage
<1>2. Extends(s, g) /\ Good(g) /\ g \in IntraBlockStateType /\ s \in IntraBlockStateType /\ g.db = s.db
  BY ZenonT(30), GetObjectQuiet DEF Extends, Good
<1>3. g.objects[a] = prev /\ ObjectOf(g, a) = prev /\ prev \in Object \cup {None}
  BY ZenonT(30), <1>2, GetObjectQuiet, ObjectOfType
<1> HIDE DEF g
<1>4. account \in Account
  <2>1. Balance(s, a) \in Uint /\ PrevIncarnation(s, a) + 1 \in Incarnation
    BY <1>2, BalanceType, PrevIncarnationType, WidthAssumption DEF Incarnation
  <2>2. QED BY ZenonT(30), <2>1, EmptyAccountType DEF Account
<1> HIDE DEF account
<1>5. created \in Object /\ created # None
  BY <1>3, <1>4, ValuesAssumption DEF Object
<1>6. /\ d \in Delta /\ d.address = a
      /\ prev = None => d.type = "Create"
      /\ prev # None => d.type = "Update" /\ d.previous = prev
  BY ZenonT(30), <1>3 DEF CreateDelta, UpdateDelta, Delta
<1> HIDE DEF created, d, prev
<1>7. /\ t \in IntraBlockStateType
      /\ t.db = g.db /\ t.logs = g.logs /\ SameSubstate(g, t) /\ t.storage = g.storage
      /\ t.journal = Append(g.journal, [delta |-> d, before |-> View(g)])
      /\ t.objects[a] = created
      /\ \A b \in Address \ {a} : t.objects[b] = g.objects[b]
  BY <1>2, <1>5, <1>6, SetObjectFields
<1> HIDE DEF t
<1>8. t.storage[a] \in Storage \cup {None}
  BY ZenonT(30), <1>7 DEF IntraBlockStateType
<1>9. e \in Delta /\ e.address = a /\ IsStorageDelta(e) /\ WipedStorage(e) = t.storage[a]
  BY ZenonT(30), <1>8 DEF StorageCreateDelta, StorageWipeDelta, Delta, IsStorageDelta, WipedStorage
<1> HIDE DEF e
<1>10. /\ u \in IntraBlockStateType /\ SameAccounts(t, u) /\ SameSubstate(t, u) /\ u.logs = t.logs
       /\ u.journal = Append(t.journal, [delta |-> e, before |-> View(t)])
  BY SMTT(60), <1>7, <1>9, JournalledFields
<1> HIDE DEF u
<1>11. /\ w \in IntraBlockStateType
       /\ w.db = u.db /\ w.logs = u.logs /\ SameSubstate(u, w) /\ w.objects = u.objects
       /\ w.journal = u.journal /\ w.storage[a] = None
       /\ \A b \in Address \ {a} : w.storage[b] = u.storage[b]
  <2>1. None \in Storage \cup {None}
    OBVIOUS
  <2>2. QED BY <1>10, <2>1, SetStorageFields
<1> HIDE DEF w
<1>12. ObjectOf(t, a) = created /\ ObjectOf(w, a) = created
  BY ZenonT(30), <1>5, <1>7, <1>10, <1>11 DEF ObjectOf, SameAccounts
<1>13. View(w).objects[a] = created /\ View(t).objects[a] = created
  BY SMTT(60), <1>12 DEF View
<1>14. Link(g.db, e, View(t), View(w), None)
  <2>1. /\ t.db = w.db /\ SameSubstate(w, t)
        /\ \A b \in Address \ {a} : t.objects[b] = w.objects[b] /\ t.storage[b] = w.storage[b]
    BY ZenonT(30), <1>10, <1>11 DEF SameAccounts, SameSubstate
  <2>2. View(t) = WithAccount(View(w), a, ObjectOf(t, a), Slots(t.db, ObjectOf(t, a), t.storage[a], a))
    BY ZenonT(30), <1>7, <1>11, <2>1, ViewLocal
  <2>3. View(t) = WithAccount(View(w), a, View(w).objects[a],
                              Slots(g.db, View(w).objects[a], WipedStorage(e), a))
    BY ZenonT(30), <1>7, <1>9, <1>12, <1>13, <2>2
  <2>4. QED BY ZenonT(30), <1>9, <2>3 DEF Link, IsStorageDelta
<1>15. Link(g.db, d, View(g), View(t), e)
  <2>1. /\ g.db = t.db /\ SameSubstate(t, g)
        /\ \A b \in Address \ {a} : g.objects[b] = t.objects[b] /\ g.storage[b] = t.storage[b]
    BY ZenonT(30), <1>7 DEF SameSubstate
  <2>2. View(g) = WithAccount(View(t), a, prev, Slots(g.db, prev, t.storage[a], a))
    BY SMTT(60), <1>2, <1>3, <1>7, <2>1, ViewLocal
  <2>3. View(g).slots[a] = Slots(g.db, prev, t.storage[a], a)
    BY ZenonT(30), <1>3, <1>7 DEF View
  <2>4. CASE prev = None
    <3>1. g.db.accounts[a] = None
      <4>1. CASE g.db.accounts[a] # None
        <5>1. g.db.accounts[a] \in Account
          BY ZenonT(30), <1>2, <4>1 DEF IntraBlockStateType, StateBuffer
        <5>2. ObjectOf(g, a) \in Object
          BY ZenonT(30), <1>3, <2>4, <4>1, <5>1 DEF ObjectOf, Object
        <5>3. QED BY ZenonT(30), <1>3, <2>4, <5>2, ValuesAssumption
      <4>2. QED BY ZenonT(30), <4>1
    <3>2. Slots(g.db, None, t.storage[a], a) = NoSlots
      BY ZenonT(30), NoSlotsOfDead DEF Alive
    <3>3. QED BY ZenonT(30), <1>6, <2>2, <2>4, <3>1, <3>2 DEF Link, IsStorageDelta
  <2>5. CASE prev # None
    <3>1. e # None
      BY ZenonT(30), <1>9, ValuesAssumption
    <3>2. QED BY ZenonT(30), <1>6, <1>9, <2>2, <2>3, <2>5, <3>1 DEF Link, IsStorageDelta
  <2>6. QED BY ZenonT(30), <2>4, <2>5
<1>16. View(t) \in ViewType
  BY ZenonT(30), <1>7, ViewTypeOK
<1>17. Extends(g, w)
  BY SMTT(60), <1>2, <1>6, <1>7, <1>9, <1>10, <1>11, <1>14, <1>15, <1>16, AppendTwoExtends DEF SameAccounts
<1>18. QED BY ZenonT(30), <1>1, <1>2, <1>17, ExtendsTransitive

-----------------------------------------------------------------------------
\* Replacing the object, or the storage, of one address.
ReplaceObject(s, a, o) == [s EXCEPT !.objects[a] = o]

-----------------------------------------------------------------------------
(***************************************************************************)
(* Reverting.                                                              *)
(***************************************************************************)
\* Undoing one entry of the journal.  next is the entry undone just before.
LEMMA RevertUndoes ==
    ASSUME NEW s \in IntraBlockStateType, NEW d \in Delta, NEW before \in ViewType,
           NEW next \in Delta \cup {None},
           Link(s.db, d, before, View(s), next),
           next # None /\ IsStorageDelta(next) => s.storage[next.address] = WipedStorage(next)
    PROVE  LET t == Revert(s, d)
           IN /\ t \in IntraBlockStateType
              /\ t.db = s.db /\ t.logs = s.logs /\ t.journal = s.journal /\ t.refund = s.refund
              /\ View(t) = before
              /\ IsStorageDelta(d) => t.storage[d.address] = WipedStorage(d)
\* What is observed after the object of one address was replaced.
\* What is observed after the storage_ entry of one address was replaced.
<1>WithStorageView. ASSUME NEW s0 \in IntraBlockStateType, NEW a \in Address, NEW sto \in Storage \cup {None}
                    PROVE  LET t == WithStorage(s0, a, sto)
                           IN /\ t \in IntraBlockStateType
                              /\ t.db = s0.db /\ t.logs = s0.logs /\ t.journal = s0.journal /\ t.refund = s0.refund
                              /\ t.storage[a] = sto
                              /\ View(t) = WithAccount(View(s0), a, ObjectOf(s0, a),
                                                       Slots(s0.db, ObjectOf(s0, a), sto, a))
  <2> DEFINE t == WithStorage(s0, a, sto)
  <2>1. /\ t \in IntraBlockStateType
        /\ t.db = s0.db /\ t.logs = s0.logs /\ SameSubstate(s0, t) /\ t.objects = s0.objects
        /\ t.journal = s0.journal /\ t.refund = s0.refund /\ t.storage[a] = sto
        /\ \A b \in Address \ {a} : t.storage[b] = s0.storage[b]
        /\ ObjectOf(t, a) = ObjectOf(s0, a)
    BY SetStorageFields
  <2> HIDE DEF t
  <2>2. View(t) = WithAccount(View(s0), a, ObjectOf(t, a), Slots(t.db, ObjectOf(t, a), t.storage[a], a))
    BY ZenonT(30), <2>1, ViewLocal
  <2>3. QED BY ZenonT(30), <2>1, <2>2 DEF t
<1>ReplaceObjectView. ASSUME NEW s0 \in IntraBlockStateType, NEW a \in Address, NEW o \in Object \cup {None}
                      PROVE  LET t == ReplaceObject(s0, a, o)
                             IN /\ t \in IntraBlockStateType
                                /\ t.db = s0.db /\ t.logs = s0.logs /\ t.journal = s0.journal /\ t.refund = s0.refund
                                /\ t.objects[a] = o
                                /\ View(t) = WithAccount(View(s0), a, ObjectOf(t, a),
                                                         Slots(s0.db, ObjectOf(t, a), s0.storage[a], a))
  <2> DEFINE t == ReplaceObject(s0, a, o)
  <2>1. t \in IntraBlockStateType
    BY ZenonT(30) DEF IntraBlockStateType, ReplaceObject
  <2>2. /\ t.db = s0.db /\ t.logs = s0.logs /\ SameSubstate(s0, t) /\ t.storage = s0.storage
        /\ t.journal = s0.journal /\ t.refund = s0.refund
        /\ t.objects = [s0.objects EXCEPT ![a] = o]
    BY DEF IntraBlockStateType, SameSubstate, ReplaceObject
  <2>3. /\ t.objects[a] = o
        /\ \A b \in Address \ {a} : t.objects[b] = s0.objects[b]
    BY ZenonT(30), <2>2 DEF IntraBlockStateType
  <2> HIDE DEF t
  <2>4. View(t) = WithAccount(View(s0), a, ObjectOf(t, a), Slots(t.db, ObjectOf(t, a), t.storage[a], a))
    BY ZenonT(30), <2>1, <2>2, <2>3, ViewLocal
  <2>5. QED BY ZenonT(30), <2>1, <2>2, <2>3, <2>4 DEF t
<1> DEFINE t == Revert(s, d)
           a == d.address
           v == View(s)
<1>1. a \in Address /\ d.type \in {"Create", "Update", "Suicide", "Touch", "StorageChange",
                                  "StorageWipe", "StorageCreate", "StorageAccess", "AccountAccess"}
  BY DEF Delta
<1>2. v \in ViewType /\ s.db \in StateBuffer /\ s.storage[a] \in Storage \cup {None}
  BY ZenonT(30), <1>1, ViewTypeOK DEF IntraBlockStateType
<1>3. /\ v.objects[a] = ObjectOf(s, a) /\ v.slots[a] = Slots(s.db, ObjectOf(s, a), s.storage[a], a)
      /\ v.self_destructs = s.self_destructs /\ v.touched = s.touched \ {Ripemd}
      /\ v.accessed_addresses = s.accessed_addresses
      /\ v.accessed_storage_keys = s.accessed_storage_keys
  BY <1>1 DEF View
<1> HIDE DEF a, v
<1>4. CASE d.type = "Create"
  <2>1. t = ReplaceObject(s, a, None)
    BY <1>4 DEF Revert, ReplaceObject, a
  <2>2. s.db.accounts[a] = None /\ before = WithAccount(v, a, None, NoSlots)
    BY <1>4 DEF Link, a, v
  <2>3. /\ t \in IntraBlockStateType
        /\ t.db = s.db /\ t.logs = s.logs /\ t.journal = s.journal /\ t.refund = s.refund
        /\ t.objects[a] = None
        /\ View(t) = WithAccount(v, a, ObjectOf(t, a), Slots(s.db, ObjectOf(t, a), s.storage[a], a))
    <3>1. None \in Object \cup {None}
      OBVIOUS
    <3>2. QED BY <1>1, <2>1, <3>1, <1>ReplaceObjectView DEF v
  <2> HIDE DEF t
  <2>4. ObjectOf(t, a) = None
    BY <2>2, <2>3 DEF ObjectOf
  <2>5. Slots(s.db, None, s.storage[a], a) = NoSlots
    BY NoSlotsOfDead DEF Alive
  <2>6. QED BY <1>4, <2>2, <2>3, <2>4, <2>5 DEF t, IsStorageDelta
<1>5. CASE d.type = "Update"
  <2> DEFINE o == d.previous
  <2>1. t = ReplaceObject(s, a, o)
    BY <1>5 DEF Revert, ReplaceObject, a
  <2>2. o \in Object /\ o # None
    BY <1>5, ValuesAssumption DEF Delta
  <2>3. /\ before = WithAccount(v, a, o, before.slots[a])
        /\ \/ ~Alive(o) /\ before.slots[a] = NoSlots
           \/ SameGeneration(o, v.objects[a]) /\ before.slots[a] = v.slots[a]
           \/ /\ next # None /\ IsStorageDelta(next) /\ next.address = a
              /\ before.slots[a] = Slots(s.db, o, WipedStorage(next), a)
    BY <1>5 DEF Link, a, v
  <2> HIDE DEF o
  <2>4. /\ t \in IntraBlockStateType
        /\ t.db = s.db /\ t.logs = s.logs /\ t.journal = s.journal /\ t.refund = s.refund
        /\ t.objects[a] = o
        /\ View(t) = WithAccount(v, a, ObjectOf(t, a), Slots(s.db, ObjectOf(t, a), s.storage[a], a))
    BY <1>1, <2>1, <2>2, <1>ReplaceObjectView DEF v
  <2> HIDE DEF t
  <2>5. ObjectOf(t, a) = o
    BY <2>2, <2>4 DEF ObjectOf
  <2>6. Slots(s.db, o, s.storage[a], a) = before.slots[a]
    <3>1. CASE ~Alive(o) /\ before.slots[a] = NoSlots
      BY <3>1, NoSlotsOfDead
    <3>2. CASE SameGeneration(o, v.objects[a]) /\ before.slots[a] = v.slots[a]
      BY <1>3, <3>2, SlotsOfGeneration
    <3>3. CASE /\ next # None /\ IsStorageDelta(next) /\ next.address = a
               /\ before.slots[a] = Slots(s.db, o, WipedStorage(next), a)
      BY <3>3
    <3>4. QED BY ZenonT(30), <2>3, <3>1, <3>2, <3>3
  <2>7. QED BY <1>5, <2>3, <2>4, <2>5, <2>6 DEF t, IsStorageDelta
<1>6. CASE IsStorageDelta(d)
  <2> DEFINE sto == WipedStorage(d)
  <2>1. sto \in Storage \cup {None}
    BY ZenonT(30), <1>6 DEF Delta, IsStorageDelta, WipedStorage
  <2>2. t = WithStorage(s, a, sto)
    BY SMTT(60), <1>6 DEF Revert, WithStorage, a, IsStorageDelta, WipedStorage
  <2>3. before = WithAccount(v, a, v.objects[a], Slots(s.db, v.objects[a], sto, a))
    BY ZenonT(30), <1>6 DEF Link, a, v
  <2> HIDE DEF sto
  <2>4. /\ t \in IntraBlockStateType
        /\ t.db = s.db /\ t.logs = s.logs /\ t.journal = s.journal /\ t.refund = s.refund
        /\ t.storage[a] = sto
        /\ View(t) = WithAccount(v, a, ObjectOf(s, a), Slots(s.db, ObjectOf(s, a), sto, a))
    BY <1>1, <2>1, <2>2, <1>WithStorageView DEF v
  <2>5. QED BY ZenonT(30), <1>3, <2>3, <2>4 DEF a, sto
<1>7. CASE d.type = "StorageChange"
  <2> DEFINE old == IF s.storage[a] = None THEN EmptyStorage ELSE s.storage[a]
             sto == Written(old, d.key, d.previous)
             obj == ObjectOf(s, a)
  <2>1. d.key \in Key /\ d.previous \in Value
    BY <1>7 DEF Delta
  <2>2. t = WithStorage(s, a, sto)
    BY <1>1, <1>7 DEF Revert, WithStorage, Written, a, IntraBlockStateType
  <2>3. /\ Alive(v.objects[a])
        /\ before = WithAccount(v, a, v.objects[a], WithSlot(v.slots[a], d.key, d.previous))
    BY ZenonT(30), <1>7 DEF Link, a, v, WithSlot
  <2>4. old \in Storage /\ Slots(s.db, obj, old, a) = Slots(s.db, obj, s.storage[a], a)
    BY <1>2, EmptyStorageType, SlotsOfEmpty
  <2>5. obj \in Object /\ Alive(obj)
    BY ZenonT(30), <1>1, <1>3, <2>3, ObjectOfType DEF Alive
  <2> HIDE DEF old, obj
  <2>6. sto \in Storage /\ Slots(s.db, obj, sto, a) = WithSlot(v.slots[a], d.key, d.previous)
    BY <1>1, <1>2, <1>3, <2>1, <2>4, <2>5, SlotsOfWrite DEF obj
  <2> HIDE DEF sto
  <2>7. /\ t \in IntraBlockStateType
        /\ t.db = s.db /\ t.logs = s.logs /\ t.journal = s.journal /\ t.refund = s.refund
        /\ View(t) = WithAccount(v, a, ObjectOf(s, a), Slots(s.db, ObjectOf(s, a), sto, a))
    BY SMTT(60), <1>1, <2>2, <2>6, <1>WithStorageView DEF v
  <2>8. QED BY ZenonT(30), <1>3, <1>7, <2>3, <2>6, <2>7 DEF obj, IsStorageDelta
<1>8. CASE d.type \in {"Suicide", "Touch", "AccountAccess", "StorageAccess"}
  <2>1. /\ t \in IntraBlockStateType /\ SameAccounts(s, t)
        /\ t.logs = s.logs /\ t.journal = s.journal /\ t.refund = s.refund
        /\ t.self_destructs = IF d.type = "Suicide" THEN s.self_destructs \ {a} ELSE s.self_destructs
        /\ t.touched = IF d.type = "Touch" THEN s.touched \ {a} ELSE s.touched
        /\ t.accessed_addresses = IF d.type = "AccountAccess" THEN s.accessed_addresses \ {a}
                                  ELSE s.accessed_addresses
        /\ t.accessed_storage_keys = IF d.type = "StorageAccess"
                                     THEN s.accessed_storage_keys \ {<<a, d.key>>}
                                     ELSE s.accessed_storage_keys
    BY ZenonT(30), <1>8 DEF Revert, a, IntraBlockStateType, SameAccounts
  <2> HIDE DEF t
  <2>2. View(t) = [objects |-> v.objects, slots |-> v.slots, self_destructs |-> t.self_destructs,
                   touched |-> t.touched \ {Ripemd}, accessed_addresses |-> t.accessed_addresses,
                   accessed_storage_keys |-> t.accessed_storage_keys]
    BY ZenonT(30), <2>1, ViewOfSubstate DEF v
  <2>3. CASE d.type = "Suicide"
    <3> DEFINE x == v.self_destructs \ {a}
    <3>1. before = [v EXCEPT !.self_destructs = x]
      BY <2>3 DEF Link, a, v
    <3>2. t.self_destructs = x
      BY ZenonT(30), <1>3, <2>1, <2>3
    <3> HIDE DEF x
    <3>3. View(t) = [objects |-> v.objects, slots |-> v.slots, self_destructs |-> x,
                     touched |-> v.touched, accessed_addresses |-> v.accessed_addresses,
                     accessed_storage_keys |-> v.accessed_storage_keys]
      BY ZenonT(30), <1>3, <2>1, <2>2, <2>3, <3>2
    <3>4. View(t) = before
      BY ZenonT(30), <1>2, <3>1, <3>3, SelfDestructsExcept
    <3>5. QED BY ZenonT(30), <2>1, <2>3, <3>4 DEF t, IsStorageDelta, SameAccounts
  <2>4. CASE d.type = "Touch"
    <3> DEFINE x == v.touched \ {a}
    <3>1. before = [v EXCEPT !.touched = x]
      BY ZenonT(30), <2>4 DEF Link, a, v
    <3>2. t.touched \ {Ripemd} = x
      BY ZenonT(30), <1>3, <2>1, <2>4
    <3> HIDE DEF x
    <3>3. View(t) = [objects |-> v.objects, slots |-> v.slots, self_destructs |-> v.self_destructs,
                     touched |-> x, accessed_addresses |-> v.accessed_addresses,
                     accessed_storage_keys |-> v.accessed_storage_keys]
      BY SMTT(60), <1>3, <2>1, <2>2, <2>4, <3>2
    <3>4. View(t) = before
      BY ZenonT(30), <1>2, <3>1, <3>3, TouchedExcept
    <3>5. QED BY ZenonT(30), <2>1, <2>4, <3>4 DEF t, IsStorageDelta, SameAccounts
  <2>5. CASE d.type = "AccountAccess"
    <3> DEFINE x == v.accessed_addresses \ {a}
    <3>1. before = [v EXCEPT !.accessed_addresses = x]
      BY ZenonT(30), <2>5 DEF Link, a, v
    <3>2. t.accessed_addresses = x
      BY ZenonT(30), <1>3, <2>1, <2>5
    <3> HIDE DEF x
    <3>3. View(t) = [objects |-> v.objects, slots |-> v.slots, self_destructs |-> v.self_destructs,
                     touched |-> v.touched, accessed_addresses |-> x,
                     accessed_storage_keys |-> v.accessed_storage_keys]
      BY ZenonT(30), <1>3, <2>1, <2>2, <2>5, <3>2
    <3>4. View(t) = before
      BY ZenonT(30), <1>2, <3>1, <3>3, AccessedAddressesExcept
    <3>5. QED BY ZenonT(30), <2>1, <2>5, <3>4 DEF t, IsStorageDelta, SameAccounts
  <2>6. CASE d.type = "StorageAccess"
    <3> DEFINE x == v.accessed_storage_keys \ {<<a, d.key>>}
    <3>1. before = [v EXCEPT !.accessed_storage_keys = x]
      BY ZenonT(30), <2>6 DEF Link, a, v
    <3>2. t.accessed_storage_keys = x
      BY ZenonT(30), <1>3, <2>1, <2>6
    <3> HIDE DEF x
    <3>3. View(t) = [objects |-> v.objects, slots |-> v.slots, self_destructs |-> v.self_destructs,
                     touched |-> v.touched, accessed_addresses |-> v.accessed_addresses,
                     accessed_storage_keys |-> x]
      BY ZenonT(30), <1>3, <2>1, <2>2, <2>6, <3>2
    <3>4. View(t) = before
      BY ZenonT(30), <1>2, <3>1, <3>3, AccessedStorageKeysExcept
    <3>5. QED BY ZenonT(30), <2>1, <2>6, <3>4 DEF t, IsStorageDelta, SameAccounts
  <2>7. QED BY SMTT(60), <1>8, <2>3, <2>4, <2>5, <2>6
<1>9. QED BY ZenonT(30), <1>1, <1>4, <1>5, <1>6, <1>7, <1>8 DEF IsStorageDelta

\* A prefix of a prefix is a prefix (vector::resize to a smaller size, twice).
LEMMA PrefixOfPrefix ==
    ASSUME NEW S, NEW q \in Seq(S), NEW m \in 0 .. Len(q), NEW n \in 0 .. m
    PROVE  /\ SubSeq(q, 1, m) \in Seq(S) /\ Len(SubSeq(q, 1, m)) = m
           /\ \A i \in 1 .. m : SubSeq(q, 1, m)[i] = q[i]
           /\ SubSeq(SubSeq(q, 1, m), 1, n) = SubSeq(q, 1, n)
<1>1. SubSeq(q, 1, m) \in Seq(S) /\ Len(SubSeq(q, 1, m)) = m
  OBVIOUS
<1>2. \A i \in 1 .. m : SubSeq(q, 1, m)[i] = q[i]
  OBVIOUS
<1>3. QED BY <1>1, <1>2

\* t adds to s: nothing that a snapshot of s relies on is lost.
Continues(s, t) == /\ Good(t)
                   /\ t.db = s.db
                   /\ Len(s.journal) <= Len(t.journal)
                   /\ \A n \in 1 .. Len(s.journal) : t.journal[n].delta = s.journal[n].delta
                   /\ \A n \in 0 .. Len(s.journal) : ViewAt(t, n) = ViewAt(s, n)
                   /\ Len(s.logs) <= Len(t.logs)
                   /\ \A n \in 0 .. Len(s.logs) : SubSeq(t.logs, 1, n) = SubSeq(s.logs, 1, n)

\* A journalled operation leaves every snapshot of the state usable.
LEMMA ExtendsContinues ==
    ASSUME NEW s, NEW t, Good(s), Extends(s, t)
    PROVE  Continues(s, t)
<1>1. Len(s.logs) \in Nat
  BY DEF Good, IntraBlockStateType
<1>2. QED BY <1>1 DEF Extends, Continues

\* Undoing can still stop where it could.
LEMMA ContinuesSeparable ==
    ASSUME NEW s, NEW t, Continues(s, t), Len(s.journal) \in Nat,
           NEW n \in 0 .. Len(s.journal), Separable(s, n)
    PROVE  Separable(t, n)
<1>1. CASE n = 0
  BY SMTT(30), <1>1 DEF Separable
<1>2. CASE n # 0
  <2>1. n \in 1 .. Len(s.journal) /\ n - 1 \in 0 .. Len(s.journal)
    BY SMTT(30), <1>2
  <2>2. /\ t.db = s.db /\ t.journal[n].delta = s.journal[n].delta
        /\ ViewAt(t, n - 1) = ViewAt(s, n - 1) /\ ViewAt(t, n) = ViewAt(s, n)
    BY <2>1 DEF Continues
  <2>3. QED BY <2>2 DEF Separable
<1>3. QED BY <1>1, <1>2

-----------------------------------------------------------------------------
(***************************************************************************)
(* The beginning and the end of a transaction.                             *)
(***************************************************************************)
\* clear_journal_and_substate keeps the types and empties the journal.
LEMMA ClearType ==
    ASSUME NEW s \in IntraBlockStateType
    PROVE  /\ ClearJournalAndSubstate(s) \in IntraBlockStateType
           /\ ClearJournalAndSubstate(s).journal = <<>>
<1> DEFINE jr == <<>>
           lg == <<>>
           as == {}
           ks == {}
           rf == 0
           t == [s EXCEPT !.journal = jr, !.self_destructs = as, !.logs = lg, !.touched = as,
                          !.refund = rf, !.accessed_addresses = as, !.accessed_storage_keys = ks]
<1>1. /\ jr \in Seq(Entry) /\ lg \in Seq(LogEntry) /\ as \in SUBSET Address
      /\ ks \in SUBSET (Address \X Key)
  OBVIOUS
<1>2. rf \in Uint
  BY WidthAssumption DEF Uint
<1> HIDE DEF jr, lg, as, ks, rf
<1>3. t \in IntraBlockStateType /\ t.journal = jr
  BY ZenonT(30), <1>1, <1>2 DEF IntraBlockStateType, Entry
<1>4. QED BY <1>3 DEF ClearJournalAndSubstate, jr, lg, as, ks, rf

\* destruct keeps the types.
LEMMA DestructType ==
    ASSUME NEW s \in IntraBlockStateType, NEW addresses \in SUBSET Address
    PROVE  Destruct(s, addresses) \in IntraBlockStateType
<1> DEFINE sto == [a \in Address |-> IF a \in addresses THEN None ELSE s.storage[a]]
           obj == [a \in Address |-> IF a \in addresses /\ ObjectOf(s, a) # None
                                     THEN [ObjectOf(s, a) EXCEPT !.current = None] ELSE s.objects[a]]
<1>1. sto \in [Address -> Storage \cup {None}]
  BY DEF IntraBlockStateType
<1>2. obj \in [Address -> Object \cup {None}]
  <2>1. ASSUME NEW a \in Address
        PROVE  obj[a] \in Object \cup {None}
    <3>1. ObjectOf(s, a) \in Object \cup {None} /\ s.objects[a] \in Object \cup {None}
      BY ZenonT(30), ObjectOfType DEF IntraBlockStateType
    <3>2. \A o \in Object : [o EXCEPT !.current = None] \in Object
      BY DEF Object
    <3>3. QED BY <3>1, <3>2
  <2>2. QED BY <2>1
<1> HIDE DEF sto, obj
<1>3. [s EXCEPT !.storage = sto, !.objects = obj] \in IntraBlockStateType
  BY ZenonT(30), <1>1, <1>2 DEF IntraBlockStateType
<1>4. QED BY <1>3 DEF Destruct, sto, obj

\* destruct_touched_dead keeps the types.
LEMMA DestructTouchedDeadType ==
    ASSUME NEW s \in IntraBlockStateType
    PROVE  DestructTouchedDead(s) \in IntraBlockStateType
<1> DEFINE obj == [a \in Address |-> IF a \in s.touched THEN ObjectOf(s, a) ELSE s.objects[a]]
           t == [s EXCEPT !.objects = obj]
           dead == {a \in s.touched : IsDead(s, a)}
<1>1. obj \in [Address -> Object \cup {None}]
  BY ZenonT(30), ObjectOfType DEF IntraBlockStateType
<1>2. dead \in SUBSET Address
  BY ZenonT(30) DEF IntraBlockStateType
<1> HIDE DEF obj, dead
<1>3. t \in IntraBlockStateType
  BY ZenonT(30), <1>1 DEF IntraBlockStateType
<1>4. Destruct(t, dead) \in IntraBlockStateType
  BY <1>2, <1>3, DestructType
<1>5. QED BY ZenonT(30), <1>4 DEF DestructTouchedDead, obj, dead

\* finalize_transaction keeps the types.
LEMMA FinalizeType ==
    ASSUME NEW s \in IntraBlockStateType
    PROVE  FinalizeTransaction(s) \in IntraBlockStateType
<1> DEFINE sto == [a \in Address |-> IF s.storage[a] = None THEN None ELSE FinalizeStorage(s.storage[a])]
<1>1. ASSUME NEW q \in Storage
      PROVE  FinalizeStorage(q) \in Storage
  <2> DEFINE com == [k \in Key |->
                       IF q.current[k] = None THEN q.committed[k]
                       ELSE [initial |-> IF q.committed[k] = None THEN Zero ELSE q.committed[k].initial,
                             original |-> q.current[k]]]
             cur == [k \in Key |-> None]
  <2>1. com \in [Key -> CommittedValue \cup {None}]
    BY ZenonT(30), ValuesAssumption DEF Storage, CommittedValue
  <2>2. cur \in [Key -> Value \cup {None}]
    OBVIOUS
  <2> HIDE DEF com, cur
  <2>3. [committed |-> com, current |-> cur] \in Storage
    BY <2>1, <2>2 DEF Storage
  <2>4. QED BY ZenonT(30), <2>3 DEF FinalizeStorage, com, cur
<1>2. sto \in [Address -> Storage \cup {None}]
  BY ZenonT(30), <1>1 DEF IntraBlockStateType
<1> HIDE DEF sto
<1>3. [s EXCEPT !.storage = sto] \in IntraBlockStateType
  BY ZenonT(30), <1>2 DEF IntraBlockStateType
<1>4. QED BY <1>3 DEF FinalizeTransaction, sto

(***************************************************************************)
(* Induction on the natural numbers, which the loops of the code need.     *)
(***************************************************************************)
LOCAL INSTANCE WellFoundedInduction

\* A set that holds 0 and the successor of each number it holds, holds them all.
LEMMA NatSet ==
    ASSUME NEW S, 0 \in S, \A n \in Nat : n \in S => n + 1 \in S
    PROVE  Nat \subseteq S
<1> DEFINE T == Nat \ S
<1>1. SUFFICES ASSUME T # {} PROVE FALSE
  OBVIOUS
<1>2. PICK x \in T : \A y \in T : ~(<<y, x>> \in OpToRel(<, Nat))
  <2>1. T \subseteq Nat
    OBVIOUS
  <2> HIDE DEF T
  <2>2. QED BY Zenon, <1>1, <2>1, WFMin, NatLessThanWellFounded
<1>3. x \in Nat /\ x \notin S
  OBVIOUS
<1>4. x # 0 /\ x - 1 \in Nat
  BY <1>3
<1>5. <<x - 1, x>> \in OpToRel(<, Nat)
  BY <1>3, <1>4 DEF OpToRel
<1>6. x - 1 \in S
  BY <1>2, <1>4, <1>5
<1>7. QED BY <1>3, <1>4, <1>6

=============================================================================
