------------------------------ MODULE Journal ------------------------------
(***************************************************************************)
(* The types of the journalled state and what its journal stands for: each *)
(* entry, undone by Delta::revert, takes the state observed after it to    *)
(* the one before it.                                                      *)
(***************************************************************************)
EXTENDS IntraBlockStateMethods

CONSTANT LogEntry

ASSUME WidthAssumption == UintMod \in Nat \ {0} /\ MaxIncarnation \in Nat

ASSUME ValuesAssumption ==
    /\ Zero \in Value /\ EmptyHash \in Code
    /\ None \notin Account \cup Object \cup Value \cup CommittedValue \cup Storage \cup Delta

-----------------------------------------------------------------------------
ViewType == [objects: [Address -> Object \cup {None}],
             slots: [Address -> [Key -> [current: Value, original: Value]]],
             self_destructs: SUBSET Address,
             touched: SUBSET Address,
             accessed_addresses: SUBSET Address,
             accessed_storage_keys: SUBSET (Address \X Key)]

IntraBlockStateType ==
    [db: StateBuffer,
     objects: [Address -> Object \cup {None}], storage: [Address -> Storage \cup {None}],
     code: SUBSET Code, journal: Seq([delta: Delta, before: ViewType]),
     self_destructs: SUBSET Address, logs: Seq(LogEntry), touched: SUBSET Address,
     refund: Uint, accessed_addresses: SUBSET Address,
     accessed_storage_keys: SUBSET (Address \X Key)]

IsStorageDelta(d) == d.type \in {"StorageWipe", "StorageCreate"}
WipedStorage(d) == IF d.type = "StorageWipe" THEN d.previous ELSE None

NoSlots == [k \in Key |-> [current |-> Zero, original |-> Zero]]

SameGeneration(o, p) == /\ Alive(o) /\ Alive(p)
                        /\ o.initial = p.initial
                        /\ o.current.incarnation = p.current.incarnation

\* What there is in an account, dead ones included.
AccountOf(obj) == IF Alive(obj) THEN obj.current ELSE EmptyAccount

\* The observable state when the journal had n entries.
ViewAt(s, n) == IF n < Len(s.journal) THEN s.journal[n + 1].before ELSE View(s)

WithAccount(v, a, obj, slots) == [v EXCEPT !.objects[a] = obj, !.slots[a] = slots]

\* Undoing delta d takes the state observed after it to the one before it.
\* The object entry of create_contract is always followed by an entry for
\* the storage it replaced (next), and only both together restore the slots.
Link(db, d, before, after, next) ==
    LET a == d.address IN
    /\ d.type = "Create" =>
         /\ db.accounts[a] = None
         /\ before = WithAccount(after, a, None, NoSlots)
    /\ d.type = "Update" =>
         /\ before = WithAccount(after, a, d.previous, before.slots[a])
         /\ \/ ~Alive(d.previous) /\ before.slots[a] = NoSlots
            \/ SameGeneration(d.previous, after.objects[a]) /\ before.slots[a] = after.slots[a]
            \/ /\ next # None /\ IsStorageDelta(next) /\ next.address = a
               /\ before.slots[a] = Slots(db, d.previous, WipedStorage(next), a)
    /\ d.type = "StorageChange" =>
         /\ Alive(after.objects[a])
         /\ before = WithAccount(after, a, after.objects[a],
                                 [after.slots[a] EXCEPT ![d.key].current = d.previous])
    /\ IsStorageDelta(d) =>
         before = WithAccount(after, a, after.objects[a],
                              Slots(db, after.objects[a], WipedStorage(d), a))
    /\ d.type = "Suicide" => before = [after EXCEPT !.self_destructs = @ \ {a}]
    /\ d.type = "Touch" => before = [after EXCEPT !.touched = @ \ {a}]
    /\ d.type = "AccountAccess" => before = [after EXCEPT !.accessed_addresses = @ \ {a}]
    /\ d.type = "StorageAccess" =>
         before = [after EXCEPT !.accessed_storage_keys = @ \ {<<a, d.key>>}]

NextDelta(s, j) == IF j < Len(s.journal) THEN s.journal[j + 1].delta ELSE None

Linked(s, n) ==
    \A j \in 1 .. n :
      Link(s.db, s.journal[j].delta, ViewAt(s, j - 1), ViewAt(s, j), NextDelta(s, j))

\* Undoing can stop after n entries: entry n does not need the next one.
Separable(s, n) ==
    n > 0 => Link(s.db, s.journal[n].delta, ViewAt(s, n - 1), ViewAt(s, n), None)

=============================================================================
