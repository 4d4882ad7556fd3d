-------------------------- MODULE ProcessorLemmas ---------------------------
(***************************************************************************)
(* What the EVM, its host and the loops of the processor do to the         *)
(* journalled state.  A snapshot can be gone back to; calls, creations and *)
(* host functions only reach states that can be undone; and the frames of  *)
(* a transaction stay nested, each with a snapshot that the journal still  *)
(* holds.                                                                  *)
(***************************************************************************)
EXTENDS ProcessorMethods, IntraBlockStateLemmas

\* Zenon proves the leaves that name no other prover.
USE ZenonT(30)

(***************************************************************************)
(* Arithmetic of gas.                                                      *)
(***************************************************************************)

\* A product of natural numbers is one.
LEMMA Product ==
    ASSUME NEW m \in Nat, NEW n \in Nat
    PROVE  m * n \in Nat
BY SMTT(30)

\* The next nonce.
LEMMA Successor ==
    ASSUME NEW n \in Nat
    PROVE  n + 1 \in Nat
BY SMTT(30)

\* What is left of m, when n of it is used.
LEMMA Left ==
    ASSUME NEW m \in Nat, NEW n \in 0 .. m
    PROVE  /\ n \in Nat /\ n <= m /\ m - n \in Nat /\ m - n \in 0 .. m
           /\ \A i \in 0 .. m - n : n + i \in 0 .. m
BY SMTT(30)

\* Nothing is used.
LEMMA ZeroWithin ==
    ASSUME NEW m \in Nat
    PROVE  0 \in 0 .. m
BY SMTT(30)

\* A charge that can be paid.
LEMMA ChargeGas ==
    ASSUME NEW m \in Nat, NEW n \in 0 .. m, NEW c \in Nat, n >= c
    PROVE  n - c \in 0 .. m
BY SMTT(30)

\* A part of what is left after a charge.
LEMMA PartLeft ==
    ASSUME NEW m \in Nat, NEW c \in Nat, NEW n \in Nat, n <= m - c
    PROVE  n \in 0 .. m
BY SMTT(30)

\* Room for n more.
LEMMA Room ==
    ASSUME NEW max \in Nat, NEW m \in 0 .. max, NEW n \in Nat
    PROVE  /\ n <= max - m => m + n <= max
           /\ m + n <= max => \A i \in 0 .. n : m + i \in 0 .. max
BY SMTT(30)

\* What the sender has left when the gas is paid in advance.
LEMMA Deducted ==
    ASSUME NEW b \in Uint, NEW c \in Nat, NEW v \in Nat, c + v <= b
    PROVE  b - c \in Uint /\ v <= b - c /\ (b - c) % UintMod = b - c
BY SMTT(30), WidthAssumption DEF Uint

\* A balance that covers a transfer.
LEMMA Covers ==
    ASSUME NEW b \in Uint, NEW v \in Nat, v <= b
    PROVE  ~(b < v)
BY SMTT(30), WidthAssumption DEF Uint

\* The values that calls transfer.
LEMMA ZeroOrOne ==
    ASSUME NEW v \in {0, 1}
    PROVE  v \in Nat
BY SMTT(30)

\* The refund that is earned, and the part of the gas used that bounds it.
LEMMA RefundParts ==
    ASSUME NEW refund \in Uint, NEW suicides \in Nat, NEW each \in Nat, NEW used \in Nat,
           NEW quotient \in Nat \ {0}
    PROVE  /\ refund + each * suicides \in Nat /\ refund + 0 \in Nat
           /\ used \div quotient \in Nat
           /\ 0 .. used \div quotient \subseteq 0 .. used
<1>1. refund \in Nat
  BY SMTT(30), WidthAssumption DEF Uint
<1>2. each * suicides \in Nat
  BY Product
<1>3. used \div quotient \in 0 .. used
  BY SMTT(30)
<1>4. QED BY SMTT(30), <1>1, <1>2, <1>3

(***************************************************************************)
(* The loops of the code are recursive functions on 0 .. n.                *)
(***************************************************************************)

\* What each turn of a loop preserves holds after every turn.
LEMMA LoopInvariant ==
    ASSUME NEW n \in Nat, NEW D, NEW f, f[0] \in D[0],
           \A i \in 1 .. n : f[i - 1] \in D[i - 1] => f[i] \in D[i]
    PROVE  \A i \in 0 .. n : f[i] \in D[i]
<1> DEFINE S == {k \in Nat : k <= n => f[k] \in D[k]}
<1>1. 0 \in S
  OBVIOUS
<1>2. ASSUME NEW k \in Nat, k \in S PROVE k + 1 \in S
  <2>1. SUFFICES ASSUME k + 1 <= n PROVE f[k + 1] \in D[k + 1]
    BY SMTT(30)
  <2>2. k + 1 \in 1 .. n /\ (k + 1) - 1 = k /\ k <= n
    BY SMTT(30), <2>1
  <2>3. QED BY <1>2, <2>2
<1>3. Nat \subseteq S
  <2> HIDE DEF S
  <2>1. QED BY <1>1, <1>2, NatSet
<1>4. QED BY SMTT(30), <1>3

\* The values of a loop: step[i] is what turn i does, D[i] where it ends.
Iterates(f, n, base, step, D) ==
    /\ f = [i \in 0 .. n |-> f[i]]
    /\ f[0] = base
    /\ \A i \in 1 .. n : f[i] = step[i][f[i - 1]]
    /\ \A i \in 0 .. n : f[i] \in D[i]

\* Every loop has its values.
LEMMA Iteration ==
    ASSUME NEW n \in Nat, NEW D, NEW base, base \in D[0], NEW step,
           \A i \in 1 .. n : step[i] \in [D[i - 1] -> D[i]]
    PROVE  \E f : Iterates(f, n, base, step, D)
<1> DEFINE P(f, k) == Iterates(f, k, base, step, D)
           S == {k \in Nat : k <= n => \E f : P(f, k)}
<1>1. 0 \in S
  <2>1. P([i \in 0 .. 0 |-> base], 0)
    BY SMTT(30) DEF Iterates
  <2>2. QED BY <2>1
<1>2. ASSUME NEW k \in Nat, k \in S PROVE k + 1 \in S
  <2>1. SUFFICES ASSUME k + 1 <= n PROVE \E f : P(f, k + 1)
    BY SMTT(30)
  <2>2. PICK f : P(f, k)
    BY SMTT(30), <1>2, <2>1
  <2> DEFINE g == [i \in 0 .. k + 1 |-> IF i <= k THEN f[i] ELSE step[i][f[i - 1]]]
  <2>3. P(g, k + 1)
    <3>1. /\ 0 \in 0 .. k /\ (k + 1) - 1 = k /\ k \in 0 .. k
          /\ \A i \in 1 .. k + 1 : i \in 1 .. k \/ i = k + 1
          /\ \A i \in 0 .. k + 1 : i \in 0 .. k \/ i = k + 1
      BY SMTT(30)
    <3>2. \A i \in 0 .. k : g[i] = f[i]
      BY SMTT(30)
    <3>3. g[k + 1] = step[k + 1][f[k]]
      BY SMTT(30)
    <3>4. f[k] \in D[k] /\ step[k + 1] \in [D[k] -> D[k + 1]]
      BY SMTT(30), <2>1, <2>2 DEF Iterates
    <3>5. g[k + 1] \in D[k + 1]
      BY <3>3, <3>4
    <3>6. g = [i \in 0 .. k + 1 |-> g[i]]
      OBVIOUS
    <3>7. \A i \in 1 .. k : g[i] = f[i] /\ g[i - 1] = f[i - 1]
      BY SMTT(30)
    <3> HIDE DEF g
    <3>8. g[0] = base
      BY <2>2, <3>1, <3>2 DEF Iterates
    <3>9. \A i \in 1 .. k : g[i] = step[i][g[i - 1]]
      BY <2>2, <3>7 DEF Iterates
    <3>10. g[k + 1] = step[k + 1][g[(k + 1) - 1]]
      BY <3>1, <3>2, <3>3
    <3>11. \A i \in 1 .. k + 1 : g[i] = step[i][g[i - 1]]
      BY <3>1, <3>9, <3>10
    <3>12. \A i \in 0 .. k + 1 : g[i] \in D[i]
      BY <2>2, <3>1, <3>2, <3>5 DEF Iterates
    <3>13. QED BY <3>6, <3>8, <3>11, <3>12 DEF Iterates
  <2> HIDE DEF P
  <2>4. QED BY <2>3
<1>3. Nat \subseteq S
  <2> HIDE DEF S
  <2>1. QED BY <1>1, <1>2, NatSet
<1>4. n \in S
  BY <1>3
<1>5. QED BY SMTT(30), <1>4

-----------------------------------------------------------------------------
(***************************************************************************)
(* revert_to_snapshot.                                                     *)
(***************************************************************************)

\* u is t with all but the first m entries of the journal undone.
UndoneTo(t, u, m) ==
    /\ u \in IntraBlockStateType
    /\ u.db = t.db /\ u.logs = t.logs /\ u.journal = t.journal /\ u.refund = t.refund
    /\ View(u) = ViewAt(t, m)
    /\ LET d == NextDelta(t, m)
       IN d # None /\ IsStorageDelta(d) => u.storage[d.address] = WipedStorage(d)

\* One turn of the loop of revert_to_snapshot.
LEMMA UndoOne ==
    ASSUME NEW t, NEW u, Good(t), NEW m \in 1 .. Len(t.journal), UndoneTo(t, u, m)
    PROVE  UndoneTo(t, Revert(u, t.journal[m].delta), m - 1)
<1> DEFINE d == t.journal[m].delta
           before == t.journal[m].before
           next == NextDelta(t, m)
           w == Revert(u, d)
<1>1. /\ t.journal \in Seq(Entry) /\ Len(t.journal) \in Nat
      /\ u \in IntraBlockStateType /\ u.db = t.db
  BY SMTT(30) DEF Good, UndoneTo, IntraBlockStateType, Entry
<1>2. t.journal[m] \in Entry
  BY SMTT(30), <1>1
<1>3. d \in Delta /\ before \in ViewType
  BY <1>2 DEF Entry
<1>4. m - 1 < Len(t.journal) /\ (m - 1) + 1 = m
  BY SMTT(30), <1>1
<1>5. ViewAt(t, m - 1) = before /\ NextDelta(t, m - 1) = d
  BY <1>4 DEF ViewAt, NextDelta
<1>6. Link(t.db, d, before, View(u), next)
  BY <1>5 DEF Good, Linked, UndoneTo
<1>7. next \in Delta \cup {None}
  <2>1. CASE m < Len(t.journal)
    <3>1. m + 1 \in 1 .. Len(t.journal)
      BY SMTT(30), <1>1, <2>1
    <3>2. t.journal[m + 1] \in Entry
      BY SMTT(30), <1>1, <3>1
    <3>3. QED BY <2>1, <3>2 DEF NextDelta, Entry
  <2>2. QED BY <2>1 DEF NextDelta
<1>8. next # None /\ IsStorageDelta(next) => u.storage[next.address] = WipedStorage(next)
  BY DEF UndoneTo
<1> HIDE DEF d, before, next
<1>9. /\ w \in IntraBlockStateType
      /\ w.db = u.db /\ w.logs = u.logs /\ w.journal = u.journal /\ w.refund = u.refund
      /\ View(w) = before
      /\ IsStorageDelta(d) => w.storage[d.address] = WipedStorage(d)
  BY <1>1, <1>3, <1>6, <1>7, <1>8, RevertUndoes
<1> HIDE DEF w
<1>10. UndoneTo(t, w, m - 1)
  BY <1>5, <1>9 DEF UndoneTo
<1>11. QED BY <1>10 DEF w, d

\* The loop of revert_to_snapshot undoes the entries one by one, the last first.
LEMMA UndoneSteps ==
    ASSUME NEW t, Good(t)
    PROVE  \A i \in 0 .. Len(t.journal) : UndoneTo(t, Undone(t)[i], Len(t.journal) - i)
<1> DEFINE n == Len(t.journal)
           delta(i) == t.journal[n + 1 - i].delta
           D == [i \in 0 .. n |-> {u \in IntraBlockStateType : UndoneTo(t, u, n - i)}]
           step == [i \in 1 .. n |-> [u \in D[i - 1] |-> Revert(u, delta(i))]]
           H(f) == f = [i \in 0 .. n |-> IF i = 0 THEN t ELSE Revert(f[i - 1], delta(i))]
<1>1. n \in Nat /\ t \in IntraBlockStateType
  BY SMTT(30) DEF Good, IntraBlockStateType
<1>2. UndoneTo(t, t, n)
  BY SMTT(30), <1>1 DEF UndoneTo, ViewAt, NextDelta
<1>3. t \in D[0] /\ 0 \in 0 .. n /\ n - 0 = n
  BY SMTT(30), <1>1, <1>2
<1>4. ASSUME NEW i \in 1 .. n, NEW u \in D[i - 1]
      PROVE  Revert(u, delta(i)) \in D[i]
  <2>1. /\ n + 1 - i \in 1 .. n /\ i - 1 \in 0 .. n /\ i \in 0 .. n
        /\ n - (i - 1) = n + 1 - i /\ (n + 1 - i) - 1 = n - i
    BY SMTT(30), <1>1
  <2>2. UndoneTo(t, u, n + 1 - i)
    BY <2>1
  <2> HIDE DEF n
  <2>3. UndoneTo(t, Revert(u, delta(i)), n - i)
    BY <2>1, <2>2, UndoOne DEF n
  <2>4. Revert(u, delta(i)) \in IntraBlockStateType
    BY <2>3 DEF UndoneTo
  <2>5. QED BY <2>1, <2>3, <2>4
<1> HIDE DEF n, delta, D
<1>5. \A i \in 1 .. n : step[i] \in [D[i - 1] -> D[i]]
  BY <1>4
<1>6. PICK f : Iterates(f, n, t, step, D)
  <2> HIDE DEF step
  <2>1. QED BY <1>1, <1>3, <1>5, Iteration
<1>7. ASSUME NEW i \in 1 .. n PROVE f[i] = Revert(f[i - 1], delta(i)) /\ i # 0 /\ i \in 0 .. n
  <2>1. i - 1 \in 0 .. n /\ i # 0 /\ i \in 0 .. n
    BY SMTT(30), <1>1
  <2>2. f[i - 1] \in D[i - 1] /\ f[i] = step[i][f[i - 1]]
    BY <1>6, <2>1 DEF Iterates
  <2>3. QED BY <2>1, <2>2
<1>8. H(f)
  <2>1. f = [i \in 0 .. n |-> f[i]] /\ f[0] = t
    BY <1>6 DEF Iterates
  <2>2. \A i \in 0 .. n : i = 0 \/ i \in 1 .. n
    BY SMTT(30), <1>1
  <2>3. \A i \in 0 .. n : f[i] = IF i = 0 THEN t ELSE Revert(f[i - 1], delta(i))
    BY <1>7, <2>1, <2>2
  <2>4. QED BY <2>1, <2>3
<1>9. H(Undone(t))
  <2>1. Undone(t) = CHOOSE g : H(g)
    BY DEF Undone, n, delta
  <2>2. QED BY <1>8, <2>1
<1> DEFINE g == Undone(t)
<1>10. g[0] = t
  BY <1>3, <1>9
<1>11. \A i \in 1 .. n : i # 0 /\ i \in 0 .. n
  BY <1>7
<1>12. \A i \in 1 .. n : g[i] = Revert(g[i - 1], delta(i))
  BY <1>9, <1>11
<1> HIDE DEF g
<1>13. \A i \in 0 .. n : g[i] \in D[i]
  <2>1. g[0] \in D[0]
    BY <1>3, <1>10
  <2>2. \A i \in 1 .. n : g[i - 1] \in D[i - 1] => g[i] \in D[i]
    BY <1>4, <1>12
  <2>3. QED BY <1>1, <2>1, <2>2, LoopInvariant
<1>14. QED BY <1>13 DEF g, D, n

-----------------------------------------------------------------------------
\* A snapshot that t can be reverted to.
Usable(t, p) ==
    /\ p \in Snapshot
    /\ p.journal_size <= Len(t.journal) /\ Separable(t, p.journal_size)
    /\ p.log_size <= Len(t.logs)

\* u still holds what was in t when snapshot p was taken.
Keeps(t, u, p) ==
    /\ u.db = t.db
    /\ p.journal_size <= Len(u.journal) /\ p.log_size <= Len(u.logs)
    /\ \A n \in 1 .. p.journal_size : u.journal[n].delta = t.journal[n].delta
    /\ \A n \in 0 .. p.journal_size : ViewAt(u, n) = ViewAt(t, n)
    /\ SubSeq(u.logs, 1, p.log_size) = SubSeq(t.logs, 1, p.log_size)

\* The fields of a snapshot.
LEMMA SnapshotFields ==
    ASSUME NEW p \in Snapshot
    PROVE  p.journal_size \in Nat /\ p.log_size \in Nat /\ p.refund \in Uint
BY DEF Snapshot

\* The types of what a state is made of.
LEMMA GoodFields ==
    ASSUME NEW t \in IntraBlockStateType
    PROVE  /\ t.db \in StateBuffer /\ t.journal \in Seq(Entry) /\ Len(t.journal) \in Nat
           /\ t.logs \in Seq(LogEntry) /\ Len(t.logs) \in Nat /\ t.refund \in Uint
           /\ t.objects \in [Address -> Object \cup {None}]
           /\ t.storage \in [Address -> Storage \cup {None}]
           /\ t.self_destructs \in SUBSET Address /\ t.touched \in SUBSET Address
BY SMTT(30) DEF IntraBlockStateType, Entry

\* A snapshot stays usable as long as what it stands for is kept.
LEMMA KeptUsable ==
    ASSUME NEW t, NEW u, NEW p, Usable(t, p), Keeps(t, u, p)
    PROVE  Usable(u, p)
<1>1. p.journal_size \in Nat
  BY SnapshotFields DEF Usable
<1>2. CASE p.journal_size = 0
  BY SMTT(30), <1>2 DEF Usable, Keeps, Separable
<1>3. CASE p.journal_size > 0
  <2>1. /\ p.journal_size \in 1 .. p.journal_size /\ p.journal_size \in 0 .. p.journal_size
        /\ p.journal_size - 1 \in 0 .. p.journal_size
    BY SMTT(30), <1>1, <1>3
  <2>2. Separable(u, p.journal_size)
    BY <1>3, <2>1 DEF Usable, Keeps, Separable
  <2>3. QED BY <2>2 DEF Usable, Keeps
<1>4. QED BY SMTT(30), <1>1, <1>2, <1>3

\* A journalled operation keeps what every usable snapshot stands for.
LEMMA ContinuesKeeps ==
    ASSUME NEW t, NEW u, NEW p, Good(t), Continues(t, u), Usable(t, p)
    PROVE  Keeps(t, u, p) /\ Usable(u, p)
<1>1. /\ p.journal_size \in Nat /\ p.log_size \in Nat
      /\ p.journal_size <= Len(t.journal) /\ p.log_size <= Len(t.logs)
  BY SnapshotFields DEF Usable
<1>2. /\ Len(t.journal) \in Nat /\ Len(t.logs) \in Nat /\ Len(u.journal) \in Nat
      /\ Len(u.logs) \in Nat
  BY GoodFields DEF Good, Continues
<1>3. Len(t.journal) <= Len(u.journal) /\ Len(t.logs) <= Len(u.logs)
  BY DEF Continues
<1>4. /\ \A n \in 1 .. p.journal_size : n \in 1 .. Len(t.journal)
      /\ \A n \in 0 .. p.journal_size : n \in 0 .. Len(t.journal)
      /\ p.log_size \in 0 .. Len(t.logs)
      /\ p.journal_size <= Len(u.journal) /\ p.log_size <= Len(u.logs)
  BY SMTT(30), <1>1, <1>2, <1>3
<1>5. Keeps(t, u, p)
  BY <1>4 DEF Keeps, Continues
<1>6. QED BY <1>5, KeptUsable

\* The snapshot taken now can be reverted to.
LEMMA TakenUsable ==
    ASSUME NEW t, Good(t)
    PROVE  /\ TakeSnapshot(t) \in Snapshot /\ Usable(t, TakeSnapshot(t))
           /\ TakeSnapshot(t).journal_size = Len(t.journal)
           /\ TakeSnapshot(t).log_size = Len(t.logs)
<1>1. /\ t \in IntraBlockStateType /\ Len(t.journal) \in Nat /\ Len(t.logs) \in Nat
      /\ t.refund \in Uint
  BY GoodFields DEF Good
<1>2. /\ TakeSnapshot(t) \in Snapshot /\ TakeSnapshot(t).journal_size = Len(t.journal)
      /\ TakeSnapshot(t).log_size = Len(t.logs)
  BY <1>1 DEF TakeSnapshot, Snapshot
<1>3. Separable(t, Len(t.journal))
  <2>1. CASE Len(t.journal) = 0
    BY SMTT(30), <2>1 DEF Separable
  <2>2. CASE Len(t.journal) > 0
    <3>1. Len(t.journal) \in 1 .. Len(t.journal) /\ NextDelta(t, Len(t.journal)) = None
      BY SMTT(30), <1>1, <2>2 DEF NextDelta
    <3>2. QED BY <3>1 DEF Separable, Good, Linked
  <2>3. QED BY SMTT(30), <1>1, <2>1, <2>2
<1>4. QED BY SMTT(30), <1>1, <1>2, <1>3 DEF Usable

\* Cutting the journal at a usable snapshot.
LEMMA Truncated ==
    ASSUME NEW t, NEW u \in IntraBlockStateType, NEW m \in Nat, Good(t),
           m <= Len(t.journal), Separable(t, m),
           u.db = t.db, View(u) = ViewAt(t, m), u.journal = SubSeq(t.journal, 1, m)
    PROVE  /\ Good(u) /\ Len(u.journal) = m
           /\ \A n \in 1 .. m : u.journal[n].delta = t.journal[n].delta
           /\ \A n \in 0 .. m : ViewAt(u, n) = ViewAt(t, n)
<1>1. t.journal \in Seq(Entry) /\ Len(t.journal) \in Nat
  BY GoodFields DEF Good
<1>2. m \in 0 .. Len(t.journal)
  BY SMTT(30), <1>1
<1>3. Len(u.journal) = m /\ \A n \in 1 .. m : u.journal[n] = t.journal[n]
  BY SMTT(30), <1>1, <1>2
<1>4. \A n \in 0 .. m : ViewAt(u, n) = ViewAt(t, n)
  <2>1. ASSUME NEW n \in 0 .. m PROVE ViewAt(u, n) = ViewAt(t, n)
    <3>1. CASE n = m
      <4>1. ~(n < Len(u.journal))
        BY SMTT(30), <1>3, <3>1
      <4>2. QED BY <3>1, <4>1 DEF ViewAt
    <3>2. CASE n # m
      <4>1. n < Len(u.journal) /\ n < Len(t.journal) /\ n + 1 \in 1 .. m
        BY SMTT(30), <1>1, <1>3, <3>2
      <4>2. QED BY <1>3, <4>1 DEF ViewAt
    <3>3. QED BY <3>1, <3>2
  <2>2. QED BY <2>1
<1>5. Linked(u, m)
  <2>1. ASSUME NEW j \in 1 .. m
        PROVE  Link(u.db, u.journal[j].delta, ViewAt(u, j - 1), ViewAt(u, j), NextDelta(u, j))
    <3>1. /\ j \in 0 .. m /\ j - 1 \in 0 .. m /\ j \in 1 .. Len(t.journal)
          /\ (j = m \/ j < m)
      BY SMTT(30), <1>1, <1>2
    <3>2. CASE j = m
      <4>1. j > 0 /\ ~(j < Len(u.journal))
        BY SMTT(30), <1>3, <3>2
      <4>2. NextDelta(u, j) = None
        BY <4>1 DEF NextDelta
      <4>3. Link(t.db, t.journal[j].delta, ViewAt(t, j - 1), ViewAt(t, j), None)
        BY <3>2, <4>1 DEF Separable
      <4>4. QED BY <1>3, <1>4, <3>1, <4>2, <4>3
    <3>3. CASE j < m
      <4>1. j < Len(u.journal) /\ j < Len(t.journal) /\ j + 1 \in 1 .. m
        BY SMTT(30), <1>1, <1>3, <3>3
      <4>2. NextDelta(u, j) = NextDelta(t, j)
        BY <1>3, <4>1 DEF NextDelta
      <4>3. Link(t.db, t.journal[j].delta, ViewAt(t, j - 1), ViewAt(t, j), NextDelta(t, j))
        BY <3>1 DEF Good, Linked
      <4>4. QED BY <1>3, <1>4, <3>1, <4>2, <4>3
    <3>4. QED BY <3>1, <3>2, <3>3
  <2>2. QED BY <2>1 DEF Linked
<1>6. QED BY <1>3, <1>4, <1>5 DEF Good

\* revert_to_snapshot brings back what could be observed when the snapshot was
\* taken, and with it every older snapshot.
LEMMA Reverted ==
    ASSUME NEW t, NEW p, Good(t), Usable(t, p)
    PROVE  LET u == RevertToSnapshot(t, p)
           IN /\ Good(u) /\ u.db = t.db
              /\ Len(u.journal) = p.journal_size
              /\ \A n \in 1 .. p.journal_size : u.journal[n].delta = t.journal[n].delta
              /\ \A n \in 0 .. p.journal_size : ViewAt(u, n) = ViewAt(t, n)
              /\ View(u) = ViewAt(t, p.journal_size)
              /\ u.logs = SubSeq(t.logs, 1, p.log_size)
<1> DEFINE m == p.journal_size
           w == Undone(t)[Len(t.journal) - m]
           u == RevertToSnapshot(t, p)
<1>1. /\ p \in Snapshot /\ m \in Nat /\ p.log_size \in Nat /\ p.refund \in Uint
      /\ m <= Len(t.journal) /\ Separable(t, m) /\ p.log_size <= Len(t.logs)
  BY SnapshotFields DEF Usable
<1>2. /\ t.journal \in Seq(Entry) /\ Len(t.journal) \in Nat
      /\ t.logs \in Seq(LogEntry) /\ Len(t.logs) \in Nat
  BY GoodFields DEF Good
<1>3. Len(t.journal) - m \in 0 .. Len(t.journal) /\ Len(t.journal) - (Len(t.journal) - m) = m
  BY SMTT(30), <1>1, <1>2
<1>4. UndoneTo(t, w, m)
  BY <1>3, UndoneSteps
<1>5. u = [w EXCEPT !.journal = SubSeq(@, 1, m), !.logs = SubSeq(@, 1, p.log_size),
                    !.refund = p.refund]
  BY DEF RevertToSnapshot
<1>6. /\ SubSeq(t.journal, 1, m) \in Seq(Entry)
      /\ SubSeq(t.logs, 1, p.log_size) \in Seq(LogEntry)
  BY SMTT(30), <1>1, <1>2
<1>7. /\ w \in IntraBlockStateType /\ w.db = t.db /\ w.logs = t.logs /\ w.journal = t.journal
      /\ View(w) = ViewAt(t, m)
  BY <1>4 DEF UndoneTo
<1> HIDE DEF u, w
<1>8. /\ u \in IntraBlockStateType /\ u.db = w.db /\ u.journal = SubSeq(t.journal, 1, m)
      /\ u.logs = SubSeq(t.logs, 1, p.log_size)
      /\ u.objects = w.objects /\ u.storage = w.storage /\ u.self_destructs = w.self_destructs
      /\ u.touched = w.touched /\ u.accessed_addresses = w.accessed_addresses
      /\ u.accessed_storage_keys = w.accessed_storage_keys
  BY <1>1, <1>5, <1>6, <1>7 DEF IntraBlockStateType, Entry
<1>9. View(u) = View(w)
  BY <1>8 DEF View, ObjectOf
<1>10. /\ Good(u) /\ Len(u.journal) = m
       /\ \A n \in 1 .. m : u.journal[n].delta = t.journal[n].delta
       /\ \A n \in 0 .. m : ViewAt(u, n) = ViewAt(t, n)
  <2> HIDE DEF m
  <2>1. m \in Nat /\ m <= Len(t.journal) /\ Separable(t, m)
    BY <1>1 DEF m
  <2>2. /\ u \in IntraBlockStateType /\ u.db = t.db /\ View(u) = ViewAt(t, m)
        /\ u.journal = SubSeq(t.journal, 1, m)
    BY <1>7, <1>8, <1>9
  <2>3. QED BY <2>1, <2>2, Truncated
<1>11. QED BY <1>7, <1>8, <1>9, <1>10 DEF u

\* An older snapshot survives the revert to a newer one.
LEMMA RevertedKeeps ==
    ASSUME NEW t, NEW p, NEW q, Good(t), Usable(t, p), Usable(t, q),
           q.journal_size <= p.journal_size, q.log_size <= p.log_size
    PROVE  Keeps(t, RevertToSnapshot(t, p), q) /\ Usable(RevertToSnapshot(t, p), q)
<1> DEFINE u == RevertToSnapshot(t, p)
<1>1. /\ p.journal_size \in Nat /\ q.journal_size \in Nat /\ p.log_size \in Nat
      /\ q.log_size \in Nat /\ p.log_size <= Len(t.logs)
  BY SnapshotFields DEF Usable
<1>2. /\ u.db = t.db /\ Len(u.journal) = p.journal_size
      /\ \A n \in 1 .. p.journal_size : u.journal[n].delta = t.journal[n].delta
      /\ \A n \in 0 .. p.journal_size : ViewAt(u, n) = ViewAt(t, n)
      /\ u.logs = SubSeq(t.logs, 1, p.log_size)
  BY Reverted
<1> HIDE DEF u
<1>3. t.logs \in Seq(LogEntry) /\ Len(t.logs) \in Nat
  BY GoodFields DEF Good
<1>4. p.log_size \in 0 .. Len(t.logs) /\ q.log_size \in 0 .. p.log_size
  BY SMTT(30), <1>1, <1>3
<1>5. Len(u.logs) = p.log_size /\ SubSeq(u.logs, 1, q.log_size) = SubSeq(t.logs, 1, q.log_size)
  <2> DEFINE logs == t.logs m == p.log_size n == q.log_size
  <2>1. logs \in Seq(LogEntry) /\ m \in 0 .. Len(logs) /\ n \in 0 .. m
    BY <1>3, <1>4
  <2> HIDE DEF logs, m, n
  <2>2. Len(SubSeq(logs, 1, m)) = m /\ SubSeq(SubSeq(logs, 1, m), 1, n) = SubSeq(logs, 1, n)
    BY <2>1, PrefixOfPrefix
  <2>3. QED BY <1>2, <2>2 DEF logs, m, n
<1>6. /\ \A n \in 1 .. q.journal_size : n \in 1 .. p.journal_size
      /\ \A n \in 0 .. q.journal_size : n \in 0 .. p.journal_size
      /\ q.journal_size <= Len(u.journal) /\ q.log_size <= Len(u.logs)
  BY SMTT(30), <1>1, <1>2, <1>5
<1>7. Keeps(t, u, q)
  BY <1>2, <1>5, <1>6 DEF Keeps
<1>8. QED BY <1>7, KeptUsable DEF u

\* A call that fails at once, after a few journalled operations, leaves all as
\* it was.
LEMMA RevertedAtOnce ==
    ASSUME NEW t, NEW v, Good(t), Extends(t, v)
    PROVE  LET u == RevertToSnapshot(v, TakeSnapshot(t))
           IN Extends(t, u) /\ View(u) = View(t)
<1> DEFINE p == TakeSnapshot(t)
           u == RevertToSnapshot(v, p)
<1>1. Usable(t, p) /\ p.journal_size = Len(t.journal) /\ p.log_size = Len(t.logs)
  BY TakenUsable
<1>2. Continues(t, v)
  BY ExtendsContinues
<1>3. Usable(v, p) /\ Good(v) /\ v.db = t.db /\ v.logs = t.logs
  BY <1>1, <1>2, ContinuesKeeps DEF Extends
<1> HIDE DEF p
<1>4. /\ Good(u) /\ u.db = v.db /\ Len(u.journal) = Len(t.journal)
      /\ \A n \in 1 .. Len(t.journal) : u.journal[n].delta = v.journal[n].delta
      /\ \A n \in 0 .. Len(t.journal) : ViewAt(u, n) = ViewAt(v, n)
      /\ View(u) = ViewAt(v, Len(t.journal))
      /\ u.logs = SubSeq(v.logs, 1, Len(t.logs))
  <2>1. /\ Good(u) /\ u.db = v.db /\ Len(u.journal) = p.journal_size
        /\ \A n \in 1 .. p.journal_size : u.journal[n].delta = v.journal[n].delta
        /\ \A n \in 0 .. p.journal_size : ViewAt(u, n) = ViewAt(v, n)
        /\ View(u) = ViewAt(v, p.journal_size)
        /\ u.logs = SubSeq(v.logs, 1, p.log_size)
    BY SMTT(30), <1>3, Reverted
  <2> HIDE DEF u
  <2>2. QED BY <1>1, <2>1
<1> HIDE DEF u
<1>5. /\ Len(t.journal) \in Nat /\ t.logs \in Seq(LogEntry) /\ Len(t.logs) \in Nat
  BY GoodFields DEF Good
<1>6. SubSeq(t.logs, 1, Len(t.logs)) = t.logs /\ Len(t.journal) \in 0 .. Len(t.journal)
  BY SMTT(30), <1>5
<1>7. ViewAt(t, Len(t.journal)) = View(t)
  BY SMTT(30), <1>5 DEF ViewAt
<1>8. Len(t.journal) <= Len(u.journal)
  BY SMTT(30), <1>4, <1>5
<1>9. Extends(t, u)
  BY <1>3, <1>4, <1>6, <1>8 DEF Extends
<1>10. View(u) = View(t)
  BY <1>4, <1>6, <1>7 DEF Extends
<1>11. QED BY <1>9, <1>10 DEF u, p

-----------------------------------------------------------------------------
(***************************************************************************)
(* What the methods do to the accounts.                                    *)
(***************************************************************************)
InitialOf(obj) == IF obj = None THEN None ELSE obj.initial

\* u differs from t in account a, which gets the contents account, and in what
\* is touched, accessed, journalled or cached.
Rewrites(t, u, a, account) ==
    /\ u.db = t.db /\ u.storage = t.storage /\ u.self_destructs = t.self_destructs
    /\ \A b \in Address \ {a} : u.objects[b] = t.objects[b]
    /\ u.objects[a] = [initial |-> InitialOf(ObjectOf(t, a)), current |-> account]

\* u differs from t in what is touched, accessed, journalled or cached only.
Quiet(t, u) == SameAccounts(t, u) /\ u.self_destructs = t.self_destructs

\* An account is what it is in the view.
LEMMA ViewFields ==
    ASSUME NEW t
    PROVE  /\ \A a \in Address : /\ View(t).objects[a] = ObjectOf(t, a)
                                 /\ View(t).slots[a] = Slots(t.db, ObjectOf(t, a), t.storage[a], a)
           /\ View(t).self_destructs = t.self_destructs
           /\ View(t).objects = [a \in Address |-> ObjectOf(t, a)]
BY DEF View

\* The current contents of an account are an account.
LEMMA AccountOfType ==
    ASSUME NEW t \in IntraBlockStateType, NEW a \in Address
    PROVE  /\ AccountOf(ObjectOf(t, a)) \in Account
           /\ InitialOf(ObjectOf(t, a)) \in Account \cup {None}
<1>1. ObjectOf(t, a) \in Object \cup {None}
  BY ObjectOfType
<1>2. QED BY <1>1, EmptyAccountType DEF AccountOf, InitialOf, Alive, Object

\* A new object for an account changes nothing else.
LEMMA SetObjectEffect ==
    ASSUME NEW v \in IntraBlockStateType, NEW d \in Delta, NEW a \in Address,
           NEW o \in Object \cup {None}, NEW u, u = WithObject(v, d, a, o)
    PROVE  /\ u.db = v.db /\ SameSubstate(v, u) /\ u.storage = v.storage /\ u.objects[a] = o
           /\ \A b \in Address \ {a} : u.objects[b] = v.objects[b]
BY ZenonT(60), SetObjectFields

\* get_or_create_object turns an account that does not exist into an empty one.
LEMMA GetOrCreateEffect ==
    ASSUME NEW t, NEW a \in Address, Good(t)
    PROVE  Rewrites(t, GetOrCreateObject(t, a), a, AccountOf(ObjectOf(t, a)))
<1> DEFINE v == GetObject(t, a)
           u == GetOrCreateObject(t, a)
           obj == ObjectOf(t, a)
<1>1. t \in IntraBlockStateType /\ obj \in Object \cup {None} /\ None \notin Object \cup Account
  BY ObjectOfType, ValuesAssumption DEF Good
<1>2. /\ v \in IntraBlockStateType /\ v.objects[a] = obj /\ v.db = t.db /\ v.storage = t.storage
      /\ SameSubstate(t, v)
      /\ \A b \in Address \ {a} : v.objects[b] = t.objects[b]
  BY <1>1 DEF GetObject, IntraBlockStateType, SameSubstate
<1>3. CASE obj = None
  <2> DEFINE d == CreateDelta(a)
             o == [initial |-> None, current |-> EmptyAccount]
  <2>1. d \in Delta
    BY DEF CreateDelta, Delta
  <2>2. u = WithObject(v, d, a, o) /\ o \in Object
    BY <1>2, <1>3, EmptyAccountType DEF GetOrCreateObject, Object, WithObject
  <2>3. AccountOf(obj) = EmptyAccount /\ InitialOf(obj) = None
    BY <1>3 DEF AccountOf, InitialOf, Alive
  <2> HIDE DEF d, v, obj
  <2>4. /\ u.db = v.db /\ SameSubstate(v, u) /\ u.storage = v.storage /\ u.objects[a] = o
        /\ \A b \in Address \ {a} : u.objects[b] = v.objects[b]
    <3>1. v \in IntraBlockStateType /\ d \in Delta /\ o \in Object \cup {None}
      BY <1>2, <2>1, <2>2
    <3>2. u = WithObject(v, d, a, o)
      BY <2>2
    <3> HIDE DEF o, u
    <3>3. QED BY SMTT(20), <3>1, <3>2, SetObjectEffect
  <2> HIDE DEF u, o
  <2>5. Rewrites(t, u, a, AccountOf(obj))
    BY <1>2, <2>3, <2>4 DEF Rewrites, SameSubstate, o, obj
  <2>6. QED BY <2>5 DEF u, obj
<1>4. CASE obj # None /\ obj.current = None
  <2> DEFINE d == UpdateDelta(a, v.objects[a])
             o == [v.objects[a] EXCEPT !.current = EmptyAccount]
  <2>1. d \in Delta
    BY <1>1, <1>2, <1>4 DEF UpdateDelta, Delta
  <2>2. u = WithObject(v, d, a, o)
    BY <1>2, <1>4 DEF GetOrCreateObject, WithObject, Journalled, IntraBlockStateType
  <2>3. o \in Object /\ o = [initial |-> InitialOf(obj), current |-> AccountOf(obj)]
    BY SMTT(30), <1>1, <1>2, <1>4, EmptyAccountType DEF Object, AccountOf, InitialOf, Alive
  <2> HIDE DEF d, v, obj, o
  <2>4. /\ u.db = v.db /\ SameSubstate(v, u) /\ u.storage = v.storage /\ u.objects[a] = o
        /\ \A b \in Address \ {a} : u.objects[b] = v.objects[b]
    <3>1. v \in IntraBlockStateType /\ d \in Delta /\ o \in Object \cup {None}
      BY <1>2, <2>1, <2>3
    <3> HIDE DEF u
    <3>2. QED BY SMTT(20), <2>2, <3>1, SetObjectEffect
  <2> HIDE DEF u
  <2>5. Rewrites(t, u, a, AccountOf(obj))
    BY <1>2, <2>3, <2>4 DEF Rewrites, SameSubstate, obj
  <2>6. QED BY <2>5 DEF u, obj
<1>5. CASE obj # None /\ obj.current # None
  <2>1. u = v
    BY <1>2, <1>5 DEF GetOrCreateObject
  <2>2. obj = [initial |-> InitialOf(obj), current |-> AccountOf(obj)]
    BY <1>1, <1>5 DEF Object, AccountOf, InitialOf, Alive
  <2> HIDE DEF u, v, obj
  <2>3. Rewrites(t, u, a, AccountOf(obj))
    BY <1>2, <2>1, <2>2 DEF Rewrites, SameSubstate, obj
  <2>4. QED BY <2>3 DEF u, obj
<1>6. QED BY <1>3, <1>4, <1>5

\* The assignment to obj.current in set_balance, set_nonce and set_code.
LEMMA SetCurrentEffect ==
    ASSUME NEW t, NEW v, NEW a \in Address, NEW old, NEW account \in Account, Good(v),
           v.objects[a] \in Object, Rewrites(t, v, a, old)
    PROVE  Rewrites(t, SetCurrent(v, a, account), a, account)
<1> DEFINE d == UpdateDelta(a, v.objects[a])
           o == [v.objects[a] EXCEPT !.current = account]
           u == SetCurrent(v, a, account)
<1>1. d \in Delta /\ o \in Object
  BY DEF UpdateDelta, Delta, Object
<1>2. o = [initial |-> InitialOf(ObjectOf(t, a)), current |-> account]
  BY SMTT(30) DEF Rewrites
<1>3. v \in IntraBlockStateType /\ u = WithObject(v, d, a, o)
  BY DEF SetCurrent, WithObject, Journalled, IntraBlockStateType, Good
<1> HIDE DEF d, o, u
<1>4. /\ u.db = v.db /\ SameSubstate(v, u) /\ u.storage = v.storage /\ u.objects[a] = o
      /\ \A b \in Address \ {a} : u.objects[b] = v.objects[b]
  <2>1. v \in IntraBlockStateType /\ d \in Delta /\ o \in Object \cup {None}
    BY <1>1, <1>3
  <2>2. QED BY SMTT(20), <1>3, <2>1, SetObjectEffect
<1>5. Rewrites(t, u, a, account)
  BY <1>2, <1>4 DEF Rewrites, SameSubstate
<1>6. QED BY <1>5 DEF u

\* touch changes no account.
LEMMA TouchQuiet ==
    ASSUME NEW t, NEW a \in Address, Good(t)
    PROVE  Quiet(t, Touch(t, a))
<1>1. t \in IntraBlockStateType /\ TouchDelta(a) \in Delta
  BY DEF Good, TouchDelta, Delta
<1>2. QED BY <1>1 DEF Quiet, SameAccounts, Touch, Journalled, IntraBlockStateType

\* access_account only marks the account.
LEMMA AccessAccountQuiet ==
    ASSUME NEW t, NEW a \in Address, Good(t)
    PROVE  Quiet(t, AccessAccount(t, a))
<1>1. t \in IntraBlockStateType
  BY DEF Good
<1>2. QED BY <1>1 DEF Quiet, SameAccounts, AccessAccount, Journalled, IntraBlockStateType

\* access_storage only marks the key.
LEMMA AccessStorageQuiet ==
    ASSUME NEW t, NEW a \in Address, NEW k \in Key, Good(t)
    PROVE  Quiet(t, AccessStorage(t, a, k))
<1>1. t \in IntraBlockStateType
  BY DEF Good
<1>2. QED BY <1>1 DEF Quiet, SameAccounts, AccessStorage, Journalled, IntraBlockStateType

\* record_suicide only marks the account.
LEMMA RecordSuicideQuiet ==
    ASSUME NEW t, NEW a \in Address, Good(t)
    PROVE  SameAccounts(t, RecordSuicide(t, a))
<1>1. t \in IntraBlockStateType
  BY DEF Good
<1>2. QED BY <1>1 DEF SameAccounts, RecordSuicide, Journalled, IntraBlockStateType

\* No account ceases to exist between t and u.
LivingKept(t, u) == \A a \in Address : Alive(ObjectOf(t, a)) => Alive(ObjectOf(u, a))

\* u is reached from t by operations of a running transaction.
Reaches(t, u) == Extends(t, u) /\ LivingKept(t, u)

\* Operations of a running transaction compose.
LEMMA ReachesTransitive ==
    ASSUME NEW t, NEW u, NEW v, Good(t), Reaches(t, u), Reaches(u, v)
    PROVE  Reaches(t, v) /\ Good(v)
<1>1. Extends(t, u) /\ Extends(u, v) /\ LivingKept(t, u) /\ LivingKept(u, v)
  BY DEF Reaches
<1>2. Extends(t, v)
  BY <1>1, ExtendsTransitive
<1>3. LivingKept(t, v)
  BY <1>1 DEF LivingKept
<1>4. QED BY <1>2, <1>3 DEF Reaches, Extends

\* What is not recorded in the accounts leaves them as they are.
LEMMA SameAccountsView ==
    ASSUME NEW t, NEW u, SameAccounts(t, u)
    PROVE  /\ View(u).objects = View(t).objects /\ View(u).slots = View(t).slots
           /\ \A a \in Address : ObjectOf(u, a) = ObjectOf(t, a)
           /\ LivingKept(t, u)
BY DEF SameAccounts, View, ObjectOf, LivingKept

\* What a method that rewrites one account does to what can be observed.
LEMMA RewritesView ==
    ASSUME NEW t \in IntraBlockStateType, NEW u, NEW a \in Address, NEW account \in Account,
           Rewrites(t, u, a, account)
    PROVE  /\ ObjectOf(u, a) = [initial |-> InitialOf(ObjectOf(t, a)), current |-> account]
           /\ Alive(ObjectOf(u, a)) /\ AccountOf(ObjectOf(u, a)) = account
           /\ \A b \in Address \ {a} : /\ ObjectOf(u, b) = ObjectOf(t, b)
                                       /\ View(u).slots[b] = View(t).slots[b]
           /\ Alive(ObjectOf(t, a)) /\ account.incarnation = AccountOf(ObjectOf(t, a)).incarnation
                => View(u).slots[a] = View(t).slots[a]
           /\ LivingKept(t, u)
<1> DEFINE o == [initial |-> InitialOf(ObjectOf(t, a)), current |-> account]
<1>1. None \notin Object /\ None \notin Account
  BY ValuesAssumption
<1>2. o \in Object
  BY AccountOfType DEF Object
<1>3. o.current = account /\ o.initial = InitialOf(ObjectOf(t, a))
  OBVIOUS
<1>4. u.objects[a] = o /\ u.db = t.db /\ u.storage = t.storage
  BY DEF Rewrites
<1> HIDE DEF o
<1>5. ObjectOf(u, a) = o
  BY <1>1, <1>2, <1>4 DEF ObjectOf
<1>6. Alive(o) /\ AccountOf(o) = account
  BY <1>1, <1>2, <1>3 DEF Alive, AccountOf
<1>7. \A b \in Address \ {a} : ObjectOf(u, b) = ObjectOf(t, b)
  BY DEF Rewrites, ObjectOf
<1>8. \A b \in Address \ {a} : View(u).slots[b] = View(t).slots[b]
  <2>1. ASSUME NEW b \in Address, b # a
        PROVE  View(u).slots[b] = View(t).slots[b]
    <3>1. /\ View(u).slots[b] = Slots(u.db, ObjectOf(u, b), u.storage[b], b)
          /\ View(t).slots[b] = Slots(t.db, ObjectOf(t, b), t.storage[b], b)
      BY ViewFields
    <3>2. QED BY <1>4, <1>7, <2>1, <3>1
  <2>2. QED BY <2>1
<1>9. ASSUME Alive(ObjectOf(t, a)), account.incarnation = AccountOf(ObjectOf(t, a)).incarnation
      PROVE  View(u).slots[a] = View(t).slots[a]
  <2>1. SameGeneration(o, ObjectOf(t, a))
    BY <1>3, <1>6, <1>9 DEF SameGeneration, AccountOf, InitialOf, Alive
  <2>2. /\ View(u).slots[a] = Slots(u.db, ObjectOf(u, a), u.storage[a], a)
        /\ View(t).slots[a] = Slots(t.db, ObjectOf(t, a), t.storage[a], a)
    BY ViewFields
  <2>3. Slots(t.db, o, t.storage[a], a) = Slots(t.db, ObjectOf(t, a), t.storage[a], a)
    BY SMTT(30), <2>1, SlotsOfGeneration
  <2>4. QED BY <1>4, <1>5, <2>2, <2>3
<1>10. LivingKept(t, u)
  BY <1>5, <1>6, <1>7 DEF LivingKept
<1>11. QED BY <1>5, <1>6, <1>7, <1>8, <1>9, <1>10 DEF o

\* A quiet method after one that rewrites an account.
LEMMA RewritesThenQuiet ==
    ASSUME NEW t, NEW u, NEW v, NEW a, NEW account, Rewrites(t, u, a, account), Quiet(u, v)
    PROVE  Rewrites(t, v, a, account)
BY DEF Rewrites, Quiet, SameAccounts

\* set_balance.
LEMMA SetBalanceEffect ==
    ASSUME NEW t, NEW a \in Address, NEW balance \in Uint, Good(t)
    PROVE  LET account == [AccountOf(ObjectOf(t, a)) EXCEPT !.balance = balance]
           IN /\ account \in Account
              /\ Rewrites(t, SetBalance(t, a, balance), a, account)
              /\ Reaches(t, SetBalance(t, a, balance))
<1> DEFINE old == AccountOf(ObjectOf(t, a))
           v == GetOrCreateObject(t, a)
           account == [old EXCEPT !.balance = balance]
           u == SetCurrent(v, a, account)
<1>1. t \in IntraBlockStateType /\ old \in Account
  BY AccountOfType DEF Good
<1>2. account \in Account
  BY <1>1 DEF Account
<1>3. /\ Extends(t, v) /\ Good(v) /\ v.objects[a] \in Object /\ Rewrites(t, v, a, old)
  BY GetOrCreateExtends, GetOrCreateEffect DEF Extends
<1>4. v.objects[a].current = old
  BY SMTT(30), <1>3 DEF Rewrites
<1>5. account.incarnation = old.incarnation
  BY <1>1 DEF Account
<1> HIDE DEF v, old, account
<1>6. Rewrites(t, u, a, account)
  BY <1>2, <1>3, SetCurrentEffect
<1>7. Good(u)
  BY <1>1, <1>2, <1>3, <1>4, <1>5, UpdateAccountExtends DEF Extends
<1> HIDE DEF u
<1>8. Rewrites(t, Touch(u, a), a, account)
  BY <1>6, <1>7, TouchQuiet, RewritesThenQuiet
<1>9. SetBalance(t, a, balance) = Touch(u, a)
  BY <1>4 DEF SetBalance, u, account, v
<1>10. Rewrites(t, SetBalance(t, a, balance), a, account)
  BY <1>8, <1>9
<1>11. LivingKept(t, SetBalance(t, a, balance))
  BY <1>1, <1>2, <1>10, RewritesView
<1>12. Reaches(t, SetBalance(t, a, balance))
  BY <1>11, SetBalanceExtends DEF Reaches
<1>13. QED BY <1>2, <1>10, <1>12 DEF account, old

\* set_nonce.
LEMMA SetNonceEffect ==
    ASSUME NEW t, NEW a \in Address, NEW nonce \in Nat, Good(t)
    PROVE  LET account == [AccountOf(ObjectOf(t, a)) EXCEPT !.nonce = nonce]
           IN /\ account \in Account
              /\ Rewrites(t, SetNonce(t, a, nonce), a, account)
              /\ Reaches(t, SetNonce(t, a, nonce))
<1> DEFINE old == AccountOf(ObjectOf(t, a))
           v == GetOrCreateObject(t, a)
           account == [old EXCEPT !.nonce = nonce]
           u == SetCurrent(v, a, account)
<1>1. t \in IntraBlockStateType /\ old \in Account
  BY AccountOfType DEF Good
<1>2. account \in Account
  BY <1>1 DEF Account
<1>3. /\ Extends(t, v) /\ Good(v) /\ v.objects[a] \in Object /\ Rewrites(t, v, a, old)
  BY GetOrCreateExtends, GetOrCreateEffect DEF Extends
<1>4. v.objects[a].current = old
  BY SMTT(30), <1>3 DEF Rewrites
<1> HIDE DEF v, old, account
<1>5. Rewrites(t, u, a, account)
  BY <1>2, <1>3, SetCurrentEffect
<1>6. SetNonce(t, a, nonce) = u
  BY <1>4 DEF SetNonce, u, account, v
<1> HIDE DEF u
<1>7. Rewrites(t, SetNonce(t, a, nonce), a, account)
  BY <1>5, <1>6
<1>8. LivingKept(t, SetNonce(t, a, nonce))
  BY <1>1, <1>2, <1>7, RewritesView
<1>9. Reaches(t, SetNonce(t, a, nonce))
  BY <1>8, SetNonceExtends DEF Reaches
<1>10. QED BY <1>2, <1>7, <1>9 DEF account, old

\* set_code.
LEMMA SetCodeReaches ==
    ASSUME NEW t, NEW a \in Address, NEW hash \in Code, Good(t)
    PROVE  Reaches(t, SetCode(t, a, hash))
<1> DEFINE old == AccountOf(ObjectOf(t, a))
           v == GetOrCreateObject(t, a)
           account == [old EXCEPT !.code_hash = hash]
           u == SetCurrent(v, a, account)
           w == SetCode(t, a, hash)
<1>1. t \in IntraBlockStateType /\ old \in Account
  BY AccountOfType DEF Good
<1>2. account \in Account /\ account.incarnation = old.incarnation
  BY <1>1 DEF Account
<1>3. /\ Extends(t, v) /\ Good(v) /\ v.objects[a] \in Object /\ Rewrites(t, v, a, old)
  BY GetOrCreateExtends, GetOrCreateEffect DEF Extends
<1>4. v.objects[a].current = old
  BY SMTT(30), <1>3 DEF Rewrites
<1> HIDE DEF v, old, account
<1>5. Rewrites(t, u, a, account)
  BY <1>2, <1>3, SetCurrentEffect
<1>6. Good(u)
  BY <1>1, <1>2, <1>3, <1>4, UpdateAccountExtends DEF Extends
<1>7. w = [u EXCEPT !.code = @ \cup {hash}]
  BY <1>4 DEF SetCode, u, account, v
<1> HIDE DEF u, w
<1>8. Quiet(u, w)
  BY <1>6, <1>7 DEF Quiet, SameAccounts, Good, IntraBlockStateType
<1>9. Rewrites(t, w, a, account)
  BY <1>5, <1>8, RewritesThenQuiet
<1>10. LivingKept(t, w)
  BY <1>1, <1>2, <1>9, RewritesView
<1>11. QED BY <1>10, SetCodeExtends DEF Reaches, w

\* The methods that change no account.
LEMMA QuietReaches ==
    ASSUME NEW t, NEW a \in Address, Good(t)
    PROVE  /\ Reaches(t, Touch(t, a)) /\ Reaches(t, AccessAccount(t, a))
           /\ Reaches(t, RecordSuicide(t, a))
           /\ \A k \in Key : Reaches(t, AccessStorage(t, a, k))
<1>1. LivingKept(t, Touch(t, a)) /\ LivingKept(t, AccessAccount(t, a))
  BY TouchQuiet, AccessAccountQuiet, SameAccountsView DEF Quiet
<1>2. LivingKept(t, RecordSuicide(t, a))
  BY RecordSuicideQuiet, SameAccountsView
<1>3. \A k \in Key : LivingKept(t, AccessStorage(t, a, k))
  BY AccessStorageQuiet, SameAccountsView DEF Quiet
<1>4. Extends(t, Touch(t, a)) /\ Extends(t, AccessAccount(t, a)) /\ Extends(t, RecordSuicide(t, a))
  BY TouchExtends, AccessAccountExtends, RecordSuicideExtends
<1>5. \A k \in Key : Extends(t, AccessStorage(t, a, k))
  BY AccessStorageExtends
<1>6. QED BY <1>1, <1>2, <1>3, <1>4, <1>5 DEF Reaches

\* add_to_balance and subtract_from_balance.
LEMMA BalanceReaches ==
    ASSUME NEW t, NEW a \in Address, NEW n \in Nat, Good(t)
    PROVE  /\ Reaches(t, AddToBalance(t, a, n)) /\ Good(AddToBalance(t, a, n))
           /\ Reaches(t, SubtractFromBalance(t, a, n)) /\ Good(SubtractFromBalance(t, a, n))
<1>1. Balance(t, a) \in Uint
  BY BalanceType DEF Good
<1>2. (Balance(t, a) + n) % UintMod \in Uint /\ (Balance(t, a) - n) % UintMod \in Uint
  BY SMTT(30), <1>1, WidthAssumption DEF Uint
<1>3. /\ Reaches(t, SetBalance(t, a, (Balance(t, a) + n) % UintMod))
      /\ Reaches(t, SetBalance(t, a, (Balance(t, a) - n) % UintMod))
  BY <1>2, SetBalanceEffect
<1>4. QED BY <1>3 DEF AddToBalance, SubtractFromBalance, Reaches, Extends

\* The value of a call.
LEMMA TransferReaches ==
    ASSUME NEW t, NEW from \in Address, NEW to \in Address, NEW value \in Nat, Good(t)
    PROVE  Reaches(t, Transfer(t, from, to, value)) /\ Good(Transfer(t, from, to, value))
<1> DEFINE u == SubtractFromBalance(t, from, value)
<1>1. Reaches(t, u) /\ Good(u)
  BY BalanceReaches
<1> HIDE DEF u
<1>2. Reaches(u, AddToBalance(u, to, value))
  BY <1>1, BalanceReaches
<1>3. Reaches(t, AddToBalance(u, to, value)) /\ Good(AddToBalance(u, to, value))
  BY <1>1, <1>2, ReachesTransitive
<1>4. QED BY <1>3 DEF Transfer, u

\* create_contract makes the contract exist.
LEMMA CreateContractReaches ==
    ASSUME NEW t, NEW a \in Address, Good(t), PrevIncarnation(t, a) < MaxIncarnation
    PROVE  /\ Reaches(t, CreateContract(t, a)) /\ Good(CreateContract(t, a))
           /\ Alive(ObjectOf(CreateContract(t, a), a))
<1> DEFINE prev == ObjectOf(t, a)
           account == [EmptyAccount EXCEPT !.balance = Balance(t, a),
                                           !.incarnation = PrevIncarnation(t, a) + 1]
           created == [initial |-> InitialOf(prev), current |-> account]
           u == CreateContract(t, a)
<1>1. t \in IntraBlockStateType /\ prev \in Object \cup {None}
  BY ObjectOfType DEF Good
<1>2. account \in Account
  <2>1. Balance(t, a) \in Uint /\ PrevIncarnation(t, a) + 1 \in Incarnation
    BY SMTT(30), <1>1, BalanceType, PrevIncarnationType, WidthAssumption DEF Incarnation
  <2>2. QED BY <2>1, EmptyAccountType DEF Account
<1>3. u.db = t.db /\ u.objects = [t.objects EXCEPT ![a] = created]
  <2> HIDE DEF account
  <2>1. created = [initial |-> IF prev = None THEN None ELSE prev.initial, current |-> account]
    BY DEF InitialOf
  <2> HIDE DEF created, prev
  <2>2. u = [Journalled([Journalled(GetObject(t, a), IF prev = None THEN CreateDelta(a)
                                                      ELSE UpdateDelta(a, prev))
                           EXCEPT !.objects[a] = created],
                        IF t.storage[a] = None THEN StorageCreateDelta(a)
                        ELSE StorageWipeDelta(a, t.storage[a])) EXCEPT !.storage[a] = None]
    BY <1>1, <2>1 DEF CreateContract, account, prev, GetObject, Journalled, IntraBlockStateType
  <2>3. t.objects \in [Address -> Object \cup {None}]
    BY <1>1 DEF IntraBlockStateType
  <2>4. QED BY SMTT(30), <1>1, <2>2, <2>3 DEF GetObject, Journalled, IntraBlockStateType
<1>4. t.objects \in [Address -> Object \cup {None}]
  BY <1>1 DEF IntraBlockStateType
<1>5. created \in Object /\ created.current = account
  BY <1>1, <1>2, AccountOfType DEF Object
<1> HIDE DEF u, created, account
<1>6. u.objects[a] = created /\ \A b \in Address \ {a} : u.objects[b] = t.objects[b]
  BY <1>3, <1>4
<1>7. ObjectOf(u, a) = created /\ Alive(created)
  BY <1>2, <1>5, <1>6, ValuesAssumption DEF ObjectOf, Alive
<1>8. \A b \in Address \ {a} : ObjectOf(u, b) = ObjectOf(t, b)
  BY <1>3, <1>6 DEF ObjectOf
<1>9. LivingKept(t, u)
  BY <1>7, <1>8 DEF LivingKept
<1>10. Extends(t, u)
  BY CreateContractExtends DEF u
<1>11. QED BY <1>7, <1>9, <1>10 DEF Reaches, Extends, u

\* Reading or writing a slot leaves the accounts as they are.
LEMMA StorageReaches ==
    ASSUME NEW t, NEW a \in Address, NEW k \in Key, NEW value \in Value, Good(t)
    PROVE  /\ Reaches(t, GetStorage(t, a, k, FALSE))
           /\ Alive(ObjectOf(t, a)) => Reaches(t, SetStorage(t, a, k, value))
<1> DEFINE u == GetStorage(t, a, k, FALSE)
           w == SetStorage(t, a, k, value)
<1>1. t \in IntraBlockStateType /\ t.objects \in [Address -> Object \cup {None}]
  BY DEF Good, IntraBlockStateType
<1>2. Extends(t, u)
  <2>1. FALSE \in BOOLEAN
    OBVIOUS
  <2>2. QED BY <2>1, GetStorageExtends
<1>3. u.objects = [t.objects EXCEPT ![a] = ObjectOf(t, a)] /\ u.db = t.db
  BY <1>1 DEF GetStorage, GetObject, IntraBlockStateType
<1>4. w.objects = u.objects /\ w.db = u.db
  <2>1. u \in IntraBlockStateType
    BY <1>2 DEF Extends, Good
  <2> HIDE DEF u
  <2>2. \/ w = u
        \/ \E d, b, x : w = [Journalled(u, d) EXCEPT !.storage[b] = x]
    BY DEF SetStorage, u
  <2>3. QED BY <2>1, <2>2 DEF Journalled, IntraBlockStateType
<1> HIDE DEF u, w
<1>5. /\ u.objects[a] = ObjectOf(t, a) /\ w.objects[a] = ObjectOf(t, a)
      /\ \A b \in Address \ {a} : u.objects[b] = t.objects[b] /\ w.objects[b] = t.objects[b]
  BY <1>1, <1>3, <1>4
<1>6. \A b \in Address : ObjectOf(u, b) = ObjectOf(t, b) /\ ObjectOf(w, b) = ObjectOf(t, b)
  BY <1>3, <1>4, <1>5 DEF ObjectOf
<1>7. LivingKept(t, u) /\ LivingKept(t, w)
  BY <1>6 DEF LivingKept
<1>8. Alive(ObjectOf(t, a)) => Extends(t, w)
  BY SetStorageExtends DEF w
<1>9. QED BY <1>2, <1>7, <1>8 DEF Reaches, u, w

\* A state is reached from itself.
LEMMA ReachesReflexive ==
    ASSUME NEW t, Good(t)
    PROVE  Reaches(t, t)
<1>1. t \in IntraBlockStateType
  BY DEF Good
<1>2. QED BY <1>1, QuietExtends DEF Reaches, LivingKept

\* The refund counter is no part of the view.
LEMMA RefundReaches ==
    ASSUME NEW t, NEW refund \in Uint, Good(t)
    PROVE  Reaches(t, [t EXCEPT !.refund = refund])
<1> DEFINE u == [t EXCEPT !.refund = refund]
<1>1. t \in IntraBlockStateType
  BY DEF Good
<1>2. /\ u \in IntraBlockStateType /\ SameAccounts(t, u) /\ u.logs = t.logs /\ u.journal = t.journal
      /\ u.self_destructs = t.self_destructs /\ u.touched = t.touched
      /\ u.accessed_addresses = t.accessed_addresses
      /\ u.accessed_storage_keys = t.accessed_storage_keys
  BY <1>1 DEF IntraBlockStateType, SameAccounts
<1> HIDE DEF u
<1>3. View(u) = View(t)
  BY <1>2, ViewOfSubstate DEF View
<1>4. Extends(t, u)
  BY <1>2, <1>3, QuietExtends DEF SameAccounts
<1>5. LivingKept(t, u)
  BY <1>2, SameAccountsView
<1>6. QED BY <1>4, <1>5 DEF Reaches, u

\* EvmHost::set_storage.
LEMMA HostSetStorageReaches ==
    ASSUME NEW t, NEW r, NEW a \in Address, NEW k \in Key, NEW new \in Value, Good(t),
           Alive(ObjectOf(t, a))
    PROVE  Reaches(t, HostSetStorage(t, r, a, k, new))
<1> DEFINE obj == ObjectOf(t, a)
           current == CurrentValue(t.db, obj, t.storage[a], a, k)
           original == OriginalValue(t.db, obj, t.storage[a], a, k)
           refund == IF Eip1283(r) THEN RefundChange(r, original, current, new)
                     ELSE IF current # Zero /\ new = Zero THEN kRSClear ELSE 0
           u == SetStorage(t, a, k, new)
<1>1. CASE current = new
  <2>1. HostSetStorage(t, r, a, k, new) = GetStorage(t, a, k, FALSE)
    BY <1>1 DEF HostSetStorage
  <2>2. QED BY <2>1, StorageReaches
<1>2. CASE current # new
  <2>1. refund \in Int
    BY SMTT(30) DEF RefundChange, SstoreClearsRefund, SstoreResetGas, SloadCost, kGSReset, kColdSloadCost,
           kAccessListStorageKeyCost, kRSClear, kGSSet, kWarmStorageReadCost, kGSLoadIstanbul,
           kGSLoadTangerineWhistle
  <2>2. Reaches(t, u) /\ Good(u)
    BY StorageReaches DEF Reaches, Extends
  <2>3. HostSetStorage(t, r, a, k, new) = [u EXCEPT !.refund = (u.refund + refund) % UintMod]
    BY <1>2 DEF HostSetStorage
  <2> HIDE DEF u, refund
  <2>4. u.refund \in Uint
    BY <2>2, GoodFields DEF Good
  <2>5. (u.refund + refund) % UintMod \in Uint
    BY SMTT(30), <2>1, <2>4, WidthAssumption DEF Uint
  <2>6. Reaches(u, [u EXCEPT !.refund = (u.refund + refund) % UintMod])
    BY <2>2, <2>5, RefundReaches
  <2>7. QED BY <2>2, <2>3, <2>6, ReachesTransitive
<1>3. QED BY <1>1, <1>2

\* EvmHost::selfdestruct.
LEMMA HostSelfdestructReaches ==
    ASSUME NEW t, NEW a \in Address, NEW beneficiary \in Address, Good(t)
    PROVE  /\ Reaches(t, HostSelfdestruct(t, a, beneficiary))
           /\ Good(HostSelfdestruct(t, a, beneficiary))
<1> DEFINE u == RecordSuicide(t, a)
           v == AddToBalance(u, beneficiary, Balance(t, a))
           w == SetBalance(v, a, 0)
<1>1. Balance(t, a) \in Nat
  BY SMTT(30), BalanceType DEF Good, Uint
<1>2. 0 \in Uint
  BY SMTT(30), WidthAssumption DEF Uint
<1>3. Reaches(t, u) /\ Good(u)
  BY QuietReaches DEF Reaches, Extends
<1> HIDE DEF u
<1>4. Reaches(u, v) /\ Good(v)
  BY <1>1, <1>3, BalanceReaches
<1> HIDE DEF v
<1>5. Reaches(v, w)
  BY <1>2, <1>4, SetBalanceEffect
<1> HIDE DEF w
<1>6. Reaches(t, v)
  BY <1>3, <1>4, ReachesTransitive
<1>7. Reaches(t, w) /\ Good(w)
  BY <1>5, <1>6, ReachesTransitive
<1>8. QED BY <1>7 DEF HostSelfdestruct, u, v, w

\* EvmHost::access_account.
LEMMA HostAccessAccountReaches ==
    ASSUME NEW t, NEW r, NEW a \in Address, Good(t)
    PROVE  /\ Reaches(t, HostAccessAccount(t, r, a)) /\ Good(HostAccessAccount(t, r, a))
           /\ SameAccounts(t, HostAccessAccount(t, r, a))
<1>1. Reaches(t, AccessAccount(t, a)) /\ SameAccounts(t, AccessAccount(t, a))
  BY QuietReaches, AccessAccountQuiet DEF Quiet
<1>2. Reaches(t, t) /\ SameAccounts(t, t)
  BY ReachesReflexive DEF SameAccounts
<1>3. QED BY <1>1, <1>2 DEF HostAccessAccount, Reaches, Extends

-----------------------------------------------------------------------------
(***************************************************************************)
(* EVM::call and EVM::create, up to the interpreter and after it.          *)
(***************************************************************************)

\* The message of a call made while the state is t.
CallMessage(t, msg) ==
    /\ msg.kind \in {"call", "callcode", "delegatecall"} /\ msg.static \in BOOLEAN
    /\ msg.sender \in Address /\ msg.destination \in Address
    /\ msg.value \in Nat /\ msg.gas \in Nat
    /\ msg.kind = "callcode" => Alive(ObjectOf(t, msg.sender))
    /\ msg.kind = "delegatecall" => msg.top \in Address /\ Alive(ObjectOf(t, msg.top))

\* The value a call moves; a static call and the calls that only borrow code
\* change no account.
LEMMA CallTransferReaches ==
    ASSUME NEW t, NEW msg, Good(t), CallMessage(t, msg)
    PROVE  /\ Reaches(t, CallTransfer(t, msg)) /\ Good(CallTransfer(t, msg))
           /\ msg.static \/ msg.kind # "call" => SameAccounts(t, CallTransfer(t, msg))
<1>1. CASE msg.kind # "call"
  BY <1>1, ReachesReflexive DEF CallTransfer, SameAccounts
<1>2. CASE msg.kind = "call" /\ msg.static
  <2>1. CallTransfer(t, msg) = Touch(t, msg.destination) /\ msg.destination \in Address
    BY <1>2 DEF CallTransfer, CallMessage
  <2>2. Reaches(t, Touch(t, msg.destination)) /\ Quiet(t, Touch(t, msg.destination))
    BY <2>1, QuietReaches, TouchQuiet
  <2>3. QED BY <2>1, <2>2 DEF Quiet, Reaches, Extends
<1>3. CASE msg.kind = "call" /\ ~msg.static
  <2>1. CallTransfer(t, msg) = Transfer(t, msg.sender, msg.destination, msg.value)
    BY <1>3 DEF CallTransfer
  <2>2. QED BY <1>3, <2>1, TransferReaches DEF CallMessage
<1>4. QED BY <1>1, <1>2, <1>3

\* The gas a result of EVM::call or EVM::create gives back, and that a failure
\* leaves what can be observed as it was.
Settled(t, o, gas) ==
    /\ o.frame = None /\ o.status \in StatusCode /\ o.gas \in 0 .. gas
    /\ o.status # "success" => View(o.s) = View(t)

\* The frame that EVM::call enters.
Entered(t, o, msg) ==
    /\ o.frame \in FrameType
    /\ o.frame.snapshot = TakeSnapshot(t) /\ o.frame.gas = msg.gas
    /\ o.frame.static = msg.static /\ o.frame.contract = None
    /\ Alive(ObjectOf(o.s, o.frame.self))

\* EVM::call, up to the interpreter.
LEMMA CallOutcome ==
    ASSUME NEW t, NEW r, NEW msg, NEW p \in [gas: Nat, ok: BOOLEAN], Good(t), CallMessage(t, msg)
    PROVE  LET o == Call(t, r, msg, p)
           IN /\ Reaches(t, o.s) /\ Good(o.s)
              /\ msg.static \/ msg.kind # "call" => View(o.s).objects = View(t).objects
              /\ o.frame = None => Settled(t, o, msg.gas)
              /\ o.frame # None => Entered(t, o, msg)
<1> DEFINE o == Call(t, r, msg, p)
           c == CallTransfer(t, msg)
           snapshot == TakeSnapshot(t)
           status == IF p.gas > msg.gas THEN "out_of_gas" ELSE "precompile_failure"
           f == Frame(Recipient(msg), msg, msg.static, snapshot, None)
           back == RevertToSnapshot(c, snapshot)
<1>1. /\ Reaches(t, c) /\ Good(c)
      /\ msg.static \/ msg.kind # "call" => SameAccounts(t, c)
  BY CallTransferReaches
<1>2. /\ msg.kind \in {"call", "callcode", "delegatecall"} /\ msg.static \in BOOLEAN
      /\ msg.sender \in Address /\ msg.destination \in Address
      /\ msg.value \in Nat /\ msg.gas \in Nat /\ p.gas \in Nat
  BY DEF CallMessage
<1>3. \/ o = Result(t, "insufficient_balance", msg.gas)
      \/ o = Result(t, "success", msg.gas)
      \/ p.gas <= msg.gas /\ o = Result(c, "success", msg.gas - p.gas)
      \/ o = Failed(c, snapshot, status, msg.gas)
      \/ o = Result(c, "success", msg.gas)
      \/ o = Enter(c, f) /\ CodeHash(c, msg.destination) # EmptyHash
  BY DEF Call
<1> HIDE DEF o, c
<1>4. Reaches(t, t)
  BY ReachesReflexive
<1>5. msg.static \/ msg.kind # "call" => View(c).objects = View(t).objects
  BY <1>1, SameAccountsView
<1>6. CASE o = Result(t, "insufficient_balance", msg.gas)
  <2>1. o.s = t /\ o.frame = None /\ o.status = "insufficient_balance" /\ o.gas = msg.gas
    BY <1>6 DEF Result
  <2>2. o.gas \in 0 .. msg.gas /\ o.status \in StatusCode
    BY SMTT(30), <1>2, <2>1 DEF StatusCode, Status
  <2>3. QED BY <1>4, <2>1, <2>2 DEF Settled, o
<1>7. CASE o = Result(t, "success", msg.gas)
  <2>1. o.s = t /\ o.frame = None /\ o.status = "success" /\ o.gas = msg.gas
    BY <1>7 DEF Result
  <2>2. o.gas \in 0 .. msg.gas /\ o.status \in StatusCode
    BY SMTT(30), <1>2, <2>1 DEF StatusCode, Status
  <2>3. QED BY <1>4, <2>1, <2>2 DEF Settled, o
<1>8. CASE p.gas <= msg.gas /\ o = Result(c, "success", msg.gas - p.gas)
  <2>1. o.s = c /\ o.frame = None /\ o.status = "success" /\ o.gas = msg.gas - p.gas
    BY <1>8 DEF Result
  <2>2. o.gas \in 0 .. msg.gas /\ o.status \in StatusCode
    BY SMTT(30), <1>2, <1>8, <2>1 DEF StatusCode, Status
  <2>3. QED BY <1>1, <1>5, <2>1, <2>2 DEF Settled, o
<1>9. CASE o = Failed(c, snapshot, status, msg.gas)
  <2>1. /\ o.s = back /\ o.frame = None /\ o.status = status
        /\ o.gas = IF status = "revert" THEN msg.gas ELSE 0
    BY <1>9 DEF Failed, Result
  <2>2. o.gas \in 0 .. msg.gas /\ o.status \in StatusCode
    BY SMTT(30), <1>2, <2>1 DEF StatusCode, Status
  <2>3. Extends(t, back) /\ View(back) = View(t)
    BY <1>1, RevertedAtOnce DEF Reaches
  <2>4. LivingKept(t, back)
    <3>1. \A a \in Address : ObjectOf(back, a) = View(back).objects[a] /\ ObjectOf(t, a) = View(t).objects[a]
      BY ViewFields
    <3>2. QED BY <2>3, <3>1 DEF LivingKept
  <2> HIDE DEF back
  <2>5. QED BY <2>1, <2>2, <2>3, <2>4 DEF Settled, Reaches, Extends, o
<1>10. CASE o = Result(c, "success", msg.gas)
  <2>1. o.s = c /\ o.frame = None /\ o.status = "success" /\ o.gas = msg.gas
    BY <1>10 DEF Result
  <2>2. o.gas \in 0 .. msg.gas /\ o.status \in StatusCode
    BY SMTT(30), <1>2, <2>1 DEF StatusCode, Status
  <2>3. QED BY <1>1, <1>5, <2>1, <2>2 DEF Settled, o
<1>11. CASE o = Enter(c, f) /\ CodeHash(c, msg.destination) # EmptyHash
  <2>1. o.s = c /\ o.frame = f
    BY <1>11 DEF Enter
  <2>2. Alive(ObjectOf(c, msg.destination))
    BY <1>11 DEF CodeHash, Exists
  <2>3. Recipient(msg) \in Address /\ Alive(ObjectOf(c, Recipient(msg)))
    <3>1. CASE msg.kind = "callcode"
      BY <1>1, <1>2, <3>1 DEF Recipient, CallMessage, Reaches, LivingKept
    <3>2. CASE msg.kind = "delegatecall"
      BY <1>1, <1>2, <3>2 DEF Recipient, CallMessage, Reaches, LivingKept
    <3>3. CASE msg.kind = "call"
      BY <1>2, <2>2, <3>3 DEF Recipient
    <3>4. QED BY <1>2, <3>1, <3>2, <3>3
  <2>4. snapshot \in Snapshot
    BY TakenUsable
  <2> HIDE DEF snapshot
  <2>5. /\ f \in FrameType /\ f.self = Recipient(msg) /\ f.snapshot = snapshot
        /\ f.gas = msg.gas /\ f.static = msg.static /\ f.contract = None
    BY <1>2, <2>3, <2>4 DEF Frame, FrameType
  <2>6. o.frame # None
    BY <2>1, <2>5, EvmAssumption
  <2> HIDE DEF f
  <2>7. QED BY <1>1, <1>5, <2>1, <2>3, <2>5, <2>6 DEF Entered, o, snapshot
<1>12. QED BY <1>3, <1>6, <1>7, <1>8, <1>9, <1>10, <1>11

\* The nonce of an existing account, or 0.
LEMMA NonceType ==
    ASSUME NEW t \in IntraBlockStateType, NEW a \in Address
    PROVE  /\ Nonce(t, a) \in Nat /\ Nonce(t, a) = AccountOf(ObjectOf(t, a)).nonce
           /\ Balance(t, a) \in Uint /\ Balance(t, a) = AccountOf(ObjectOf(t, a)).balance
<1>1. AccountOf(ObjectOf(t, a)) \in Account
  BY AccountOfType
<1>2. Nonce(t, a) = AccountOf(ObjectOf(t, a)).nonce
  BY DEF Nonce, Exists, AccountOf, EmptyAccount
<1>3. Balance(t, a) = AccountOf(ObjectOf(t, a)).balance
  BY DEF Balance, Exists, AccountOf, EmptyAccount
<1>4. QED BY <1>1, <1>2, <1>3 DEF Account

\* The frame that EVM::create enters from the state v, where the creator's
\* nonce has been used and the address is accessed.
Deploying(v, o, msg, a) ==
    /\ Reaches(v, o.s) /\ Good(o.s)
    /\ o.frame \in FrameType
    /\ o.frame.snapshot = TakeSnapshot(v) /\ o.frame.gas = msg.gas
    /\ o.frame.static = FALSE /\ o.frame.contract = a /\ o.frame.self = a
    /\ Alive(ObjectOf(o.s, a))

\* EVM::create, up to the interpreter.
LEMMA CreateOutcome ==
    ASSUME NEW t, NEW r, NEW msg, NEW a \in Address, Good(t),
           msg.sender \in Address, msg.value \in Nat, msg.gas \in Nat,
           a = ContractAddress(t, msg),
           PrevIncarnation(CreateBegin(t, msg, a), a) < MaxIncarnation
    PROVE  LET o == Create(t, r, msg)
               v == CreateBegin(t, msg, a)
           IN /\ Reaches(t, v) /\ Good(v)
              /\ \/ /\ o = Result(t, "insufficient_balance", msg.gas)
                    /\ Balance(t, msg.sender) < msg.value
                 \/ o = Result(v, "invalid_instruction", 0)
                 \/ o.frame # None /\ Deploying(v, o, msg, a)
<1> DEFINE o == Create(t, r, msg)
           n == SetNonce(t, msg.sender, Nonce(t, msg.sender) + 1)
           v == CreateBegin(t, msg, a)
<1>1. Nonce(t, msg.sender) + 1 \in Nat
  <2>1. Nonce(t, msg.sender) \in Nat
    BY NonceType DEF Good
  <2>2. QED BY SMTT(30), <2>1
<1>2. Reaches(t, n) /\ Good(n)
  BY <1>1, SetNonceEffect DEF Reaches, Extends
<1>3. v = AccessAccount(n, a)
  BY DEF CreateBegin
<1> HIDE DEF n
<1>4. Reaches(t, v) /\ Good(v)
  <2>1. Reaches(n, AccessAccount(n, a))
    BY <1>2, QuietReaches
  <2>2. QED BY <1>2, <1>3, <2>1, ReachesTransitive
<1>5. \/ o = Result(t, "insufficient_balance", msg.gas) /\ Balance(t, msg.sender) < msg.value
      \/ o = Result(v, "invalid_instruction", 0)
      \/ o = CreateFrame(v, r, msg, a)
  BY DEF Create
<1>6. ASSUME o = CreateFrame(v, r, msg, a) PROVE o.frame # None /\ Deploying(v, o, msg, a)
  <2> DEFINE created == CreateContract(v, a)
             nonced == IF r >= SPURIOUS_DRAGON THEN SetNonce(created, a, 1) ELSE created
             w == Transfer(nonced, msg.sender, a, msg.value)
             f == Frame(a, msg, FALSE, TakeSnapshot(v), a)
  <2>1. o.s = w /\ o.frame = f
    BY SMTT(30), <1>6 DEF CreateFrame, Enter
  <2>2. PrevIncarnation(v, a) < MaxIncarnation
    OBVIOUS
  <2> HIDE DEF v, o
  <2>3. Reaches(v, created) /\ Good(created) /\ Alive(ObjectOf(created, a))
    BY <1>4, <2>2, CreateContractReaches
  <2> HIDE DEF created
  <2>4. Reaches(created, nonced)
    <3>1. 1 \in Nat
      OBVIOUS
    <3>2. Reaches(created, SetNonce(created, a, 1))
      BY <2>3, <3>1, SetNonceEffect
    <3>3. QED BY <2>3, <3>2, ReachesReflexive
  <2> HIDE DEF nonced
  <2>5. Reaches(v, nonced) /\ Good(nonced)
    BY <1>4, <2>3, <2>4, ReachesTransitive
  <2>6. Reaches(nonced, w)
    BY <2>5, TransferReaches
  <2> HIDE DEF w
  <2>7. Reaches(v, w) /\ Good(w)
    BY <1>4, <2>5, <2>6, ReachesTransitive
  <2>8. Alive(ObjectOf(w, a))
    BY <2>3, <2>4, <2>6 DEF Reaches, LivingKept
  <2> DEFINE snapshot == TakeSnapshot(v)
  <2>9. snapshot \in Snapshot
    BY <1>4, TakenUsable
  <2> HIDE DEF snapshot
  <2>10. /\ f \in FrameType /\ f.self = a /\ f.snapshot = snapshot
         /\ f.gas = msg.gas /\ f.static = FALSE /\ f.contract = a
    BY <2>9 DEF Frame, FrameType, snapshot
  <2>11. o.frame # None
    BY <2>1, <2>10, EvmAssumption
  <2> HIDE DEF f
  <2>12. QED BY <2>1, <2>7, <2>8, <2>10, <2>11 DEF Deploying, snapshot
<1>7. QED BY <1>4, <1>5, <1>6

\* The rest of EVM::call and EVM::create, when the interpreter returns.
LEMMA ReturnedOutcome ==
    ASSUME NEW t, NEW r, NEW f \in FrameType, NEW status \in Status, NEW gas \in Nat,
           NEW code \in Code, Good(t)
    PROVE  LET o == Returned(t, r, f, status, gas, code)
           IN /\ o.frame = None /\ o.status \in StatusCode /\ o.gas \in 0 .. gas
              /\ \/ /\ o.status = "success" /\ Reaches(t, o.s)
                    /\ f.contract = None => o.s = t
                 \/ /\ o.status # "success" /\ o.s = RevertToSnapshot(t, f.snapshot)
<1> DEFINE o == Returned(t, r, f, status, gas, code)
           deploy == CodeLength[code] * kGCodeDeposit
           back == RevertToSnapshot(t, f.snapshot)
           w == SetCode(t, f.contract, code)
<1>1. \/ /\ status # "success"
         /\ o = Result(back, status, IF status = "revert" THEN gas ELSE 0)
      \/ o = Result(back, "out_of_gas", 0)
      \/ status = "success" /\ o = Result(t, status, gas)
      \/ o = Result(t, "success", gas)
      \/ f.contract # None /\ gas >= deploy /\ o = Result(w, "success", gas - deploy)
  BY DEF Returned, Deposit, Failed
<1>2. CodeLength[code] \in Nat
  BY EvmAssumption
<1>3. deploy \in Nat
  BY SMTT(30), <1>2 DEF kGCodeDeposit
<1> HIDE DEF o, deploy, back
<1>4. CASE /\ status # "success"
           /\ o = Result(back, status, IF status = "revert" THEN gas ELSE 0)
  <2>1. /\ o.s = back /\ o.frame = None /\ o.status = status /\ o.gas \in {0, gas}
    BY <1>4 DEF Result
  <2>2. o.gas \in 0 .. gas /\ o.status \in StatusCode
    BY SMTT(30), <2>1 DEF StatusCode
  <2>3. QED BY <1>4, <2>1, <2>2 DEF o, back
<1>5. CASE o = Result(back, "out_of_gas", 0)
  <2>1. /\ o.s = back /\ o.frame = None /\ o.status = "out_of_gas" /\ o.gas = 0
    BY <1>5 DEF Result
  <2>2. o.gas \in 0 .. gas /\ o.status \in StatusCode /\ o.status # "success"
    BY SMTT(30), <2>1 DEF StatusCode
  <2>3. QED BY <2>1, <2>2 DEF o, back
<1>6. CASE o = Result(t, "success", gas)
  <2>1. /\ o.s = t /\ o.frame = None /\ o.status = "success" /\ o.gas = gas
    BY <1>6 DEF Result
  <2>2. o.gas \in 0 .. gas /\ o.status \in StatusCode
    BY SMTT(30), <2>1 DEF StatusCode, Status
  <2>3. QED BY <2>1, <2>2, ReachesReflexive DEF o
<1>7. CASE f.contract # None /\ gas >= deploy /\ o = Result(w, "success", gas - deploy)
  <2>1. /\ o.s = w /\ o.frame = None /\ o.status = "success" /\ o.gas = gas - deploy
    BY <1>7 DEF Result
  <2>2. o.gas \in 0 .. gas /\ o.status \in StatusCode
    BY SMTT(30), <1>3, <1>7, <2>1 DEF StatusCode, Status
  <2>3. f.contract \in Address
    BY <1>7 DEF FrameType
  <2>4. Reaches(t, w)
    BY <2>3, SetCodeReaches
  <2> HIDE DEF w
  <2>5. QED BY <1>7, <2>1, <2>2, <2>4 DEF o
<1>8. QED BY <1>1, <1>4, <1>5, <1>6, <1>7

-----------------------------------------------------------------------------
(***************************************************************************)
(* The frames of a transaction.                                            *)
(***************************************************************************)

\* A running frame can be reverted, and the account it runs as exists; a static
\* one creates no contract, and no account has changed since it was entered.
FrameOK(t, f) ==
    /\ Usable(t, f.snapshot)
    /\ Alive(ObjectOf(t, f.self))
    /\ f.static => /\ f.contract = None
                   /\ ViewAt(t, f.snapshot.journal_size).objects = View(t).objects

\* Frame g runs inside frame f, whose account existed when g was entered.
NestedIn(t, f, g) ==
    /\ f.snapshot.journal_size <= g.snapshot.journal_size
    /\ f.snapshot.log_size <= g.snapshot.log_size
    /\ Alive(ViewAt(t, g.snapshot.journal_size).objects[f.self])
    /\ f.static => g.static

Nested(t, fs) ==
    /\ fs \in Seq(FrameType)
    /\ \A i \in 1 .. Len(fs) : FrameOK(t, fs[i])
    /\ \A i \in 1 .. Len(fs) : \A j \in 1 .. Len(fs) : i < j => NestedIn(t, fs[i], fs[j])

\* The fields of a frame.
LEMMA FrameFields ==
    ASSUME NEW f \in FrameType
    PROVE  /\ f.self \in Address /\ f.sender \in Address /\ f.value \in Nat /\ f.static \in BOOLEAN
           /\ f.gas \in Nat /\ f.snapshot \in Snapshot /\ f.contract \in Address \cup {None}
           /\ f.snapshot.journal_size \in Nat /\ f.snapshot.log_size \in Nat
BY DEF FrameType, Snapshot

\* A frame carries on where what its snapshot stands for is kept.
LEMMA FrameKept ==
    ASSUME NEW t, NEW u, NEW f \in FrameType, FrameOK(t, f), Keeps(t, u, f.snapshot),
           Alive(ObjectOf(u, f.self)), f.static => View(u).objects = View(t).objects
    PROVE  FrameOK(u, f)
<1>1. f.snapshot.journal_size \in 0 .. f.snapshot.journal_size
  BY SMTT(30), FrameFields
<1>2. ViewAt(u, f.snapshot.journal_size) = ViewAt(t, f.snapshot.journal_size)
  BY <1>1 DEF Keeps
<1>3. Usable(u, f.snapshot)
  BY KeptUsable DEF FrameOK
<1>4. QED BY <1>2, <1>3 DEF FrameOK

\* So does its place among the frames.
LEMMA NestingKept ==
    ASSUME NEW t, NEW u, NEW f, NEW g \in FrameType, NestedIn(t, f, g), Keeps(t, u, g.snapshot)
    PROVE  NestedIn(u, f, g)
<1>1. g.snapshot.journal_size \in 0 .. g.snapshot.journal_size
  BY SMTT(30), FrameFields
<1>2. ViewAt(u, g.snapshot.journal_size) = ViewAt(t, g.snapshot.journal_size)
  BY <1>1 DEF Keeps
<1>3. QED BY <1>2 DEF NestedIn

\* The frames carry on when the state does.
LEMMA NestedContinues ==
    ASSUME NEW t, NEW u, NEW fs, Good(t), Nested(t, fs), Continues(t, u), LivingKept(t, u),
           \A i \in 1 .. Len(fs) : fs[i].static => View(u).objects = View(t).objects
    PROVE  Nested(u, fs) /\ \A i \in 1 .. Len(fs) : Keeps(t, u, fs[i].snapshot)
<1>1. fs \in Seq(FrameType) /\ \A i \in 1 .. Len(fs) : fs[i] \in FrameType
  BY SMTT(30) DEF Nested
<1>2. \A i \in 1 .. Len(fs) : Keeps(t, u, fs[i].snapshot)
  BY ContinuesKeeps DEF Nested, FrameOK
<1>3. ASSUME NEW i \in 1 .. Len(fs) PROVE FrameOK(u, fs[i])
  <2>1. FrameOK(t, fs[i]) /\ fs[i] \in FrameType /\ fs[i].self \in Address
    BY <1>1, FrameFields DEF Nested
  <2>2. Alive(ObjectOf(u, fs[i].self))
    BY <2>1 DEF FrameOK, LivingKept
  <2>3. QED BY <1>2, <2>1, <2>2, FrameKept
<1>4. ASSUME NEW i \in 1 .. Len(fs), NEW j \in 1 .. Len(fs), i < j
      PROVE  NestedIn(u, fs[i], fs[j])
  BY <1>1, <1>2, <1>4, NestingKept DEF Nested
<1>5. QED BY <1>1, <1>2, <1>3, <1>4 DEF Nested

\* A call enters a frame.
LEMMA NestedEnter ==
    ASSUME NEW v, NEW u, NEW fs, NEW f \in FrameType, Good(v), Nested(v, fs), Reaches(v, u),
           f.snapshot = TakeSnapshot(v), Alive(ObjectOf(u, f.self)),
           f.static => f.contract = None /\ View(u).objects = View(v).objects,
           \A i \in 1 .. Len(fs) : fs[i].static => f.static
    PROVE  /\ Nested(u, Append(fs, f)) /\ \A i \in 1 .. Len(fs) : Keeps(v, u, fs[i].snapshot)
           /\ ViewAt(u, f.snapshot.journal_size) = View(v)
<1> DEFINE n == Len(fs)
           gs == Append(fs, f)
<1>1. Continues(v, u) /\ LivingKept(v, u)
  BY ExtendsContinues DEF Reaches
<1>2. Nested(u, fs) /\ \A i \in 1 .. n : Keeps(v, u, fs[i].snapshot)
  BY <1>1, NestedContinues
<1>3. /\ Usable(v, f.snapshot) /\ f.snapshot.journal_size = Len(v.journal)
      /\ f.snapshot.log_size = Len(v.logs) /\ Len(v.journal) \in Nat
  <2>1. Len(v.journal) \in Nat
    BY GoodFields DEF Good
  <2>2. QED BY <2>1, TakenUsable
<1>4. Keeps(v, u, f.snapshot) /\ Usable(u, f.snapshot)
  BY <1>1, <1>3, ContinuesKeeps
<1>5. ViewAt(u, f.snapshot.journal_size) = View(v)
  <2>1. Len(v.journal) \in 0 .. Len(v.journal) /\ ~(Len(v.journal) < Len(v.journal))
    BY SMTT(30), <1>3
  <2>2. QED BY <1>3, <1>4, <2>1 DEF Keeps, ViewAt
<1>6. FrameOK(u, f)
  BY <1>4, <1>5 DEF FrameOK
<1>7. ASSUME NEW i \in 1 .. n PROVE NestedIn(u, fs[i], f)
  <2>1. fs[i] \in FrameType /\ FrameOK(v, fs[i])
    BY SMTT(30) DEF Nested
  <2>2. fs[i].snapshot.journal_size <= Len(v.journal) /\ fs[i].snapshot.log_size <= Len(v.logs)
    BY <2>1 DEF FrameOK, Usable
  <2>3. View(v).objects[fs[i].self] = ObjectOf(v, fs[i].self)
    BY <2>1, ViewFields, FrameFields
  <2>4. QED BY <1>3, <1>5, <2>1, <2>2, <2>3 DEF NestedIn, FrameOK
<1>8. fs \in Seq(FrameType)
  BY DEF Nested
<1>9. /\ gs \in Seq(FrameType) /\ Len(gs) = n + 1 /\ n \in Nat
      /\ \A i \in 1 .. n : gs[i] = fs[i]
      /\ gs[n + 1] = f
  BY SMTT(30), <1>8
<1> HIDE DEF gs, n
<1>10. /\ \A i \in 1 .. n + 1 : i \in 1 .. n \/ i = n + 1
       /\ \A i \in 1 .. n + 1, j \in 1 .. n + 1 : i < j => i \in 1 .. n
  BY SMTT(30), <1>9
<1>11. ASSUME NEW i \in 1 .. n + 1 PROVE FrameOK(u, gs[i])
  BY <1>2, <1>6, <1>9, <1>10 DEF Nested, n
<1>12. ASSUME NEW i \in 1 .. n + 1, NEW j \in 1 .. n + 1, i < j
       PROVE  NestedIn(u, gs[i], gs[j])
  BY <1>2, <1>7, <1>9, <1>10, <1>12 DEF Nested, n
<1>13. Nested(u, gs)
  BY <1>9, <1>11, <1>12 DEF Nested
<1>14. QED BY <1>2, <1>5, <1>13 DEF gs, n

\* All the frames but the innermost.
Outer(fs) == SubSeq(fs, 1, Len(fs) - 1)

\* They are the frames that they were.
LEMMA OuterFrames ==
    ASSUME NEW fs \in Seq(FrameType), fs # <<>>
    PROVE  /\ Len(fs) \in Nat \ {0} /\ Outer(fs) \in Seq(FrameType) /\ Len(Outer(fs)) = Len(fs) - 1
           /\ \A i \in 1 .. Len(fs) - 1 : Outer(fs)[i] = fs[i] /\ i \in 1 .. Len(fs) /\ i < Len(fs)
           /\ Len(fs) \in 1 .. Len(fs) /\ fs[Len(fs)] \in FrameType
<1>1. Len(fs) \in Nat \ {0}
  BY SMTT(30)
<1>2. Len(fs) - 1 \in 0 .. Len(fs) /\ Len(fs) \in 1 .. Len(fs)
  BY SMTT(30), <1>1
<1>3. /\ SubSeq(fs, 1, Len(fs) - 1) \in Seq(FrameType) /\ Len(SubSeq(fs, 1, Len(fs) - 1)) = Len(fs) - 1
      /\ \A i \in 1 .. Len(fs) - 1 : SubSeq(fs, 1, Len(fs) - 1)[i] = fs[i]
  <2>1. 0 \in 0 .. Len(fs) - 1
    BY SMTT(30), <1>1
  <2>2. QED BY <1>2, <2>1, PrefixOfPrefix
<1>4. \A i \in 1 .. Len(fs) - 1 : i \in 1 .. Len(fs) /\ i < Len(fs)
  BY SMTT(30), <1>1
<1>5. fs[Len(fs)] \in FrameType
  BY SMTT(30), <1>2
<1>6. QED BY <1>1, <1>2, <1>3, <1>4, <1>5 DEF Outer

\* The innermost frame returns.
LEMMA NestedLeave ==
    ASSUME NEW t, NEW fs, Nested(t, fs), fs # <<>>
    PROVE  Nested(t, Outer(fs))
<1>1. fs \in Seq(FrameType)
  BY DEF Nested
<1>2. /\ Outer(fs) \in Seq(FrameType) /\ Len(Outer(fs)) = Len(fs) - 1
      /\ \A i \in 1 .. Len(fs) - 1 : Outer(fs)[i] = fs[i] /\ i \in 1 .. Len(fs)
  BY <1>1, OuterFrames
<1>3. ASSUME NEW i \in 1 .. Len(Outer(fs)) PROVE FrameOK(t, Outer(fs)[i])
  BY <1>2 DEF Nested
<1>4. ASSUME NEW i \in 1 .. Len(Outer(fs)), NEW j \in 1 .. Len(Outer(fs)), i < j
      PROVE  NestedIn(t, Outer(fs)[i], Outer(fs)[j])
  <2>1. /\ i \in 1 .. Len(fs) /\ j \in 1 .. Len(fs)
        /\ Outer(fs)[i] = fs[i] /\ Outer(fs)[j] = fs[j]
    BY <1>2
  <2>2. NestedIn(t, fs[i], fs[j])
    BY <1>4, <2>1 DEF Nested
  <2>3. QED BY <2>1, <2>2
<1>5. QED BY <1>2, <1>3, <1>4 DEF Nested

\* The innermost frame fails: the accounts the outer ones run as exist again,
\* and outer static frames still see the accounts they were entered with.
LEMMA NestedRevert ==
    ASSUME NEW t, NEW fs, Good(t), Nested(t, fs), fs # <<>>
    PROVE  LET p == fs[Len(fs)].snapshot
               u == RevertToSnapshot(t, p)
           IN /\ Good(u) /\ Nested(u, Outer(fs))
              /\ \A i \in 1 .. Len(fs) - 1 : Keeps(t, u, fs[i].snapshot)
              /\ View(u) = ViewAt(t, p.journal_size)
              /\ u.logs = SubSeq(t.logs, 1, p.log_size)
              /\ fs[Len(fs)].static => View(u).objects = View(t).objects
<1> DEFINE n == Len(fs)
           f == fs[n]
           p == f.snapshot
           u == RevertToSnapshot(t, p)
           gs == Outer(fs)
<1>1. fs \in Seq(FrameType) /\ \A i \in 1 .. n : fs[i] \in FrameType
  BY SMTT(30) DEF Nested
<1>2. /\ n \in 1 .. n /\ f \in FrameType /\ gs \in Seq(FrameType) /\ Len(gs) = n - 1
      /\ \A i \in 1 .. n - 1 : gs[i] = fs[i] /\ i \in 1 .. n /\ i < n
  BY <1>1, OuterFrames
<1>3. FrameOK(t, f) /\ Usable(t, p)
  BY <1>2 DEF Nested, FrameOK
<1>4. /\ Good(u) /\ View(u) = ViewAt(t, p.journal_size)
      /\ u.logs = SubSeq(t.logs, 1, p.log_size)
  BY <1>3, Reverted
<1>5. f.static => View(u).objects = View(t).objects
  BY <1>3, <1>4 DEF FrameOK
<1> HIDE DEF n, f, p, gs
<1>6. ASSUME NEW i \in 1 .. n - 1
      PROVE  Keeps(t, u, fs[i].snapshot) /\ FrameOK(u, fs[i])
  <2>1. i \in 1 .. n /\ fs[i] \in FrameType /\ FrameOK(t, fs[i]) /\ NestedIn(t, fs[i], f)
    BY <1>1, <1>2 DEF Nested, n, f
  <2>2. /\ Usable(t, fs[i].snapshot) /\ fs[i].snapshot.journal_size <= p.journal_size
        /\ fs[i].snapshot.log_size <= p.log_size
    BY <2>1 DEF FrameOK, NestedIn, p
  <2>3. Keeps(t, u, fs[i].snapshot)
    BY <1>3, <2>2, RevertedKeeps
  <2> HIDE DEF u
  <2>4. fs[i].self \in Address
    BY <2>1, FrameFields
  <2>5. ObjectOf(u, fs[i].self) = View(u).objects[fs[i].self]
    BY <2>4, ViewFields
  <2>6. Alive(ObjectOf(u, fs[i].self))
    BY <1>4, <2>1, <2>5 DEF NestedIn, p
  <2>7. fs[i].static => View(u).objects = View(t).objects
    BY <1>5, <2>1 DEF NestedIn
  <2>8. QED BY <2>1, <2>3, <2>6, <2>7, FrameKept
<1> HIDE DEF u
<1>7. ASSUME NEW i \in 1 .. n - 1, NEW j \in 1 .. n - 1, i < j
      PROVE  NestedIn(u, fs[i], fs[j])
  <2>1. NestedIn(t, fs[i], fs[j]) /\ fs[j] \in FrameType
    BY <1>1, <1>2, <1>7 DEF Nested, n
  <2>2. QED BY <1>6, <2>1, NestingKept
<1>8. Nested(u, gs)
  <2>1. ASSUME NEW i \in 1 .. Len(gs) PROVE FrameOK(u, gs[i])
    BY <1>2, <1>6
  <2>2. ASSUME NEW i \in 1 .. Len(gs), NEW j \in 1 .. Len(gs), i < j
        PROVE  NestedIn(u, gs[i], gs[j])
    <3>1. /\ i \in 1 .. n - 1 /\ j \in 1 .. n - 1
          /\ gs[i] = fs[i] /\ gs[j] = fs[j]
      BY <1>2
    <3>2. QED BY <1>7, <2>2, <3>1
  <2>3. QED BY <1>2, <2>1, <2>2 DEF Nested
<1>9. QED BY <1>4, <1>5, <1>6, <1>8 DEF u, p, f, n, gs

\* The frames differ in nothing but gas, sender and value.
SameFrame(f, g) ==
    f.self = g.self /\ f.static = g.static /\ f.snapshot = g.snapshot /\ f.contract = g.contract

\* Frames that differ only in gas, sender and value are nested alike.
LEMMA NestedCharged ==
    ASSUME NEW t, NEW fs, NEW gs \in Seq(FrameType), Nested(t, fs), Len(gs) = Len(fs),
           \A i \in 1 .. Len(fs) : SameFrame(gs[i], fs[i])
    PROVE  Nested(t, gs)
<1>1. ASSUME NEW i \in 1 .. Len(fs) PROVE FrameOK(t, gs[i])
  BY DEF Nested, SameFrame, FrameOK
<1>2. ASSUME NEW i \in 1 .. Len(fs), NEW j \in 1 .. Len(fs), i < j
      PROVE  NestedIn(t, gs[i], gs[j])
  <2>1. NestedIn(t, fs[i], fs[j])
    BY <1>2 DEF Nested
  <2>2. QED BY <2>1 DEF SameFrame, NestedIn
<1>3. QED BY <1>1, <1>2 DEF Nested

\* fs with the gas of the innermost frame replaced.
WithGas(fs, gas) == [fs EXCEPT ![Len(fs)].gas = gas]

\* It differs from fs in the gas of the innermost frame only.
LEMMA WithGasFrames ==
    ASSUME NEW fs \in Seq(FrameType), fs # <<>>, NEW gas \in Nat
    PROVE  LET gs == WithGas(fs, gas)
           IN /\ gs \in Seq(FrameType) /\ Len(gs) = Len(fs) /\ gs # <<>>
              /\ \A i \in 1 .. Len(fs) : SameFrame(gs[i], fs[i])
              /\ \A i \in 1 .. Len(fs) : i < Len(fs) => gs[i] = fs[i]
              /\ gs[Len(fs)].gas = gas
<1> DEFINE n == Len(fs)
           gs == WithGas(fs, gas)
           f == [fs[n] EXCEPT !.gas = gas]
<1>1. n \in Nat /\ n \in 1 .. n /\ fs[n] \in FrameType
  <2>1. Len(fs) \in Nat \ {0}
    BY SMTT(30)
  <2>2. QED BY SMTT(30), <2>1
<1>2. f \in FrameType /\ SameFrame(f, fs[n]) /\ f.gas = gas
  BY <1>1 DEF FrameType, SameFrame
<1>3. gs = [fs EXCEPT ![n] = f]
  BY <1>1 DEF WithGas
<1> HIDE DEF f, gs
<1>4. /\ gs \in Seq(FrameType) /\ Len(gs) = n /\ gs[n] = f
      /\ \A i \in 1 .. n : i # n => gs[i] = fs[i]
  BY SMTT(30), <1>1, <1>2, <1>3
<1>5. \A i \in 1 .. n : i < n => i # n
  BY SMTT(30), <1>1
<1>6. \A i \in 1 .. n : SameFrame(gs[i], fs[i])
  BY <1>2, <1>4 DEF SameFrame
<1>7. gs # <<>>
  BY SMTT(30), <1>1, <1>4
<1>8. QED BY <1>2, <1>4, <1>5, <1>6, <1>7 DEF gs, n

\* What Deliver makes of the frames and of the result.
NextFrames(o, below) ==
    IF o.frame # None THEN Append(below, o.frame)
    ELSE [i \in DOMAIN below |->
            IF i = Len(below) THEN [below[i] EXCEPT !.gas = @ + o.gas] ELSE below[i]]
NextResult(o, below) ==
    IF o.frame # None \/ below # <<>> THEN None
    ELSE [status |-> o.status, gas |-> o.gas]

\* The gas is with the innermost frame, and there is at most gas of it.
GasAtTop(fs, gas) ==
    \A i \in 1 .. Len(fs) : fs[i].gas <= gas /\ (i < Len(fs) => fs[i].gas = 0)
NoGas(fs) == \A i \in 1 .. Len(fs) : fs[i].gas = 0

\* The outermost frame, when it fails, leaves no log and a view in C.
Rooted(t, fs, C) ==
    fs # <<>> => /\ fs[1].snapshot.log_size = 0
                 /\ ViewAt(t, fs[1].snapshot.journal_size) \in C

\* A transaction runs: fs are the calls the interpreter is in, res what
\* EVM::execute returned; it had gas to spend, and a failure must leave a view
\* in C.
Executing(t, fs, res, gas, C) ==
    /\ Good(t) /\ Nested(t, fs) /\ Rooted(t, fs, C)
    /\ GasAtTop(fs, gas)
    /\ fs = <<>> => /\ res \in ResultType /\ res.gas <= gas
                    /\ res.status # "success" => t.logs = <<>> /\ View(t) \in C
    /\ fs # <<>> => res = None

\* A result reaches the frame below, which gets the gas that is left.
LEMMA FramesCredited ==
    ASSUME NEW below \in Seq(FrameType), NoGas(below), NEW n \in Nat
    PROVE  LET gs == [i \in DOMAIN below |->
                        IF i = Len(below) THEN [below[i] EXCEPT !.gas = @ + n] ELSE below[i]]
           IN /\ gs \in Seq(FrameType) /\ Len(gs) = Len(below)
              /\ \A i \in 1 .. Len(below) : /\ SameFrame(gs[i], below[i])
                                            /\ gs[i].gas = IF i = Len(below) THEN n ELSE 0
<1> DEFINE m == Len(below)
           g(i) == IF i = m THEN [below[i] EXCEPT !.gas = @ + n] ELSE below[i]
           gs == [i \in DOMAIN below |-> g(i)]
<1>1. m \in Nat /\ DOMAIN below = 1 .. m /\ \A i \in 1 .. m : below[i] \in FrameType
  BY SMTT(30)
<1>2. ASSUME NEW i \in 1 .. m
      PROVE  /\ g(i) \in FrameType /\ SameFrame(g(i), below[i])
             /\ g(i).gas = IF i = m THEN n ELSE 0
  <2>1. below[i] \in FrameType /\ below[i].gas = 0
    BY <1>1 DEF NoGas
  <2>2. [below[i] EXCEPT !.gas = @ + n] = [below[i] EXCEPT !.gas = n]
    BY SMTT(30), <2>1 DEF FrameType
  <2>3. QED BY <2>1, <2>2 DEF FrameType, SameFrame
<1>3. gs = [i \in 1 .. m |-> g(i)]
  BY <1>1
<1> HIDE DEF m, g
<1>4. gs \in Seq(FrameType) /\ Len(gs) = m /\ \A i \in 1 .. m : gs[i] = g(i)
  BY SMTT(30), <1>1, <1>2, <1>3
<1> HIDE DEF gs
<1>5. \A i \in 1 .. m : SameFrame(gs[i], below[i]) /\ gs[i].gas = IF i = m THEN n ELSE 0
  BY <1>2, <1>4
<1>6. gs \in Seq(FrameType) /\ Len(gs) = m
  BY <1>4
<1>7. QED BY <1>5, <1>6 DEF m, gs, g

\* A call that has ended: what it left goes to the frame below, or is the result.
LEMMA DeliverReturns ==
    ASSUME NEW o, NEW below, NEW gas \in Nat, NEW C,
           o.frame = None, o.status \in StatusCode, o.gas \in 0 .. gas,
           Good(o.s), Nested(o.s, below), NoGas(below), Rooted(o.s, below, C),
           below = <<>> /\ o.status # "success" => o.s.logs = <<>> /\ View(o.s) \in C
    PROVE  Executing(o.s, NextFrames(o, below), NextResult(o, below), gas, C)
<1> DEFINE gs == [i \in DOMAIN below |->
                    IF i = Len(below) THEN [below[i] EXCEPT !.gas = @ + o.gas] ELSE below[i]]
           res == NextResult(o, below)
<1>1. below \in Seq(FrameType) /\ o.gas \in Nat /\ o.gas <= gas
  BY SMTT(30) DEF Nested
<1>2. /\ gs \in Seq(FrameType) /\ Len(gs) = Len(below)
      /\ \A i \in 1 .. Len(below) : /\ SameFrame(gs[i], below[i])
                                    /\ gs[i].gas = IF i = Len(below) THEN o.gas ELSE 0
  BY <1>1, FramesCredited
<1>3. NextFrames(o, below) = gs
  BY DEF NextFrames
<1> HIDE DEF gs
<1>4. Nested(o.s, gs)
  BY <1>2, NestedCharged
<1>5. GasAtTop(gs, gas)
  <2>1. ASSUME NEW i \in 1 .. Len(gs) PROVE gs[i].gas <= gas /\ (i < Len(gs) => gs[i].gas = 0)
    <3>1. Len(gs) \in Nat /\ i \in 1 .. Len(below)
      BY SMTT(30), <1>2
    <3>2. gs[i].gas = IF i = Len(gs) THEN o.gas ELSE 0
      BY <1>2, <3>1
    <3>3. QED BY SMTT(30), <1>1, <3>1, <3>2
  <2>2. QED BY <2>1 DEF GasAtTop
<1>6. gs = <<>> <=> below = <<>>
  BY SMTT(30), <1>1, <1>2
<1>7. Rooted(o.s, gs, C)
  <2>1. gs # <<>> => 1 \in 1 .. Len(below)
    BY SMTT(30), <1>1, <1>6
  <2>2. QED BY <1>2, <1>6, <2>1 DEF Rooted, SameFrame
<1>8. CASE below = <<>>
  <2>1. res = [status |-> o.status, gas |-> o.gas]
    BY <1>8 DEF NextResult
  <2>2. res \in ResultType /\ res.gas <= gas /\ res.status = o.status
    BY SMTT(30), <1>1, <2>1 DEF ResultType
  <2>3. QED BY <1>3, <1>4, <1>5, <1>6, <1>7, <1>8, <2>2 DEF Executing
<1>9. CASE below # <<>>
  <2>1. res = None
    BY <1>9 DEF NextResult
  <2>2. QED BY <1>3, <1>4, <1>5, <1>6, <1>7, <1>9, <2>1 DEF Executing
<1>10. QED BY <1>8, <1>9

\* A call that has begun is the innermost frame.
LEMMA DeliverEnters ==
    ASSUME NEW o, NEW below, NEW gas \in Nat, NEW C,
           o.frame # None, o.frame \in FrameType, o.frame.gas <= gas,
           Good(o.s), Nested(o.s, Append(below, o.frame)), below \in Seq(FrameType), NoGas(below),
           below # <<>> => Rooted(o.s, below, C),
           below = <<>> => /\ o.frame.snapshot.log_size = 0
                           /\ ViewAt(o.s, o.frame.snapshot.journal_size) \in C
    PROVE  Executing(o.s, NextFrames(o, below), NextResult(o, below), gas, C)
<1> DEFINE f == o.frame
           gs == Append(below, f)
           m == Len(below)
<1>1. NextFrames(o, below) = gs /\ NextResult(o, below) = None
  BY DEF NextFrames, NextResult
<1>2. /\ gs \in Seq(FrameType) /\ Len(gs) = m + 1 /\ m \in Nat
      /\ \A i \in 1 .. m : gs[i] = below[i]
      /\ gs[m + 1] = f /\ gs # <<>>
  BY SMTT(30)
<1> HIDE DEF gs, m
<1>3. GasAtTop(gs, gas)
  <2>1. ASSUME NEW i \in 1 .. Len(gs) PROVE gs[i].gas <= gas /\ (i < Len(gs) => gs[i].gas = 0)
    <3>1. CASE i = m + 1
      BY SMTT(30), <1>2, <3>1
    <3>2. CASE i # m + 1
      <4>1. i \in 1 .. m
        BY SMTT(30), <1>2, <3>2
      <4>2. gs[i].gas = 0
        BY <1>2, <4>1 DEF NoGas, m
      <4>3. QED BY SMTT(30), <4>2
    <3>3. QED BY <3>1, <3>2
  <2>2. QED BY <2>1 DEF GasAtTop
<1>4. Rooted(o.s, gs, C)
  <2>1. CASE below = <<>>
    <3>1. m = 0
      BY <2>1 DEF m
    <3>2. gs[1] = f
      BY SMTT(30), <1>2, <3>1
    <3>3. QED BY <2>1, <3>2 DEF Rooted
  <2>2. CASE below # <<>>
    <3>1. 1 \in 1 .. m
      BY SMTT(30), <2>2 DEF m
    <3>2. gs[1] = below[1]
      BY <1>2, <3>1
    <3>3. QED BY <2>2, <3>2 DEF Rooted
  <2>3. QED BY <2>1, <2>2
<1>5. QED BY <1>1, <1>2, <1>3, <1>4 DEF Executing, gs

\* The gas of the frames is that of the innermost one.
LEMMA SumGasAtTop ==
    ASSUME NEW fs \in Seq(FrameType), NEW gas \in Nat, GasAtTop(fs, gas)
    PROVE  SumGas(fs) = IF fs = <<>> THEN 0 ELSE fs[Len(fs)].gas
<1> DEFINE n == Len(fs)
           value(i) == IF i = n /\ n # 0 THEN fs[n].gas ELSE 0
           H(f) == f = [i \in 0 .. n |-> IF i = 0 THEN 0 ELSE f[i - 1] + fs[i].gas]
           D == [i \in 0 .. n |-> {value(i)}]
           f0 == [i \in 0 .. n |-> value(i)]
           g == CHOOSE f : H(f)
<1>1. n \in Nat /\ (fs = <<>> <=> n = 0)
  BY SMTT(30)
<1>2. ASSUME NEW i \in 1 .. n
      PROVE  /\ i \in 0 .. n /\ i - 1 \in 0 .. n /\ i # 0
             /\ value(i) = value(i - 1) + fs[i].gas
  <2>1. i \in 0 .. n /\ i - 1 \in 0 .. n /\ i # 0 /\ n # 0 /\ i - 1 # n /\ (i = n \/ i < n)
    BY SMTT(30), <1>1
  <2>2. fs[i] \in FrameType /\ fs[i].gas \in Nat
    BY SMTT(30), FrameFields
  <2>3. i < n => fs[i].gas = 0 /\ i # n
    BY SMTT(30), <1>1 DEF GasAtTop
  <2>4. QED BY SMTT(30), <2>1, <2>2, <2>3
<1>3. \A i \in 0 .. n : i = 0 \/ i \in 1 .. n
  BY SMTT(30), <1>1
<1>4. 0 \in 0 .. n /\ n \in 0 .. n /\ value(0) = 0
  BY SMTT(30), <1>1
<1> HIDE DEF n, value
<1>5. H(f0)
  <2>1. ASSUME NEW i \in 0 .. n
        PROVE  value(i) = IF i = 0 THEN 0 ELSE f0[i - 1] + fs[i].gas
    <3>1. CASE i = 0
      BY <1>4, <3>1
    <3>2. CASE i \in 1 .. n
      <4>1. f0[i - 1] = value(i - 1)
        BY <1>2, <3>2
      <4>2. QED BY <1>2, <3>2, <4>1
    <3>3. QED BY <1>3, <3>1, <3>2
  <2>2. QED BY <2>1
<1>6. H(g)
  <2> HIDE DEF f0
  <2>1. QED BY <1>5
<1>7. SumGas(fs) = g[n]
  BY DEF SumGas, n
<1> HIDE DEF g
<1>8. g[0] \in D[0]
  BY <1>4, <1>6
<1>9. ASSUME NEW i \in 1 .. n, g[i - 1] \in D[i - 1] PROVE g[i] \in D[i]
  <2>1. g[i] = g[i - 1] + fs[i].gas
    BY <1>2, <1>6
  <2>2. g[i - 1] = value(i - 1)
    BY <1>2, <1>9
  <2>3. QED BY <1>2, <2>1, <2>2
<1>10. g[n] \in D[n]
  <2> HIDE DEF D, H
  <2>1. QED BY <1>1, <1>4, <1>8, <1>9, LoopInvariant
<1>11. g[n] = value(n)
  BY <1>4, <1>10
<1>12. QED BY <1>1, <1>7, <1>11 DEF value, n

\* The elements of a sequence.
LEMMA SequenceElements ==
    ASSUME NEW S, NEW q \in Seq(S)
    PROVE  Len(q) \in Nat /\ DOMAIN q = 1 .. Len(q) /\ \A i \in 1 .. Len(q) : q[i] \in S
BY SMTT(30)

\* The loop over the access list marks accounts and slots as accessed only.
LEMMA WarmedReaches ==
    ASSUME NEW t, NEW list \in Seq([account: Address, key: Key \cup {None}]), Good(t)
    PROVE  /\ Reaches(t, Warmed(t, list)) /\ Good(Warmed(t, list))
           /\ Quiet(t, Warmed(t, list))
<1>0. \A i \in 1 .. Len(list) : list[i].account \in Address /\ list[i].key \in Key \cup {None}
  <2>1. \A i \in 1 .. Len(list) : list[i] \in [account: Address, key: Key \cup {None}]
    BY SequenceElements
  <2>2. QED BY <2>1
<1> DEFINE n == Len(list)
           next(i, u) == IF list[i].key = None THEN AccessAccount(u, list[i].account)
                         ELSE AccessStorage(u, list[i].account, list[i].key)
           S == {u \in IntraBlockStateType : Good(u) /\ Reaches(t, u) /\ Quiet(t, u)}
           D == [i \in 0 .. n |-> S]
           step == [i \in 1 .. n |-> [u \in S |-> next(i, u)]]
           H(f) == f = [i \in 0 .. n |-> IF i = 0 THEN t ELSE next(i, f[i - 1])]
           g == CHOOSE f : H(f)
<1>1. n \in Nat /\ t \in IntraBlockStateType
  BY SMTT(30) DEF Good
<1>2. t \in S
  BY <1>1, ReachesReflexive DEF Quiet, SameAccounts
<1>3. ASSUME NEW i \in 1 .. n, NEW u \in S
      PROVE  next(i, u) \in S
  <2>1. Good(u) /\ Reaches(t, u) /\ Quiet(t, u)
    OBVIOUS
  <2>2. list[i].account \in Address /\ list[i].key \in Key \cup {None}
    BY <1>0
  <2> DEFINE v == next(i, u)
  <2>3. Reaches(u, v) /\ Quiet(u, v)
    BY <2>1, <2>2, QuietReaches, AccessAccountQuiet, AccessStorageQuiet
  <2> HIDE DEF v
  <2>4. Reaches(t, v) /\ Good(v)
    BY <2>1, <2>3, ReachesTransitive
  <2>5. Quiet(t, v)
    BY <2>1, <2>3 DEF Quiet, SameAccounts
  <2>6. v \in IntraBlockStateType
    BY <2>4 DEF Good
  <2>7. QED BY <2>4, <2>5, <2>6 DEF v
<1> HIDE DEF n, next, S
<1>4. \A i \in 1 .. n : /\ i \in 0 .. n /\ i - 1 \in 0 .. n /\ i # 0
                        /\ D[i - 1] = S /\ D[i] = S
  <2>1. \A i \in 1 .. n : i \in 0 .. n /\ i - 1 \in 0 .. n /\ i # 0
    BY SMTT(30), <1>1
  <2>2. QED BY <2>1
<1>5. 0 \in 0 .. n /\ n \in 0 .. n /\ \A i \in 0 .. n : i = 0 \/ i \in 1 .. n
  BY SMTT(30), <1>1
<1>6. t \in D[0]
  BY <1>2, <1>5
<1>7. \A i \in 1 .. n : step[i] \in [D[i - 1] -> D[i]]
  BY <1>3, <1>4
<1>8. PICK f : Iterates(f, n, t, step, D)
  <2> HIDE DEF step, D
  <2>1. QED BY <1>1, <1>6, <1>7, Iteration
<1>9. H(f)
  <2>1. f = [i \in 0 .. n |-> f[i]] /\ f[0] = t
    BY <1>8 DEF Iterates
  <2>2. ASSUME NEW i \in 1 .. n PROVE f[i] = next(i, f[i - 1])
    <3>1. f[i - 1] \in D[i - 1] /\ f[i] = step[i][f[i - 1]]
      <4> HIDE DEF D, step
      <4>1. QED BY <1>4, <1>8 DEF Iterates
    <3>2. f[i - 1] \in S
      BY <1>4, <3>1
    <3>3. QED BY <3>1, <3>2
  <2>3. \A i \in 0 .. n : f[i] = IF i = 0 THEN t ELSE next(i, f[i - 1])
    BY <1>4, <1>5, <2>1, <2>2
  <2>4. QED BY <2>1, <2>3
<1>10. H(g)
  BY <1>9
<1>11. Warmed(t, list) = g[n]
  BY DEF Warmed, n, next
<1> HIDE DEF g
<1>12. g[0] \in D[0]
  BY <1>2, <1>5, <1>10
<1>13. \A i \in 1 .. n : g[i - 1] \in D[i - 1] => g[i] \in D[i]
  BY <1>3, <1>4, <1>10
<1>14. g[n] \in D[n]
  <2> HIDE DEF D, H
  <2>1. QED BY <1>1, <1>5, <1>12, <1>13, LoopInvariant
<1>15. QED BY <1>5, <1>11, <1>14 DEF S

\* dao::transfer_balances.
LEMMA TransferBalancesGood ==
    ASSUME NEW t, Good(t)
    PROVE  Good(TransferBalances(t))
<1> DEFINE n == Len(DaoChildren)
           next(i, u) == SetBalance(AddToBalance(u, DaoWithdraw, Balance(u, DaoChildren[i])),
                                    DaoChildren[i], 0)
           S == {u \in IntraBlockStateType : Good(u)}
           D == [i \in 0 .. n |-> S]
           step == [i \in 1 .. n |-> [u \in S |-> next(i, u)]]
           H(f) == f = [i \in 0 .. n |-> IF i = 0 THEN t ELSE next(i, f[i - 1])]
           g == CHOOSE f : H(f)
<1>1. n \in Nat /\ DaoWithdraw \in Address /\ \A i \in 1 .. n : DaoChildren[i] \in Address
  BY SequenceElements, DaoAssumption
<1>2. t \in S
  BY DEF Good
<1>3. ASSUME NEW i \in 1 .. n, NEW u \in S
      PROVE  next(i, u) \in S
  <2> DEFINE a == DaoChildren[i]
             v == AddToBalance(u, DaoWithdraw, Balance(u, a))
  <2>1. Good(u) /\ u \in IntraBlockStateType /\ a \in Address
    BY <1>1
  <2>2. Balance(u, a) \in Uint
    BY <2>1, BalanceType
  <2>3. Balance(u, a) \in Nat /\ 0 \in Uint
    BY SMTT(30), <2>2, WidthAssumption DEF Uint
  <2>4. Good(v)
    BY <1>1, <2>1, <2>3, BalanceReaches
  <2> HIDE DEF v
  <2>5. Reaches(v, SetBalance(v, a, 0))
    BY <2>1, <2>3, <2>4, SetBalanceEffect
  <2>6. Good(SetBalance(v, a, 0)) /\ SetBalance(v, a, 0) \in IntraBlockStateType
    BY <2>5 DEF Reaches, Extends, Good
  <2>7. QED BY <2>6 DEF v
<1> HIDE DEF n, next, S
<1>4. \A i \in 1 .. n : /\ i \in 0 .. n /\ i - 1 \in 0 .. n /\ i # 0
                        /\ D[i - 1] = S /\ D[i] = S
  <2>1. \A i \in 1 .. n : i \in 0 .. n /\ i - 1 \in 0 .. n /\ i # 0
    BY SMTT(30), <1>1
  <2>2. QED BY <2>1
<1>5. 0 \in 0 .. n /\ n \in 0 .. n /\ \A i \in 0 .. n : i = 0 \/ i \in 1 .. n
  BY SMTT(30), <1>1
<1>6. t \in D[0]
  BY <1>2, <1>5
<1>7. \A i \in 1 .. n : step[i] \in [D[i - 1] -> D[i]]
  BY <1>3, <1>4
<1>8. PICK f : Iterates(f, n, t, step, D)
  <2> HIDE DEF step, D
  <2>1. QED BY <1>1, <1>6, <1>7, Iteration
<1>9. H(f)
  <2>1. f = [i \in 0 .. n |-> f[i]] /\ f[0] = t
    BY <1>8 DEF Iterates
  <2>2. ASSUME NEW i \in 1 .. n PROVE f[i] = next(i, f[i - 1])
    <3>1. f[i - 1] \in D[i - 1] /\ f[i] = step[i][f[i - 1]]
      <4> HIDE DEF D, step
      <4>1. QED BY <1>4, <1>8 DEF Iterates
    <3>2. f[i - 1] \in S
      BY <1>4, <3>1
    <3>3. QED BY <3>1, <3>2
  <2>3. \A i \in 0 .. n : f[i] = IF i = 0 THEN t ELSE next(i, f[i - 1])
    BY <1>4, <1>5, <2>1, <2>2
  <2>4. QED BY <2>1, <2>3
<1>10. H(g)
  BY <1>9
<1>11. TransferBalances(t) = g[n]
  BY DEF TransferBalances, n, next
<1> HIDE DEF g
<1>12. g[0] \in D[0]
  BY <1>2, <1>5, <1>10
<1>13. \A i \in 1 .. n : g[i - 1] \in D[i - 1] => g[i] \in D[i]
  BY <1>3, <1>4, <1>10
<1>14. g[n] \in D[n]
  <2> HIDE DEF D, H
  <2>1. QED BY <1>1, <1>5, <1>12, <1>13, LoopInvariant
<1>15. QED BY <1>5, <1>11, <1>14 DEF S

\* clear_journal_and_substate.
LEMMA Cleared ==
    ASSUME NEW t \in IntraBlockStateType
    PROVE  LET u == ClearJournalAndSubstate(t)
           IN /\ Good(u) /\ SameAccounts(t, u)
              /\ u.logs = <<>> /\ u.self_destructs = {} /\ u.journal = <<>>
<1> DEFINE u == ClearJournalAndSubstate(t)
<1>1. u \in IntraBlockStateType /\ u.journal = <<>>
  BY ClearType
<1>2. u.logs = <<>> /\ u.self_destructs = {} /\ SameAccounts(t, u)
  BY DEF ClearJournalAndSubstate, IntraBlockStateType, SameAccounts
<1> HIDE DEF u
<1>3. Len(u.journal) = 0 /\ 1 .. 0 = {}
  BY SMTT(30), <1>1
<1>4. Linked(u, Len(u.journal))
  BY <1>3 DEF Linked
<1>5. QED BY <1>1, <1>2, <1>4 DEF Good, u

\* The fields of a transaction.
LEMMA TransactionFields ==
    ASSUME NEW x \in Transaction
    PROVE  /\ x.from \in Address /\ x.to \in Address \cup {None} /\ x.value \in Nat
           /\ x.gas_limit \in Nat /\ x.gas_price \in Nat /\ x.nonce \in Nat
           /\ x.access_list \in Seq([account: Address, key: Key \cup {None}])
           /\ x.zero_bytes \in Nat /\ x.non_zero_bytes \in Nat
           /\ x.gas_limit * x.gas_price \in Nat
<1>1. /\ x.from \in Address /\ x.to \in Address \cup {None} /\ x.value \in Nat
      /\ x.gas_limit \in Nat /\ x.gas_price \in Nat /\ x.nonce \in Nat
      /\ x.zero_bytes \in Nat /\ x.non_zero_bytes \in Nat
  BY DEF Transaction
<1>2. x.access_list \in Seq([account: Address, key: Key \cup {None}])
  BY DEF Transaction
<1>3. x.gas_limit * x.gas_price \in Nat
  BY SMTT(30), <1>1
<1>4. QED BY <1>1, <1>2, <1>3

\* Two methods that rewrite the same account.
LEMMA RewritesTwice ==
    ASSUME NEW t \in IntraBlockStateType, NEW u, NEW v, NEW a \in Address,
           NEW x \in Account, NEW y, Rewrites(t, u, a, x), Rewrites(u, v, a, y)
    PROVE  Rewrites(t, v, a, y)
<1>1. u.objects[a] = [initial |-> InitialOf(ObjectOf(t, a)), current |-> x]
  BY DEF Rewrites
<1>2. InitialOf(ObjectOf(t, a)) \in Account \cup {None}
  BY AccountOfType
<1>3. u.objects[a] \in Object
  BY SMTT(30), <1>1, <1>2 DEF Object
<1>4. u.objects[a] # None /\ ObjectOf(u, a) = u.objects[a]
  BY <1>3, ValuesAssumption DEF ObjectOf
<1>5. InitialOf(ObjectOf(u, a)) = InitialOf(ObjectOf(t, a))
  <2>1. InitialOf(ObjectOf(u, a)) = u.objects[a].initial
    BY <1>4 DEF InitialOf
  <2>2. QED BY SMTT(30), <1>1, <2>1
<1>6. QED BY <1>5 DEF Rewrites

\* OnlyCharged for transaction x, begun in a state that could be observed as
\* before.
Charges(view, before, x) ==
    /\ view.self_destructs = {}
    /\ \A a \in Address \ {x.from} : /\ view.objects[a] = before.objects[a]
                                     /\ view.slots[a] = before.slots[a]
    /\ Alive(before.objects[x.from]) => view.slots[x.from] = before.slots[x.from]
    /\ AccountOf(view.objects[x.from])
         = [AccountOf(before.objects[x.from]) EXCEPT !.nonce = x.nonce + 1,
                                                     !.balance = @ - x.gas_limit * x.gas_price]
Unmoved(before, x) == {view \in ViewType : Charges(view, before, x)}

\* The sender's account once the nonce is used and the gas is paid for.
ChargedAccount(account, x) ==
    [account EXCEPT !.nonce = x.nonce + 1, !.balance = @ - x.gas_limit * x.gas_price]

\* Rewriting the sender's account so charges what could be observed of w.
LEMMA ChargedView ==
    ASSUME NEW w \in IntraBlockStateType, NEW t, NEW u, NEW x \in Transaction, Good(t), Good(u),
           SameAccounts(w, t), t.self_destructs = {},
           ChargedAccount(AccountOf(ObjectOf(t, x.from)), x) \in Account,
           Rewrites(t, u, x.from, ChargedAccount(AccountOf(ObjectOf(t, x.from)), x))
    PROVE  View(u) \in Unmoved(View(w), x)
<1> DEFINE a == x.from
           old == AccountOf(ObjectOf(t, a))
           new == ChargedAccount(old, x)
<1>1. a \in Address /\ t \in IntraBlockStateType /\ u \in IntraBlockStateType
  BY TransactionFields DEF Good
<1>2. old \in Account
  BY <1>1, AccountOfType
<1>3. new.incarnation = old.incarnation
  BY <1>2 DEF ChargedAccount, Account
<1> HIDE DEF new, old
<1>4. /\ Alive(ObjectOf(u, a)) /\ AccountOf(ObjectOf(u, a)) = new
      /\ \A b \in Address \ {a} : ObjectOf(u, b) = ObjectOf(t, b) /\ View(u).slots[b] = View(t).slots[b]
      /\ Alive(ObjectOf(t, a)) => View(u).slots[a] = View(t).slots[a]
  <2>1. new \in Account /\ Rewrites(t, u, a, new)
    BY DEF new, old
  <2> HIDE DEF a
  <2>2. /\ ObjectOf(u, a) = [initial |-> InitialOf(ObjectOf(t, a)), current |-> new]
        /\ Alive(ObjectOf(u, a)) /\ AccountOf(ObjectOf(u, a)) = new
        /\ \A b \in Address \ {a} : /\ ObjectOf(u, b) = ObjectOf(t, b)
                                    /\ View(u).slots[b] = View(t).slots[b]
        /\ Alive(ObjectOf(t, a)) /\ new.incarnation = AccountOf(ObjectOf(t, a)).incarnation
             => View(u).slots[a] = View(t).slots[a]
    BY SMTT(30), <1>1, <2>1, RewritesView
  <2>3. QED BY <1>3, <2>2 DEF old
<1>5. View(u) \in ViewType
  BY <1>1, ViewTypeOK
<1>6. /\ View(t).slots = View(w).slots
      /\ \A b \in Address : View(w).objects[b] = ObjectOf(t, b)
  <2>1. View(t).slots = View(w).slots /\ View(t).objects = View(w).objects
    BY SameAccountsView
  <2>2. \A b \in Address : View(t).objects[b] = ObjectOf(t, b)
    BY ViewFields
  <2>3. QED BY <2>1, <2>2
<1>7. \A b \in Address : View(u).objects[b] = ObjectOf(u, b)
  BY ViewFields
<1>8. View(u).self_destructs = {}
  BY ViewFields DEF Rewrites
<1>9. AccountOf(View(u).objects[a])
        = [AccountOf(View(w).objects[a]) EXCEPT !.nonce = x.nonce + 1,
                                                !.balance = @ - x.gas_limit * x.gas_price]
  BY <1>1, <1>4, <1>6, <1>7 DEF new, old, ChargedAccount
<1>10. Charges(View(u), View(w), x)
  BY SMTT(30), <1>1, <1>4, <1>6, <1>7, <1>8, <1>9 DEF Charges
<1>11. QED BY <1>5, <1>10 DEF Unmoved

\* set_nonce and then a quiet method.
LEMMA ChargeNonce ==
    ASSUME NEW t, NEW u, NEW a \in Address, NEW account \in Account, NEW nonce \in Nat,
           Good(t), Good(u), Rewrites(t, u, a, account)
    PROVE  /\ [account EXCEPT !.nonce = nonce] \in Account
           /\ Rewrites(t, SetNonce(u, a, nonce), a, [account EXCEPT !.nonce = nonce])
           /\ Reaches(u, SetNonce(u, a, nonce)) /\ Good(SetNonce(u, a, nonce))
<1>1. t \in IntraBlockStateType
  BY DEF Good
<1>2. AccountOf(ObjectOf(u, a)) = account
  BY <1>1, RewritesView
<1>3. /\ [account EXCEPT !.nonce = nonce] \in Account
      /\ Rewrites(u, SetNonce(u, a, nonce), a, [account EXCEPT !.nonce = nonce])
      /\ Reaches(u, SetNonce(u, a, nonce))
  BY <1>2, SetNonceEffect
<1>4. Good(SetNonce(u, a, nonce))
  BY <1>3 DEF Reaches, Extends
<1>5. QED BY <1>1, <1>3, <1>4, RewritesTwice

\* Reaching a state appends no log.
LEMMA ReachesLogs ==
    ASSUME NEW t, NEW u, Reaches(t, u)
    PROVE  u.logs = t.logs /\ Good(u)
BY DEF Reaches, Extends

\* Static calls make static calls only.
LEMMA InnerStatic ==
    ASSUME NEW t, NEW fs, Nested(t, fs), fs # <<>>, NEW i \in 1 .. Len(fs), fs[i].static
    PROVE  fs[Len(fs)].static
<1>1. Len(fs) \in 1 .. Len(fs) /\ (i = Len(fs) \/ i < Len(fs))
  <2>1. fs \in Seq(FrameType)
    BY DEF Nested
  <2>2. Len(fs) \in Nat
    BY SMTT(30), <2>1
  <2>3. QED BY SMTT(30), <2>2
<1>2. QED BY <1>1 DEF Nested, NestedIn

\* What the outermost frame reverts to is kept.
LEMMA RootedKept ==
    ASSUME NEW t, NEW u, NEW fs \in Seq(FrameType), NEW gs, NEW C, Rooted(t, fs, C), fs # <<>>,
           \A i \in 1 .. Len(fs) : Keeps(t, u, fs[i].snapshot),
           gs[1].snapshot = fs[1].snapshot
    PROVE  Rooted(u, gs, C)
<1>1. 1 \in 1 .. Len(fs) /\ fs[1] \in FrameType
  <2>1. Len(fs) \in Nat \ {0}
    BY SMTT(30)
  <2>2. QED BY SMTT(30), <2>1
<1>2. Keeps(t, u, fs[1].snapshot)
  BY <1>1
<1>3. fs[1].snapshot.journal_size \in 0 .. fs[1].snapshot.journal_size
  BY SMTT(30), <1>1, FrameFields
<1>4. ViewAt(u, fs[1].snapshot.journal_size) = ViewAt(t, fs[1].snapshot.journal_size)
  BY <1>2, <1>3 DEF Keeps
<1>5. QED BY <1>4 DEF Rooted

\* What is known of the innermost frame.
LEMMA InnerFrame ==
    ASSUME NEW t, NEW fs, NEW res, NEW gas \in Nat, NEW C, Executing(t, fs, res, gas, C), fs # <<>>
    PROVE  /\ Good(t) /\ Nested(t, fs) /\ fs \in Seq(FrameType) /\ Rooted(t, fs, C) /\ res = None
           /\ Len(fs) \in Nat /\ Len(fs) \in 1 .. Len(fs) /\ 1 \in 1 .. Len(fs)
           /\ fs[Len(fs)] \in FrameType /\ FrameOK(t, fs[Len(fs)])
           /\ fs[Len(fs)].gas \in 0 .. gas
           /\ \A i \in 1 .. Len(fs) : i # Len(fs) => fs[i].gas = 0
<1>1. Good(t) /\ Nested(t, fs) /\ Rooted(t, fs, C) /\ res = None /\ GasAtTop(fs, gas)
  BY DEF Executing
<1>2. fs \in Seq(FrameType)
  BY <1>1 DEF Nested
<1>3. /\ Len(fs) \in Nat /\ Len(fs) \in 1 .. Len(fs) /\ 1 \in 1 .. Len(fs)
      /\ \A i \in 1 .. Len(fs) : i # Len(fs) => i < Len(fs)
  <2>1. Len(fs) \in Nat \ {0}
    BY SMTT(30), <1>2
  <2>2. QED BY SMTT(30), <2>1
<1>4. fs[Len(fs)] \in FrameType
  BY SMTT(30), <1>2, <1>3
<1>5. FrameOK(t, fs[Len(fs)])
  BY <1>1, <1>3 DEF Nested
<1>6. fs[Len(fs)].gas \in Nat /\ fs[Len(fs)].gas <= gas
  BY <1>1, <1>3, <1>4, FrameFields DEF GasAtTop
<1>7. fs[Len(fs)].gas \in 0 .. gas
  BY SMTT(30), <1>6
<1>8. \A i \in 1 .. Len(fs) : i # Len(fs) => fs[i].gas = 0
  BY <1>1, <1>3 DEF GasAtTop
<1>9. QED BY <1>1, <1>2, <1>3, <1>4, <1>5, <1>7, <1>8

\* A host call that returns at once to a frame that is not static.
LEMMA HostStep ==
    ASSUME NEW t, NEW u, NEW fs, NEW res, NEW gas \in Nat, NEW C, Executing(t, fs, res, gas, C),
           fs # <<>>, ~fs[Len(fs)].static, Continues(t, u), LivingKept(t, u),
           NEW left \in 0 .. gas
    PROVE  Executing(u, WithGas(fs, left), res, gas, C)
<1> DEFINE gs == WithGas(fs, left)
           n == Len(fs)
<1>1. /\ Good(t) /\ Nested(t, fs) /\ fs \in Seq(FrameType) /\ Rooted(t, fs, C) /\ res = None
      /\ n \in Nat /\ 1 \in 1 .. n /\ \A i \in 1 .. n : i # n => fs[i].gas = 0
  BY SMTT(30), InnerFrame
<1>2. left \in Nat /\ left <= gas
  BY SMTT(30)
<1>3. /\ gs \in Seq(FrameType) /\ Len(gs) = n /\ gs # <<>>
      /\ \A i \in 1 .. n : SameFrame(gs[i], fs[i])
      /\ \A i \in 1 .. n : i < n => gs[i] = fs[i]
      /\ gs[n].gas = left
  BY <1>1, <1>2, WithGasFrames
<1> HIDE DEF gs
<1>4. \A i \in 1 .. n : ~fs[i].static
  <2>1. ASSUME NEW i \in 1 .. n, fs[i].static PROVE FALSE
    <3>1. fs[Len(fs)].static
      BY <1>1, <2>1, InnerStatic
    <3>2. QED BY <3>1
  <2>2. QED BY <2>1
<1>5. Nested(u, fs) /\ \A i \in 1 .. n : Keeps(t, u, fs[i].snapshot)
  BY <1>1, <1>4, NestedContinues
<1>6. Nested(u, gs)
  BY <1>3, <1>5, NestedCharged
<1>7. Rooted(u, gs, C)
  <2>1. gs[1].snapshot = fs[1].snapshot
    BY <1>1, <1>3 DEF SameFrame
  <2>2. QED BY <1>1, <1>5, <2>1, RootedKept
<1>8. GasAtTop(gs, gas)
  <2>1. ASSUME NEW i \in 1 .. n PROVE gs[i].gas <= gas /\ (i < n => gs[i].gas = 0)
    <3>1. CASE i = n
      BY SMTT(30), <1>1, <1>2, <1>3, <3>1
    <3>2. CASE i # n
      <4>1. i < n
        BY SMTT(30), <1>1, <3>2
      <4>2. gs[i].gas = 0
        BY <1>1, <1>3, <3>2, <4>1
      <4>3. QED BY SMTT(30), <4>2
    <3>3. QED BY <3>1, <3>2
  <2>2. QED BY <1>3, <2>1 DEF GasAtTop
<1>9. Good(u)
  BY DEF Continues
<1>10. QED BY <1>1, <1>3, <1>6, <1>7, <1>8, <1>9 DEF Executing, gs

\* The frames below a call have no gas: the child got all there was.
LEMMA CallerFrames ==
    ASSUME NEW t, NEW fs, NEW res, NEW gas \in Nat, NEW C, Executing(t, fs, res, gas, C), fs # <<>>
    PROVE  LET below == WithGas(fs, 0)
           IN /\ Nested(t, below) /\ NoGas(below) /\ Rooted(t, below, C)
              /\ below \in Seq(FrameType) /\ below # <<>>
              /\ \A i \in 1 .. Len(below) : below[i].static => fs[Len(fs)].static
<1> DEFINE below == WithGas(fs, 0)
           n == Len(fs)
<1>1. /\ Good(t) /\ Nested(t, fs) /\ fs \in Seq(FrameType) /\ Rooted(t, fs, C)
      /\ n \in Nat /\ 1 \in 1 .. n /\ \A i \in 1 .. n : i # n => fs[i].gas = 0
  BY SMTT(30), InnerFrame
<1>2. 0 \in Nat
  OBVIOUS
<1>3. /\ below \in Seq(FrameType) /\ Len(below) = n /\ below # <<>>
      /\ \A i \in 1 .. n : SameFrame(below[i], fs[i])
      /\ \A i \in 1 .. n : i < n => below[i] = fs[i]
      /\ below[n].gas = 0
  BY <1>1, <1>2, WithGasFrames
<1> HIDE DEF below
<1>4. Nested(t, below)
  BY <1>1, <1>3, NestedCharged
<1>5. NoGas(below)
  <2>1. \A i \in 1 .. n : i = n \/ i < n
    BY SMTT(30), <1>1
  <2>2. \A i \in 1 .. n : i < n => i # n
    BY SMTT(30), <1>1
  <2>3. \A i \in 1 .. n : below[i].gas = 0
    BY <1>1, <1>3, <2>1, <2>2
  <2>4. QED BY <1>3, <2>3 DEF NoGas
<1>6. Rooted(t, below, C)
  BY <1>1, <1>3 DEF Rooted, SameFrame
<1>7. ASSUME NEW i \in 1 .. Len(below), below[i].static PROVE fs[Len(fs)].static
  <2>1. i \in 1 .. Len(fs) /\ fs[i].static
    BY <1>3, <1>7 DEF SameFrame
  <2>2. QED BY <1>1, <2>1, InnerStatic
<1>8. QED BY <1>3, <1>4, <1>5, <1>6, <1>7 DEF below

\* The frames below go on in a state reached from theirs.
LEMMA BelowReached ==
    ASSUME NEW t, NEW u, NEW fs, NEW C, Good(t), Nested(t, fs), Rooted(t, fs, C), Reaches(t, u),
           \A i \in 1 .. Len(fs) : fs[i].static => View(u).objects = View(t).objects
    PROVE  Good(u) /\ Nested(u, fs) /\ Rooted(u, fs, C)
<1>1. Continues(t, u) /\ LivingKept(t, u) /\ Good(u)
  BY ExtendsContinues DEF Reaches, Extends
<1>2. Nested(u, fs) /\ \A i \in 1 .. Len(fs) : Keeps(t, u, fs[i].snapshot)
  BY <1>1, NestedContinues
<1>3. fs \in Seq(FrameType)
  BY DEF Nested
<1>4. CASE fs = <<>>
  BY <1>1, <1>2, <1>4 DEF Rooted
<1>5. CASE fs # <<>>
  BY <1>1, <1>2, <1>3, <1>5, RootedKept
<1>6. QED BY <1>4, <1>5

\* CALL, CALLCODE, DELEGATECALL and STATICCALL, from the state v in which the
\* callee has been accessed.
LEMMA CallStep ==
    ASSUME NEW t, NEW v, NEW fs, NEW res, NEW gas \in Nat, NEW C, Executing(t, fs, res, gas, C),
           fs # <<>>, Reaches(t, v), SameAccounts(t, v),
           NEW r, NEW msg, NEW p \in [gas: Nat, ok: BOOLEAN], CallMessage(v, msg), msg.gas <= gas,
           fs[Len(fs)].static => msg.static
    PROVE  LET o == Call(v, r, msg, p)
           IN /\ Executing(o.s, NextFrames(o, WithGas(fs, 0)), NextResult(o, WithGas(fs, 0)), gas, C)
              /\ fs[Len(fs)].static => View(o.s).objects = View(t).objects
<1> DEFINE o == Call(v, r, msg, p)
           below == WithGas(fs, 0)
<1>1. /\ Nested(t, below) /\ NoGas(below) /\ Rooted(t, below, C)
      /\ below \in Seq(FrameType) /\ below # <<>>
      /\ \A i \in 1 .. Len(below) : below[i].static => msg.static
  BY CallerFrames
<1> HIDE DEF below
<1>2. View(v).objects = View(t).objects
  BY SameAccountsView
<1>3. Good(t)
  BY DEF Executing
<1>4. Good(v) /\ Nested(v, below) /\ Rooted(v, below, C)
  BY <1>1, <1>2, <1>3, BelowReached
<1>5. /\ Reaches(v, o.s) /\ Good(o.s)
      /\ msg.static \/ msg.kind # "call" => View(o.s).objects = View(v).objects
      /\ o.frame = None => Settled(v, o, msg.gas)
      /\ o.frame # None => Entered(v, o, msg)
  BY <1>4, CallOutcome
<1> HIDE DEF o
<1>6. msg.gas \in Nat /\ \A n \in 0 .. msg.gas : n \in 0 .. gas
  BY SMTT(30) DEF CallMessage
<1>7. /\ Nested(o.s, below) /\ Rooted(o.s, below, C)
  BY <1>1, <1>4, <1>5, BelowReached
<1>8. CASE o.frame = None
  <2>1. o.status \in StatusCode /\ o.gas \in 0 .. gas
    BY <1>5, <1>6, <1>8 DEF Settled
  <2>2. Executing(o.s, NextFrames(o, below), NextResult(o, below), gas, C)
    BY <1>1, <1>5, <1>7, <1>8, <2>1, DeliverReturns
  <2>3. QED BY <1>2, <1>5, <2>2 DEF o, below
<1>9. CASE o.frame # None
  <2> DEFINE f == o.frame
  <2>1. /\ f \in FrameType /\ f.snapshot = TakeSnapshot(v) /\ f.gas = msg.gas
        /\ f.static = msg.static /\ f.contract = None /\ Alive(ObjectOf(o.s, f.self))
    BY <1>5, <1>9 DEF Entered
  <2> HIDE DEF f
  <2>2. Nested(o.s, Append(below, f))
    BY <1>1, <1>4, <1>5, <2>1, NestedEnter
  <2>3. f.gas <= gas
    BY <2>1
  <2>4. Executing(o.s, NextFrames(o, below), NextResult(o, below), gas, C)
    BY <1>1, <1>5, <1>7, <1>9, <2>1, <2>2, <2>3, DeliverEnters DEF f
  <2>5. QED BY <1>2, <1>5, <2>4 DEF o, below
<1>10. QED BY <1>8, <1>9

\* CREATE and CREATE2.
LEMMA CreateStep ==
    ASSUME NEW t, NEW fs, NEW res, NEW gas \in Nat, NEW C, Executing(t, fs, res, gas, C),
           fs # <<>>, ~fs[Len(fs)].static, NEW r, NEW msg, CanCreate(t, msg),
           msg.sender \in Address, msg.value \in Nat, msg.gas \in 0 .. gas
    PROVE  LET o == Create(t, r, msg)
           IN Executing(o.s, NextFrames(o, WithGas(fs, 0)), NextResult(o, WithGas(fs, 0)), gas, C)
<1> DEFINE o == Create(t, r, msg)
           below == WithGas(fs, 0)
           a == ContractAddress(t, msg)
           v == CreateBegin(t, msg, a)
<1>1. /\ Nested(t, below) /\ NoGas(below) /\ Rooted(t, below, C)
      /\ below \in Seq(FrameType) /\ below # <<>>
      /\ \A i \in 1 .. Len(below) : ~below[i].static
  BY CallerFrames
<1> HIDE DEF below
<1>2. Good(t) /\ a \in Address /\ PrevIncarnation(v, a) < MaxIncarnation
  BY DEF Executing, CanCreate
<1>3. msg.gas \in Nat /\ msg.gas <= gas /\ 0 \in 0 .. gas
  BY SMTT(30)
<1>4. /\ Reaches(t, v) /\ Good(v)
      /\ \/ o = Result(t, "insufficient_balance", msg.gas)
         \/ o = Result(v, "invalid_instruction", 0)
         \/ o.frame # None /\ Deploying(v, o, msg, a)
  BY <1>2, <1>3, CreateOutcome
<1> HIDE DEF o, v
<1>5. Nested(v, below) /\ Rooted(v, below, C)
  BY <1>1, <1>2, <1>4, BelowReached
<1>6. {"insufficient_balance", "invalid_instruction"} \subseteq StatusCode
  BY DEF StatusCode
<1>7. CASE o = Result(t, "insufficient_balance", msg.gas)
  <2>1. o.s = t /\ o.frame = None /\ o.gas \in 0 .. gas /\ o.status \in StatusCode
    BY <1>6, <1>7 DEF Result
  <2>2. Executing(o.s, NextFrames(o, below), NextResult(o, below), gas, C)
    BY <1>1, <1>2, <2>1, DeliverReturns
  <2>3. QED BY <2>2 DEF o, below
<1>8. CASE o = Result(v, "invalid_instruction", 0)
  <2>1. o.s = v /\ o.frame = None /\ o.gas \in 0 .. gas /\ o.status \in StatusCode
    BY <1>3, <1>6, <1>8 DEF Result
  <2>2. Executing(o.s, NextFrames(o, below), NextResult(o, below), gas, C)
    BY <1>1, <1>4, <1>5, <2>1, DeliverReturns
  <2>3. QED BY <2>2 DEF o, below
<1>9. CASE o.frame # None /\ Deploying(v, o, msg, a)
  <2> DEFINE f == o.frame
  <2>1. /\ f \in FrameType /\ f.snapshot = TakeSnapshot(v) /\ f.gas = msg.gas
        /\ f.static = FALSE /\ Alive(ObjectOf(o.s, f.self))
        /\ Reaches(v, o.s) /\ Good(o.s)
    BY <1>9 DEF Deploying
  <2> HIDE DEF f
  <2>2. Nested(o.s, Append(below, f))
    BY <1>1, <1>4, <1>5, <2>1, NestedEnter
  <2>3. f.gas <= gas /\ Rooted(o.s, below, C)
    BY <1>1, <1>3, <1>4, <1>5, <2>1, BelowReached
  <2>4. Executing(o.s, NextFrames(o, below), NextResult(o, below), gas, C)
    BY <1>1, <1>9, <2>1, <2>2, <2>3, DeliverEnters DEF f
  <2>5. QED BY <2>4 DEF o, below
<1>10. QED BY <1>4, <1>7, <1>8, <1>9

\* The frames below the innermost one.
LEMMA BelowFrames ==
    ASSUME NEW t, NEW fs, NEW res, NEW gas \in Nat, NEW C, Executing(t, fs, res, gas, C), fs # <<>>
    PROVE  LET below == Outer(fs)
           IN /\ below \in Seq(FrameType) /\ NoGas(below)
              /\ Len(below) = Len(fs) - 1
              /\ \A i \in 1 .. Len(below) : below[i] = fs[i] /\ i \in 1 .. Len(fs)
              /\ below = <<>> => Len(fs) = 1
              /\ below # <<>> => below[1] = fs[1]
<1> DEFINE below == Outer(fs)
           n == Len(fs)
<1>1. /\ fs \in Seq(FrameType)
      /\ n \in Nat /\ \A i \in 1 .. n : i # n => fs[i].gas = 0
  BY SMTT(30), InnerFrame
<1>2. /\ Len(fs) \in Nat \ {0} /\ below \in Seq(FrameType) /\ Len(below) = Len(fs) - 1
      /\ \A i \in 1 .. Len(fs) - 1 : below[i] = fs[i] /\ i \in 1 .. Len(fs) /\ i < Len(fs)
  BY <1>1, OuterFrames
<1> HIDE DEF below
<1>3. \A i \in 1 .. Len(fs) - 1 : i # Len(fs)
  BY SMTT(30), <1>2
<1>4. NoGas(below)
  BY <1>1, <1>2, <1>3 DEF NoGas
<1>5. below = <<>> => Len(fs) = 1
  BY SMTT(30), <1>2
<1>6. below # <<>> => 1 \in 1 .. Len(fs) - 1
  BY SMTT(30), <1>2
<1>7. QED BY <1>2, <1>4, <1>5, <1>6 DEF below

\* The first none of the elements.
LEMMA EmptySubSeq ==
    ASSUME NEW S, NEW q \in Seq(S)
    PROVE  SubSeq(q, 1, 0) = <<>>
BY SMTT(30)

\* The interpreter returns from the innermost frame in the state v.
LEMMA ReturnStep ==
    ASSUME NEW t, NEW v, NEW fs, NEW res, NEW gas \in Nat, NEW C, Executing(t, fs, res, gas, C),
           fs # <<>>, Reaches(t, v), v = t \/ ~fs[Len(fs)].static,
           NEW r, NEW status \in Status, NEW left \in 0 .. gas, NEW code \in Code
    PROVE  LET o == Returned(v, r, fs[Len(fs)], status, left, code)
           IN /\ Executing(o.s, NextFrames(o, Outer(fs)), NextResult(o, Outer(fs)), gas, C)
              /\ fs[Len(fs)].static => View(o.s).objects = View(t).objects
<1> DEFINE n == Len(fs)
           f == fs[n]
           o == Returned(v, r, f, status, left, code)
           below == Outer(fs)
<1>1. /\ Good(t) /\ Nested(t, fs) /\ fs \in Seq(FrameType) /\ Rooted(t, fs, C)
      /\ n \in Nat /\ n \in 1 .. n /\ 1 \in 1 .. n /\ f \in FrameType
  BY SMTT(30), InnerFrame
<1>2. /\ below \in Seq(FrameType) /\ NoGas(below)
      /\ Len(below) = n - 1
      /\ \A i \in 1 .. Len(below) : below[i] = fs[i] /\ i \in 1 .. n
      /\ below = <<>> => n = 1
      /\ below # <<>> => below[1] = fs[1]
  BY BelowFrames
<1> HIDE DEF below
<1>3. ASSUME NEW i \in 1 .. n, fs[i].static PROVE v = t /\ f.static
  BY <1>1, <1>3, InnerStatic
<1>4. Good(v) /\ Nested(v, fs) /\ Rooted(v, fs, C)
  <2>1. \A i \in 1 .. n : fs[i].static => View(v).objects = View(t).objects
    BY <1>3
  <2>2. QED BY <1>1, <2>1, BelowReached
<1>5. left \in Nat /\ left <= gas /\ \A i \in 0 .. left : i \in 0 .. gas
  BY SMTT(30)
<1>6. /\ o.frame = None /\ o.status \in StatusCode /\ o.gas \in 0 .. left
      /\ \/ /\ o.status = "success" /\ Reaches(v, o.s)
            /\ f.contract = None => o.s = v
         \/ /\ o.status # "success" /\ o.s = RevertToSnapshot(v, f.snapshot)
  <2>1. f \in FrameType /\ left \in Nat /\ Good(v)
    BY <1>1, <1>4, <1>5
  <2> HIDE DEF n, f
  <2>2. QED BY <2>1, ReturnedOutcome
<1>7. f.static => f.contract = None /\ v = t
  BY <1>1, <1>4 DEF Nested, FrameOK
<1>8. o.gas \in 0 .. gas
  BY <1>5, <1>6
<1> HIDE DEF o
<1>9. CASE o.status = "success" /\ Reaches(v, o.s) /\ (f.contract = None => o.s = v)
  <2>1. f.static => o.s = t
    BY <1>7, <1>9
  <2>2. \A i \in 1 .. n : fs[i].static => View(o.s).objects = View(v).objects
    BY <1>3, <2>1
  <2>3. Good(o.s) /\ Nested(o.s, fs) /\ Rooted(o.s, fs, C)
    BY <1>4, <1>9, <2>2, BelowReached
  <2>4. Nested(o.s, below)
    BY <2>3, NestedLeave DEF below
  <2>5. Rooted(o.s, below, C)
    BY <1>2, <2>3 DEF Rooted
  <2>6. Executing(o.s, NextFrames(o, below), NextResult(o, below), gas, C)
    BY <1>2, <1>6, <1>8, <1>9, <2>3, <2>4, <2>5, DeliverReturns
  <2>7. QED BY <2>1, <2>6 DEF o, below
<1>10. CASE o.status # "success" /\ o.s = RevertToSnapshot(v, f.snapshot)
  <2>1. /\ Good(o.s) /\ Nested(o.s, below)
        /\ \A i \in 1 .. n - 1 : Keeps(v, o.s, fs[i].snapshot)
        /\ View(o.s) = ViewAt(v, f.snapshot.journal_size)
        /\ o.s.logs = SubSeq(v.logs, 1, f.snapshot.log_size)
        /\ f.static => View(o.s).objects = View(v).objects
    BY SMTT(30), <1>4, <1>10, NestedRevert DEF below
  <2>2. Rooted(o.s, below, C)
    <3>1. CASE below = <<>>
      BY <3>1 DEF Rooted
    <3>2. CASE below # <<>>
      <4>1. Rooted(v, below, C)
        BY <1>2, <1>4, <3>2 DEF Rooted
      <4>2. \A i \in 1 .. Len(below) : Keeps(v, o.s, below[i].snapshot)
        BY <1>2, <2>1
      <4>3. QED BY <1>2, <3>2, <4>1, <4>2, RootedKept
    <3>3. QED BY <3>1, <3>2
  <2>3. below = <<>> => o.s.logs = <<>> /\ View(o.s) \in C
    <3>1. HAVE below = <<>>
    <3>2. f = fs[1]
      BY <1>2, <3>1
    <3>3. f.snapshot.log_size = 0 /\ ViewAt(v, f.snapshot.journal_size) \in C
      BY <1>4, <3>2 DEF Rooted
    <3>4. SubSeq(v.logs, 1, 0) = <<>>
      BY <1>4, GoodFields, EmptySubSeq DEF Good
    <3>5. QED BY <2>1, <3>3, <3>4
  <2>4. Executing(o.s, NextFrames(o, below), NextResult(o, below), gas, C)
    BY <1>2, <1>6, <1>8, <2>1, <2>2, <2>3, DeliverReturns
  <2>5. f.static => View(o.s).objects = View(t).objects
    BY <1>7, <2>1
  <2>6. QED BY <2>4, <2>5 DEF o, below
<1>11. QED BY <1>6, <1>9, <1>10

\* No frame runs before EVM::execute.
LEMMA NoFrames ==
    ASSUME NEW t, NEW C
    PROVE  Nested(t, <<>>) /\ NoGas(<<>>) /\ Rooted(t, <<>>, C) /\ <<>> \in Seq(FrameType)
<1>1. <<>> \in Seq(FrameType) /\ 1 .. Len(<<>>) = {}
  BY SMTT(30)
<1>2. QED BY <1>1 DEF Nested, NoGas, Rooted

\* EVM::execute enters the frame of the transaction, whose snapshot is of v.
LEMMA FirstFrame ==
    ASSUME NEW v, NEW o, NEW gas \in Nat, NEW C, Good(v), v.logs = <<>>, View(v) \in C,
           Reaches(v, o.s), Good(o.s), o.frame # None, o.frame \in FrameType, o.frame.gas = gas,
           o.frame.snapshot = TakeSnapshot(v), ~o.frame.static, Alive(ObjectOf(o.s, o.frame.self))
    PROVE  Executing(o.s, NextFrames(o, <<>>), NextResult(o, <<>>), gas, C)
<1> DEFINE f == o.frame
           none == <<>>
<1>1. /\ Nested(v, none) /\ NoGas(none) /\ none \in Seq(FrameType) /\ Len(none) = 0
      /\ 1 .. 0 = {}
  <2>1. Len(none) = 0 /\ 1 .. 0 = {}
    BY SMTT(30)
  <2>2. QED BY <2>1, NoFrames
<1> HIDE DEF f
<1>2. /\ f \in FrameType /\ f.snapshot = TakeSnapshot(v) /\ Alive(ObjectOf(o.s, f.self)) /\ ~f.static
  BY DEF f
<1>3. f.snapshot.log_size = 0
  <2>1. Len(v.logs) = 0
    BY SMTT(30)
  <2>2. QED BY <1>2, <2>1, TakenUsable
<1>4. none = <<>>
  OBVIOUS
<1> HIDE DEF none
<1>5. Nested(o.s, Append(none, f)) /\ ViewAt(o.s, f.snapshot.journal_size) = View(v)
  BY <1>1, <1>2, NestedEnter
<1>6. f.gas <= gas
  BY SMTT(30) DEF f
<1>7. Executing(o.s, NextFrames(o, none), NextResult(o, none), gas, C)
  BY <1>1, <1>3, <1>4, <1>5, <1>6, DeliverEnters DEF f
<1>8. QED BY <1>4, <1>7

\* EVM::execute returns at once.
LEMMA AtOnce ==
    ASSUME NEW o, NEW gas \in Nat, NEW C, Good(o.s), o.frame = None, o.status \in StatusCode,
           o.gas \in 0 .. gas, o.status # "success" => o.s.logs = <<>> /\ View(o.s) \in C
    PROVE  Executing(o.s, NextFrames(o, <<>>), NextResult(o, <<>>), gas, C)
<1> DEFINE none == <<>>
<1>1. Nested(o.s, none) /\ NoGas(none) /\ Rooted(o.s, none, C)
  BY NoFrames
<1> HIDE DEF none
<1>2. Executing(o.s, NextFrames(o, none), NextResult(o, none), gas, C)
  BY <1>1, DeliverReturns
<1>3. QED BY <1>2 DEF none

(***************************************************************************)
(* The host's logs, the gas of a transaction and a new block.              *)
(***************************************************************************)

\* emit_log.
LEMMA LogContinues ==
    ASSUME NEW t, NEW log \in LogEntry, Good(t)
    PROVE  LET u == [t EXCEPT !.logs = Append(@, log)]
           IN Continues(t, u) /\ LivingKept(t, u)
<1> DEFINE u == [t EXCEPT !.logs = Append(@, log)]
<1>1. /\ t \in IntraBlockStateType /\ t.logs \in Seq(LogEntry) /\ Len(t.logs) \in Nat
      /\ Len(t.journal) \in Nat
  BY GoodFields DEF Good
<1>2. u = [t EXCEPT !.logs = Append(t.logs, log)] /\ Append(t.logs, log) \in Seq(LogEntry)
  BY SMTT(30), <1>1 DEF IntraBlockStateType
<1>3. /\ u \in IntraBlockStateType /\ SameAccounts(t, u) /\ u.logs = Append(t.logs, log)
      /\ u.journal = t.journal
      /\ u.self_destructs = t.self_destructs /\ u.touched = t.touched
      /\ u.accessed_addresses = t.accessed_addresses
      /\ u.accessed_storage_keys = t.accessed_storage_keys
  BY <1>1, <1>2 DEF IntraBlockStateType, SameAccounts
<1> HIDE DEF u
<1>4. View(u) = View(t)
  BY <1>3, ViewOfSubstate DEF View
<1>5. /\ \A n : ViewAt(u, n) = ViewAt(t, n) /\ NextDelta(u, n) = NextDelta(t, n)
  BY <1>3, <1>4 DEF ViewAt, NextDelta
<1>6. u.db = t.db
  BY <1>3 DEF SameAccounts
<1>7. Good(u)
  <2>1. ASSUME NEW j \in 1 .. Len(u.journal)
        PROVE  Link(u.db, u.journal[j].delta, ViewAt(u, j - 1), ViewAt(u, j), NextDelta(u, j))
    <3>1. Link(t.db, t.journal[j].delta, ViewAt(t, j - 1), ViewAt(t, j), NextDelta(t, j))
      BY <1>3 DEF Good, Linked
    <3>2. /\ ViewAt(u, j - 1) = ViewAt(t, j - 1) /\ ViewAt(u, j) = ViewAt(t, j)
          /\ NextDelta(u, j) = NextDelta(t, j) /\ u.journal[j].delta = t.journal[j].delta
      BY <1>3, <1>5
    <3>3. QED BY <1>6, <3>1, <3>2
  <2>2. QED BY <1>3, <2>1 DEF Good, Linked
<1>8. ASSUME NEW n \in 0 .. Len(t.logs) PROVE SubSeq(u.logs, 1, n) = SubSeq(t.logs, 1, n)
  BY SMTT(30), <1>1, <1>3
<1>9. Len(t.logs) <= Len(u.logs) /\ Len(t.journal) <= Len(u.journal)
  BY SMTT(30), <1>1, <1>3
<1>10. Continues(t, u)
  BY <1>3, <1>5, <1>6, <1>7, <1>8, <1>9 DEF Continues
<1>11. LivingKept(t, u)
  BY <1>3, SameAccountsView
<1>12. QED BY <1>10, <1>11 DEF u

\* intrinsic_gas is a sum of natural numbers.
LEMMA IntrinsicGasSum ==
    ASSUME NEW x \in Transaction, NEW r, NEW m \in Nat, NEW n \in Nat,
           m = Cardinality(ListedAccounts(x.access_list)),
           n = Cardinality(ListedKeys(x.access_list))
    PROVE  IntrinsicGas(x, r) \in Nat
<1>1. x.zero_bytes \in Nat /\ x.non_zero_bytes \in Nat
  BY TransactionFields
<1>2. /\ m * kAccessListAddressCost \in Nat /\ n * kAccessListStorageKeyCost \in Nat
  BY SMTT(30) DEF kAccessListAddressCost, kAccessListStorageKeyCost
<1>3. /\ x.non_zero_bytes * (IF r >= ISTANBUL THEN kGTxDataNonZeroIstanbul ELSE kGTxDataNonZeroFrontier) \in Nat
      /\ x.zero_bytes * kGTxDataZero \in Nat
  BY SMTT(30), <1>1 DEF kGTxDataNonZeroIstanbul, kGTxDataNonZeroFrontier, kGTxDataZero
<1>4. (IF x.to = None /\ r >= HOMESTEAD THEN kGTxCreate ELSE 0) \in Nat /\ kGTransaction \in Nat
  BY SMTT(30) DEF kGTxCreate, kGTransaction
<1>5. IntrinsicGas(x, r) = kGTransaction
        + (IF x.to = None /\ r >= HOMESTEAD THEN kGTxCreate ELSE 0)
        + m * kAccessListAddressCost + n * kAccessListStorageKeyCost
        + x.non_zero_bytes * (IF r >= ISTANBUL THEN kGTxDataNonZeroIstanbul ELSE kGTxDataNonZeroFrontier)
        + x.zero_bytes * kGTxDataZero
  BY DEF IntrinsicGas
<1>6. QED BY SMTT(30), <1>2, <1>3, <1>4, <1>5

\* The IntraBlockState of a new block.
LEMMA FreshGood ==
    ASSUME NEW db \in StateBuffer
    PROVE  Good(Fresh(db))
<1>1. 0 \in Uint
  BY SMTT(30), WidthAssumption DEF Uint
<1>2. [a \in Address |-> None] \in [Address -> Object \cup {None}]
      /\ [a \in Address |-> None] \in [Address -> Storage \cup {None}]
  OBVIOUS
<1>3. <<>> \in Seq([delta: Delta, before: ViewType]) /\ <<>> \in Seq(LogEntry)
  BY SMTT(30)
<1>4. Fresh(db) \in IntraBlockStateType /\ Fresh(db).journal = <<>>
  BY <1>1, <1>2, <1>3 DEF Fresh, IntraBlockStateType
<1>5. 1 .. Len(Fresh(db).journal) = {}
  BY SMTT(30), <1>4
<1>6. QED BY <1>4, <1>5 DEF Good, Linked

\* The frames and the result together have at most the gas of the transaction.
LEMMA GasInHand ==
    ASSUME NEW gas \in Nat, NEW fs \in Seq(FrameType), NEW r, GasAtTop(fs, gas),
           fs = <<>> => r \in ResultType /\ r.gas <= gas, fs # <<>> => r = None
    PROVE  /\ \A i \in DOMAIN fs : fs[i].gas >= 0
           /\ SumGas(fs) + (IF r = None THEN 0 ELSE r.gas) \in 0 .. gas
<1>1. /\ Len(fs) \in Nat /\ DOMAIN fs = 1 .. Len(fs)
      /\ \A i \in 1 .. Len(fs) : fs[i] \in FrameType
  BY SequenceElements
<1>2. \A i \in DOMAIN fs : fs[i].gas \in Nat
  BY <1>1, FrameFields
<1>3. SumGas(fs) = IF fs = <<>> THEN 0 ELSE fs[Len(fs)].gas
  BY SumGasAtTop
<1>4. CASE fs = <<>>
  <2>1. r # None /\ r.gas \in Nat
    BY <1>4, EvmAssumption DEF ResultType
  <2>2. QED BY SMTT(30), <1>3, <1>4, <2>1
<1>5. CASE fs # <<>>
  <2>1. Len(fs) \in 1 .. Len(fs)
    BY SMTT(30), <1>5
  <2>2. fs[Len(fs)].gas <= gas /\ fs[Len(fs)].gas \in Nat
    BY <1>1, <1>2, <2>1 DEF GasAtTop
  <2>3. QED BY SMTT(30), <1>2, <1>3, <1>5, <2>2
<1>6. QED BY <1>4, <1>5

=============================================================================
