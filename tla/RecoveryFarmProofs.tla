------------------------- MODULE RecoveryFarmProofs -------------------------
(***************************************************************************)
(* The theorems about the recovery farm: for every table of bodies, every  *)
(* range of blocks, every number of workers and every size of a batch, the *)
(* results are collected in the order of the blocks.                       *)
(*                                                                         *)
(* The proof follows a block through the farm.  The blocks are dealt into  *)
(* batches, batch j having the blocks from bounds[j] to bounds[j + 1] - 1. *)
(* A batch is with the main thread, then with a worker, then its results   *)
(* are with the worker, and at last they are collected; the workers report *)
(* the batches one after the other.                                        *)
(***************************************************************************)
EXTENDS RecoveryFarm, FiniteSetTheorems, TLAPS

(***************************************************************************)
(* Types.                                                                  *)
(***************************************************************************)
Package == [block: Nat, txn: Txn]
Result == [block: Nat, count: Nat]
Record == [block: Nat, hash: Nat, count: Nat]
Finished == {"ResultsReady", "Error", "Aborted"}

RecoveryWorker == [state: {"kStopped", "kStarting", "kStarted", "kStopping"},
                   kicked: BOOLEAN,
                   thread: {"none", "new", "entered", "waiting", "working", "exited"},
                   status: {"Idle", "Working"} \cup Finished,
                   batch: Seq(Package) \cup {None},
                   batch_id: Nat,
                   results: Seq(Result),
                   step: {"recover", "signal", "release"}]

\* recover reads bodies, ...
Reads == {"read", "fill"}
\* ... dispatches a batch, ...
Dispatches == {"dispatch", "find", "starting", "bufferize"}
\* ... and ends.
Ends_ == {"wait", "drain", "load", "stop", "join", "destroy", "destroyjoin", "done"}

TypeOK == /\ bodies \in BodiesTables
          /\ pc \in Reads \cup Dispatches \cup Ends_
          /\ cursor \in Nat \ {0} /\ expected \in From .. To
          /\ batch \in Seq(Package) /\ batch_id \in Nat /\ renew \in BOOLEAN
          /\ joining \in Nat
          /\ workers \in Seq(RecoveryWorker)
          /\ queue \in Seq([worker: Nat, batch_id: Nat]) /\ completed \in Nat
          /\ header \in Nat /\ collected \in Seq(Record)

(***************************************************************************)
(* The protocol between the main thread and the workers.                   *)
(***************************************************************************)

\* A worker that has been kicked has work, and one that recovers has, too; it
\* is not kicked again before it has reported.
Busy(w) == /\ w.thread = "working" /\ w.step = "recover" => w.status = "Working"
           /\ w.thread = "working" /\ w.step = "signal" => w.status \in Finished
           /\ w.kicked /\ w.state \in {"kStarting", "kStarted"} => w.status = "Working"
           /\ w.thread = "working" /\ w.step # "release" => ~w.kicked \/ w.state = "kStopping"
           /\ w.thread \in {"entered", "waiting", "working"} => w.state \in {"kStarted", "kStopping"}

Signalling(w) == w.thread = "working" /\ w.step = "signal"

\* The reports in the queue are of different workers, which have finished and
\* have not been given other work.
Reports(ws, q) == /\ \A n \in 1 .. Len(q) :
                       /\ q[n].worker \in DOMAIN ws
                       /\ ws[q[n].worker].status \in Finished
                       /\ ~Signalling(ws[q[n].worker])
                       /\ ws[q[n].worker].batch_id = q[n].batch_id
                  /\ \A n, m \in 1 .. Len(q) : q[n].worker = q[m].worker => n = m

AllBusy(ws) == \A i \in DOMAIN ws : Busy(ws[i])

(***************************************************************************)
(* The blocks.                                                             *)
(***************************************************************************)
Empty(table) == {b \in Range(table) : b.canonical /\ b.txns = <<>>}

\* How many wanted blocks, and how many empty ones, come before block num.
Rank(table, num) == Cardinality({b \in Wanted(table) : b.num < num})
Skipped(table, num) == Cardinality({b \in Empty(table) : b.num < num})

\* The blocks before block next are all there.
Counted(table, next) ==
    \A num \in From .. next : Rank(table, num) + Skipped(table, num) = num - From

\* results are those of the wanted blocks from lo to hi - 1, in order.
Covers(table, res, lo, hi) ==
    /\ Len(res) = Rank(table, hi) - Rank(table, lo)
    /\ \A n \in 1 .. Len(res) :
         \E b \in Wanted(table) :
           /\ lo <= b.num /\ b.num < hi /\ Rank(table, b.num) - Rank(table, lo) + 1 = n
           /\ res[n].block = b.num /\ res[n].count = Len(b.txns)

Enumerated(S) == \A n \in 1 .. Cardinality(S) : \E x \in S : Cardinality({y \in S : y <= x}) = n

\* packages are those of the blocks from lo to hi - 1.
Below(packages, hi) == \A i \in 1 .. Len(packages) : packages[i].block < hi
Batched(table, packages, lo, hi) == /\ Below(packages, hi)
                                    /\ Enumerated(Ends(packages))
                                    /\ Covers(table, BlockResults(packages), lo, hi)

\* The batch of worker w, or its results; id is the next batch's.
Carries(table, w, bounds, id) ==
    /\ w.status # "Idle" => w.batch_id < id
    /\ w.status = "Working" /\ w.batch # None =>
         Batched(table, w.batch, bounds[w.batch_id], bounds[w.batch_id + 1])
    /\ w.status = "ResultsReady" =>
         Covers(table, w.results, bounds[w.batch_id], bounds[w.batch_id + 1])

Carried(table, ws, bounds, id) == \A i \in DOMAIN ws : Carries(table, ws[i], bounds, id)

\* The main thread is at the canonical body of the block that it expects.
AtBody == pc = "fill" \/ (pc \in Dispatches /\ renew) =>
            cursor \in DOMAIN bodies /\ Body_.num = expected /\ Body_.canonical

\* Results may still be collected.
Collecting == pc \in Reads \cup Dispatches \cup {"drain"} \/ (pc = "wait" /\ ret = "Succeded")

\* The blocks up to top are dealt into batches 0 to id - 1, and the next one.
Bounds(bounds, id, top) == /\ bounds \in [0 .. id -> From .. top + 1] /\ bounds[0] = From
                           /\ \A j \in 1 .. id : bounds[j - 1] <= bounds[j]

\* The batches in the queue are the last ones reported.
Turns(q, done, id) == /\ Len(q) <= done /\ done <= id
                      /\ \A n \in 1 .. Len(q) : q[n].batch_id = done - Len(q) + n - 1

Pulled == completed - Len(queue)

\* The batch of the main thread ends before block next, the collected results before block last.
Dealt(bounds, next, last) ==
    /\ Bounds(bounds, batch_id, expected)
    /\ next \in From .. expected + 1 /\ bounds[batch_id] <= next
    /\ pc \in Reads \/ (pc \in Dispatches /\ renew) => next = expected
    /\ pc \in Reads \cup Dispatches => Batched(bodies, batch, bounds[batch_id], next)
    /\ Carried(bodies, workers, bounds, batch_id)
    /\ Turns(queue, completed, batch_id)
    /\ last \in From .. expected + 1 /\ Covers(bodies, collected, From, last)
    /\ Collecting => last = bounds[Pulled]

\* The records are stored under one header after the other.
Keyed(col) == \A n \in 1 .. Len(col) : col[n].hash = From + n - 1
Headers == header = From + Len(collected) /\ Keyed(collected)

FarmInv == /\ TypeOK /\ AllBusy(workers) /\ Reports(workers, queue)
           /\ Counted(bodies, expected) /\ AtBody /\ Headers
           /\ Collecting => ret = "Succeded"
           /\ \E bounds \in [0 .. batch_id -> From .. expected + 1],
                 next \in From .. expected + 1, last \in From .. expected + 1 :
                Dealt(bounds, next, last)

-----------------------------------------------------------------------------
(***************************************************************************)
(* Counting blocks.                                                        *)
(***************************************************************************)
IsTable(table) == table \in Seq(Body) /\ InKeyOrder(table)

\* A table has finitely many bodies, from block From on, and at most one of
\* each number is canonical.
LEMMA TableFacts ==
    ASSUME NEW table, IsTable(table)
    PROVE  /\ IsFiniteSet(Range(table))
           /\ \A b \in Range(table) : b \in Body /\ b.num \in Nat /\ From <= b.num
           /\ \A b, c \in Range(table) : b.canonical /\ c.canonical /\ b.num = c.num => b = c
<1>1. /\ Len(table) \in Nat /\ DOMAIN table = 1 .. Len(table) /\ table \in Seq(Body)
      /\ \A i \in 1 .. Len(table) : table[i] \in Body
  BY DEF IsTable
<1>2. IsFiniteSet(Range(table))
  <2>1. table \in Surjection(1 .. Len(table), Range(table))
    BY <1>1 DEF Surjection, Range
  <2>2. IsFiniteSet(1 .. Len(table))
    BY <1>1, FS_Interval
  <2>3. QED BY <2>1, <2>2, FS_Surjection
<1>3. \A b \in Body : b.num \in Nat
  BY DEF Body
<1>4. ASSUME NEW b \in Range(table)
      PROVE  b \in Body /\ b.num \in Nat /\ From <= b.num
  <2>1. PICK i \in 1 .. Len(table) : b = table[i]
    BY <1>1, <1>4 DEF Range
  <2>2. table[i].num >= From
    BY <1>1, <2>1 DEF IsTable, InKeyOrder
  <2>3. QED BY <1>1, <1>3, <2>1, <2>2, FarmAssumption
<1>5. ASSUME NEW b \in Range(table), NEW c \in Range(table), b.canonical, c.canonical, b.num = c.num
      PROVE  b = c
  <2>1. PICK i \in 1 .. Len(table) : b = table[i]
    BY <1>1, <1>5 DEF Range
  <2>2. PICK j \in 1 .. Len(table) : c = table[j]
    BY <1>1, <1>5 DEF Range
  <2>3. ~(i < j) /\ ~(j < i)
    BY <1>1, <1>5, <2>1, <2>2 DEF IsTable, InKeyOrder
  <2>4. i = j
    BY <1>1, <2>3
  <2>5. QED BY <2>1, <2>2, <2>4
<1>6. QED BY <1>2, <1>4, <1>5

\* Counts are natural numbers.
LEMMA CountsType ==
    ASSUME NEW table, IsTable(table), NEW num
    PROVE  Rank(table, num) \in Nat /\ Skipped(table, num) \in Nat
<1> DEFINE W == {b \in Wanted(table) : b.num < num}
           E == {b \in Empty(table) : b.num < num}
<1>1. W \in SUBSET Range(table) /\ E \in SUBSET Range(table)
  BY DEF Wanted, Empty
<1>2. IsFiniteSet(W) /\ IsFiniteSet(E)
  BY ZenonT(30), <1>1, TableFacts, FS_Subset
<1>3. QED BY <1>2, FS_CardinalityType DEF Rank, Skipped

\* Nothing comes before block From.
LEMMA CountsFrom ==
    ASSUME NEW table, IsTable(table)
    PROVE  Rank(table, From) = 0 /\ Skipped(table, From) = 0
<1>1. \A b \in Range(table) : ~(b.num < From)
  BY TableFacts, FarmAssumption
<1>2. {b \in Wanted(table) : b.num < From} = {} /\ {b \in Empty(table) : b.num < From} = {}
  BY ZenonT(30), <1>1 DEF Wanted, Empty
<1>3. QED BY <1>2, FS_EmptySet DEF Rank, Skipped

\* A canonical block adds one to one of the counts.
LEMMA CountsNext ==
    ASSUME NEW table, IsTable(table), NEW b \in Range(table), b.canonical, b.num <= To
    PROVE  /\ b.txns # <<>> => /\ b \in Wanted(table)
                               /\ Rank(table, b.num + 1) = Rank(table, b.num) + 1
                               /\ Skipped(table, b.num + 1) = Skipped(table, b.num)
           /\ b.txns = <<>> => /\ Rank(table, b.num + 1) = Rank(table, b.num)
                               /\ Skipped(table, b.num + 1) = Skipped(table, b.num) + 1
<1> DEFINE W(n) == {c \in Wanted(table) : c.num < n}
           E(n) == {c \in Empty(table) : c.num < n}
<1>1. /\ b.num \in Nat /\ \A c \in Range(table) : c.num \in Nat
      /\ \A c \in Range(table) : c.canonical /\ c.num = b.num => c = b
  BY ZenonT(30), TableFacts
<1>2. \A n : IsFiniteSet(W(n)) /\ IsFiniteSet(E(n))
  <2>1. \A n : W(n) \in SUBSET Range(table) /\ E(n) \in SUBSET Range(table)
    BY DEF Wanted, Empty
  <2>2. QED BY ZenonT(30), <2>1, TableFacts, FS_Subset
<1>3. \A c \in Range(table) : c.num < b.num + 1 <=> c.num < b.num \/ c.num = b.num
  BY <1>1
<1>4. b \notin W(b.num) /\ b \notin E(b.num)
  BY <1>1
<1>5. CASE b.txns # <<>>
  <2>1. b \in Wanted(table) /\ b \notin Empty(table)
    BY <1>5 DEF Wanted, Empty
  <2>2. W(b.num + 1) = W(b.num) \cup {b}
    BY ZenonT(30), <1>1, <1>3, <2>1 DEF Wanted
  <2>3. E(b.num + 1) = E(b.num)
    BY ZenonT(30), <1>1, <1>3, <2>1 DEF Empty
  <2>4. Cardinality(W(b.num + 1)) = Cardinality(W(b.num)) + 1
    BY ZenonT(30), <1>2, <1>4, <2>2, FS_AddElement
  <2>5. QED BY ZenonT(30), <1>5, <2>1, <2>3, <2>4 DEF Rank, Skipped
<1>6. CASE b.txns = <<>>
  <2>1. b \in Empty(table) /\ b \notin Wanted(table)
    BY <1>6 DEF Wanted, Empty
  <2>2. E(b.num + 1) = E(b.num) \cup {b}
    BY ZenonT(30), <1>1, <1>3, <2>1 DEF Empty
  <2>3. W(b.num + 1) = W(b.num)
    BY ZenonT(30), <1>1, <1>3, <2>1 DEF Wanted
  <2>4. Cardinality(E(b.num + 1)) = Cardinality(E(b.num)) + 1
    BY ZenonT(30), <1>2, <1>4, <2>2, FS_AddElement
  <2>5. QED BY ZenonT(30), <1>6, <2>3, <2>4 DEF Rank, Skipped
<1>7. QED BY <1>5, <1>6

\* Reading one more block goes on counting.
LEMMA CountedNext ==
    ASSUME NEW table, IsTable(table), NEW b \in Range(table), b.canonical, b.num <= To,
           Counted(table, b.num)
    PROVE  Counted(table, b.num + 1)
<1>1. b.num \in Nat /\ From <= b.num /\ From \in Nat
  BY TableFacts, FarmAssumption
<1>2. ASSUME NEW num \in From .. b.num + 1
      PROVE  Rank(table, num) + Skipped(table, num) = num - From
  <2>1. CASE num \in From .. b.num
    BY <2>1 DEF Counted
  <2>2. CASE num = b.num + 1
    <3>1. Rank(table, b.num) + Skipped(table, b.num) = b.num - From
      BY <1>1 DEF Counted
    <3>2. /\ Rank(table, b.num) \in Nat /\ Skipped(table, b.num) \in Nat
      BY CountsType
    <3>3. \/ /\ Rank(table, b.num + 1) = Rank(table, b.num) + 1
             /\ Skipped(table, b.num + 1) = Skipped(table, b.num)
          \/ /\ Rank(table, b.num + 1) = Rank(table, b.num)
             /\ Skipped(table, b.num + 1) = Skipped(table, b.num) + 1
      BY ZenonT(30), CountsNext
    <3>4. QED BY <1>1, <2>2, <3>1, <3>2, <3>3
  <2>3. QED BY <1>1, <2>1, <2>2
<1>3. QED BY <1>2 DEF Counted

(***************************************************************************)
(* Results.                                                                *)
(***************************************************************************)

\* There is nothing to recover in an empty range.
LEMMA CoversNothing ==
    ASSUME NEW table, IsTable(table), NEW lo
    PROVE  Covers(table, <<>>, lo, lo)
BY CountsType DEF Covers

\* The result of the next block.
LEMMA CoversAppend ==
    ASSUME NEW table, IsTable(table), NEW b \in Range(table), b.canonical, b.num <= To,
           b.txns # <<>>, NEW S, NEW res \in Seq(S), NEW lo \in Nat, lo <= b.num,
           Covers(table, res, lo, b.num), NEW r \in S, r.block = b.num, r.count = Len(b.txns)
    PROVE  Covers(table, Append(res, r), lo, b.num + 1)
<1> DEFINE new == Append(res, r)
<1>1. /\ b \in Wanted(table) /\ Rank(table, b.num + 1) = Rank(table, b.num) + 1
      /\ Rank(table, b.num) \in Nat /\ Rank(table, lo) \in Nat /\ b.num \in Nat
  BY ZenonT(30), CountsNext, CountsType, TableFacts
<1>2. Len(res) \in Nat /\ Len(res) = Rank(table, b.num) - Rank(table, lo)
  BY DEF Covers
<1>3. /\ Len(new) = Len(res) + 1 /\ new[Len(res) + 1] = r
      /\ \A n \in 1 .. Len(res) : new[n] = res[n]
  OBVIOUS
<1> HIDE DEF new
<1>4. ASSUME NEW n \in 1 .. Len(new)
      PROVE  \E c \in Wanted(table) :
               /\ lo <= c.num /\ c.num < b.num + 1 /\ Rank(table, c.num) - Rank(table, lo) + 1 = n
               /\ new[n].block = c.num /\ new[n].count = Len(c.txns)
  <2>1. CASE n \in 1 .. Len(res)
    <3>1. PICK c \in Wanted(table) :
            /\ lo <= c.num /\ c.num < b.num /\ Rank(table, c.num) - Rank(table, lo) + 1 = n
            /\ res[n].block = c.num /\ res[n].count = Len(c.txns)
      BY ZenonT(30), <2>1 DEF Covers
    <3>2. c.num \in Nat
      BY TableFacts DEF Wanted
    <3>3. c.num < b.num + 1
      BY <1>1, <3>1, <3>2
    <3>4. QED BY ZenonT(30), <1>3, <2>1, <3>1, <3>3
  <2>2. CASE n = Len(res) + 1
    <3>1. b.num < b.num + 1 /\ Rank(table, b.num) - Rank(table, lo) + 1 = n
      BY <1>1, <1>2, <2>2
    <3>2. QED BY ZenonT(30), <1>1, <1>3, <2>2, <3>1
  <2>3. QED BY <1>2, <1>3, <2>1, <2>2
<1>5. Len(new) = Rank(table, b.num + 1) - Rank(table, lo)
  BY <1>1, <1>2, <1>3
<1>6. Covers(table, new, lo, b.num + 1)
  BY ZenonT(30), <1>4, <1>5 DEF Covers
<1>7. QED BY <1>6 DEF new

\* A block without transactions has no result.
LEMMA CoversSkip ==
    ASSUME NEW table, IsTable(table), NEW b \in Range(table), b.canonical, b.num <= To,
           b.txns = <<>>, NEW res, NEW lo, Covers(table, res, lo, b.num)
    PROVE  Covers(table, res, lo, b.num + 1)
<1>1. Rank(table, b.num + 1) = Rank(table, b.num) /\ b.num \in Nat
  BY ZenonT(30), CountsNext, TableFacts
<1>2. \A c \in Wanted(table) : c.num < b.num => c.num < b.num + 1
  BY <1>1, TableFacts DEF Wanted
<1>3. QED BY ZenonT(30), <1>1, <1>2 DEF Covers

\* t has the results q and then the results r.
Follows(t, q, r) ==
    /\ Len(t) = Len(q) + Len(r)
    /\ \A n \in 1 .. Len(q) : t[n].block = q[n].block /\ t[n].count = q[n].count
    /\ \A n \in 1 .. Len(r) : /\ t[Len(q) + n].block = r[n].block
                              /\ t[Len(q) + n].count = r[n].count

\* An index into two sequences one after the other is one of the first or one of the second.
LEMMA InEither ==
    ASSUME NEW x \in Nat, NEW y \in Nat, NEW z, z = x + y, NEW n \in 1 .. z
    PROVE  n \in 1 .. x \/ n - x \in 1 .. y
  OBVIOUS

\* Places add up: what is k places before mid, and n - k places after it.
LEMMA RankSum ==
    ASSUME NEW table, IsTable(table), NEW lo, NEW mid, NEW num, NEW k \in Nat, NEW n \in Nat,
           k = Rank(table, mid) - Rank(table, lo), Rank(table, num) - Rank(table, mid) + 1 = n - k
    PROVE  Rank(table, num) - Rank(table, lo) + 1 = n
<1>1. Rank(table, lo) \in Nat /\ Rank(table, mid) \in Nat /\ Rank(table, num) \in Nat
  BY CountsType
<1>2. QED BY <1>1

\* The results of one range after those of another.
LEMMA CoversConcat ==
    ASSUME NEW table, IsTable(table), NEW lo \in Nat, NEW mid \in Nat, NEW hi \in Nat,
           NEW S, NEW T, NEW q \in Seq(S), NEW r \in Seq(T),
           Covers(table, q, lo, mid), Covers(table, r, mid, hi),
           lo <= mid, mid <= hi, NEW t, Follows(t, q, r)
    PROVE  Covers(table, t, lo, hi)
<1>1. /\ Len(q) \in Nat /\ Len(r) \in Nat /\ Len(t) = Len(q) + Len(r)
      /\ Len(q) = Rank(table, mid) - Rank(table, lo) /\ Len(r) = Rank(table, hi) - Rank(table, mid)
      /\ Rank(table, lo) \in Nat /\ Rank(table, mid) \in Nat /\ Rank(table, hi) \in Nat
  BY CountsType DEF Covers, Follows
<1>2. \A c \in Wanted(table) : c.num \in Nat /\ Rank(table, c.num) \in Nat
  BY TableFacts, CountsType DEF Wanted
<1>3. ASSUME NEW n \in 1 .. Len(t)
      PROVE  \E b \in Wanted(table) :
               /\ lo <= b.num /\ b.num < hi /\ Rank(table, b.num) - Rank(table, lo) + 1 = n
               /\ t[n].block = b.num /\ t[n].count = Len(b.txns)
  <2>1. CASE n \in 1 .. Len(q)
    <3>1. PICK b \in Wanted(table) :
            /\ lo <= b.num /\ b.num < mid /\ Rank(table, b.num) - Rank(table, lo) + 1 = n
            /\ q[n].block = b.num /\ q[n].count = Len(b.txns)
      BY ZenonT(30), <2>1 DEF Covers
    <3>2. b.num < hi
      BY <1>2, <3>1
    <3>3. QED BY ZenonT(30), <2>1, <3>1, <3>2 DEF Follows
  <2>2. CASE n - Len(q) \in 1 .. Len(r)
    <3> DEFINE m == n - Len(q)
    <3>1. PICK b \in Wanted(table) :
            /\ mid <= b.num /\ b.num < hi /\ Rank(table, b.num) - Rank(table, mid) + 1 = m
            /\ r[m].block = b.num /\ r[m].count = Len(b.txns)
      BY ZenonT(30), <2>2 DEF Covers
    <3>2. m \in 1 .. Len(r) /\ Len(q) + m = n
      BY SMTT(30), <1>1, <2>2
    <3>3. lo <= b.num /\ Rank(table, b.num) - Rank(table, lo) + 1 = n
      <4>1. b.num \in Nat /\ Rank(table, b.num) \in Nat
        BY <1>2
      <4>2. mid <= b.num /\ Rank(table, b.num) - Rank(table, mid) + 1 = n - Len(q)
        BY ZenonT(30), <3>1
      <4>3. n \in Nat
        BY <1>1
      <4>4. lo <= b.num
        BY <4>1, <4>2
      <4>5. Len(q) \in Nat /\ Len(q) = Rank(table, mid) - Rank(table, lo)
        BY ZenonT(30), <1>1
      <4>6. Rank(table, b.num) - Rank(table, lo) + 1 = n
        BY SMTT(30), <4>2, <4>3, <4>5, RankSum
      <4>7. QED BY <4>4, <4>6
    <3> HIDE DEF m
    <3>4. t[n].block = b.num /\ t[n].count = Len(b.txns)
      BY ZenonT(30), <3>1, <3>2 DEF Follows
    <3>5. QED BY ZenonT(30), <3>1, <3>3, <3>4
  <2>3. n \in 1 .. Len(q) \/ n - Len(q) \in 1 .. Len(r)
    BY ZenonT(30), <1>1, <1>3, InEither
  <2>4. QED BY ZenonT(30), <2>1, <2>2, <2>3
<1>4. Len(t) = Rank(table, hi) - Rank(table, lo)
  BY <1>1
<1>5. QED BY ZenonT(30), <1>3, <1>4 DEF Covers

(***************************************************************************)
(* The loop of a worker.                                                   *)
(***************************************************************************)

\* The n-th of a finite set of numbers is the only one with that place.
LEMMA NthUnique ==
    ASSUME NEW S \in SUBSET Nat, IsFiniteSet(S), NEW x \in S, NEW n,
           Cardinality({y \in S : y <= x}) = n
    PROVE  Nth(S, n) = x
<1> DEFINE U(z) == {y \in S : y <= z}
<1>1. \A z : U(z) \in SUBSET S
  OBVIOUS
<1>2. \A z : IsFiniteSet(U(z))
  BY ZenonT(30), <1>1, FS_Subset
<1>3. ASSUME NEW v \in S, NEW w \in S, Cardinality(U(v)) = Cardinality(U(w)), v <= w
      PROVE  v = w
  <2>0. \A y \in S : y <= v => y <= w
    BY <1>3
  <2>1. U(v) \in SUBSET U(w)
    BY ZenonT(30), <2>0
  <2>2. U(w) = U(v)
    BY ZenonT(30), <1>2, <1>3, <2>1, FS_Subset
  <2>3. w \in U(v)
    BY <2>2
  <2>4. QED BY <1>3, <2>3
<1>4. \A v \in S : Cardinality(U(v)) = n => v = x
  <2>1. \A v \in S : v <= x \/ x <= v
    OBVIOUS
  <2>2. QED BY ZenonT(30), <1>3, <2>1
<1>5. Nth(S, n) \in S /\ Cardinality(U(Nth(S, n))) = n
  BY ZenonT(30) DEF Nth
<1>6. QED BY ZenonT(30), <1>4, <1>5

\* A number above all others is the last one, and the others keep their place.
LEMMA NthAbove ==
    ASSUME NEW S \in SUBSET Nat, IsFiniteSet(S), Enumerated(S), NEW top \in Nat,
           \A x \in S : x < top
    PROVE  /\ IsFiniteSet(S \cup {top}) /\ Cardinality(S) \in Nat
           /\ Cardinality(S \cup {top}) = Cardinality(S) + 1
           /\ Enumerated(S \cup {top})
           /\ Nth(S \cup {top}, Cardinality(S) + 1) = top
           /\ \A n \in 1 .. Cardinality(S) : Nth(S \cup {top}, n) = Nth(S, n) /\ Nth(S, n) \in S
<1> DEFINE T == S \cup {top}
           m == Cardinality(S)
<1>1. top \notin S /\ T \in SUBSET Nat
  OBVIOUS
<1>2. IsFiniteSet(T) /\ Cardinality(T) = m + 1 /\ m \in Nat
  BY ZenonT(30), <1>1, FS_AddElement, FS_CardinalityType
<1>3. \A x \in S : {y \in T : y <= x} = {y \in S : y <= x}
  OBVIOUS
<1>4. {y \in T : y <= top} = T
  <2>1. \A y \in T : y <= top
    OBVIOUS
  <2>2. QED BY ZenonT(30), <2>1
<1> HIDE DEF T
<1>5. top \in T /\ S \subseteq T
  BY DEF T
<1>6. Nth(T, m + 1) = top
  BY ZenonT(30), <1>1, <1>2, <1>4, <1>5, NthUnique
<1>7. ASSUME NEW n \in 1 .. m
      PROVE  /\ Nth(T, n) = Nth(S, n) /\ Nth(S, n) \in S
             /\ \E x \in T : Cardinality({y \in T : y <= x}) = n
  <2>1. PICK x \in S : Cardinality({y \in S : y <= x}) = n
    BY ZenonT(30) DEF Enumerated
  <2>2. Cardinality({y \in T : y <= x}) = n
    BY ZenonT(30), <1>3, <2>1
  <2>3. Nth(S, n) = x
    BY ZenonT(30), <2>1, NthUnique
  <2>4. Nth(T, n) = x
    BY ZenonT(30), <1>1, <1>2, <1>5, <2>2, NthUnique
  <2>5. QED BY ZenonT(30), <1>5, <2>2, <2>3, <2>4
<1>8. Enumerated(T)
  <2>1. ASSUME NEW n \in 1 .. m + 1
        PROVE  \E x \in T : Cardinality({y \in T : y <= x}) = n
    <3>1. CASE n \in 1 .. m
      BY <1>7, <3>1
    <3>2. CASE n = m + 1
      BY ZenonT(30), <1>2, <1>4, <1>5, <3>2
    <3>3. QED BY <1>2, <3>1, <3>2
  <2>2. QED BY ZenonT(30), <1>2, <2>1 DEF Enumerated
<1>9. QED BY ZenonT(30), <1>2, <1>6, <1>7, <1>8 DEF T

\* The last package is the last end.
LEMMA LastEnd ==
    ASSUME NEW packages \in Seq(Package)
    PROVE  /\ Ends(packages) \in SUBSET (1 .. Len(packages)) /\ Ends(packages) \in SUBSET Nat
           /\ IsFiniteSet(Ends(packages)) /\ Cardinality(Ends(packages)) \in Nat
           /\ packages = <<>> => Ends(packages) = {} /\ Cardinality(Ends(packages)) = 0
           /\ packages # <<>> => /\ Cardinality(Ends(packages)) > 0
                                 /\ Nth(Ends(packages), Cardinality(Ends(packages))) = Len(packages)
<1> DEFINE E == Ends(packages)
           n == Len(packages)
<1>1. n \in Nat /\ DOMAIN packages = 1 .. n
  OBVIOUS
<1>2. E \in SUBSET (1 .. n)
  BY <1>1 DEF Ends
<1>3. E \in SUBSET Nat
  BY <1>1, <1>2
<1>4. IsFiniteSet(E) /\ Cardinality(E) \in Nat
  <2>1. 1 \in Int /\ n \in Int
    BY <1>1
  <2>2. QED BY ZenonT(30), <1>2, <2>1, FS_Interval, FS_Subset, FS_CardinalityType
<1>5. packages = <<>> => E = {} /\ Cardinality(E) = 0
  <2>1. packages = <<>> => E = {}
    BY <1>1, <1>2
  <2>2. QED BY ZenonT(30), <2>1, FS_EmptySet
<1>6. ASSUME packages # <<>>
      PROVE  Cardinality(E) > 0 /\ Nth(E, Cardinality(E)) = n
  <2>1. n \in 1 .. n
    BY <1>1, <1>6
  <2>2. n \in E
    BY <1>1, <2>1 DEF Ends
  <2>3. {y \in E : y <= n} = E
    BY <1>2
  <2>4. Nth(E, Cardinality(E)) = n
    BY ZenonT(30), <1>3, <1>4, <2>2, <2>3, NthUnique
  <2>5. Cardinality(E) # 0
    BY ZenonT(30), <1>4, <2>2, FS_EmptySet
  <2>6. QED BY <1>4, <2>4, <2>5
<1>7. QED BY <1>2, <1>3, <1>4, <1>5, <1>6

\* The packages of a block, as fill_batch makes them.
Packages(b) == [i \in DOMAIN b.txns |-> [block |-> b.num, txn |-> b.txns[i]]]

\* What the packages of a block are.
LEMMA PackagesType ==
    ASSUME NEW b \in Body
    PROVE  /\ Packages(b) \in Seq(Package) /\ Len(Packages(b)) = Len(b.txns) /\ Len(b.txns) \in Nat
           /\ \A i \in 1 .. Len(b.txns) : Packages(b)[i].block = b.num
<1>1. b.num \in Nat /\ b.txns \in Seq(Txn)
  BY DEF Body
<1>2. Len(b.txns) \in Nat /\ DOMAIN b.txns = 1 .. Len(b.txns) /\ \A i \in 1 .. Len(b.txns) : b.txns[i] \in Txn
  BY <1>1
<1>3. Packages(b) \in [1 .. Len(b.txns) -> Package]
  BY <1>1, <1>2 DEF Packages, Package
<1>4. Packages(b) \in Seq(Package) /\ Len(Packages(b)) = Len(b.txns)
  BY <1>2, <1>3
<1>5. \A i \in 1 .. Len(b.txns) : Packages(b)[i].block = b.num
  BY <1>2 DEF Packages
<1>6. QED BY <1>2, <1>4, <1>5

\* Batch q is batch p with the packages of block b, which has some.
Grows(p, b, q) == /\ q \in Seq(Package) /\ Len(q) = Len(p) + Len(b.txns) /\ Len(q) > Len(p)
                  /\ \A i \in 1 .. Len(p) : q[i] = p[i]
                  /\ \A i \in Len(p) + 1 .. Len(q) : q[i].block = b.num
                  /\ Ends(q) = Ends(p) \cup {Len(q)}

\* The places of m packages and of k more: before the last of the m, the last, among the k, the last.
LEMMA Places ==
    ASSUME NEW m \in Nat, NEW k \in Nat, k > 0, NEW i \in 1 .. m + k
    PROVE  i \in 1 .. m - 1 \/ i = m \/ i \in m + 1 .. m + k - 1 \/ i = m + k
  OBVIOUS

\* The packages of a later block add one end to those of a batch.
LEMMA EndsGrow ==
    ASSUME NEW p \in Seq(Package), NEW b \in Body, b.txns # <<>>,
           Below(p, b.num),
           NEW q, q = p \o Packages(b)
    PROVE  Grows(p, b, q)
<1> DEFINE g == Packages(b)
           m == Len(p)
           k == Len(b.txns)
<1>1. /\ g \in Seq(Package) /\ Len(g) = k /\ k \in Nat /\ \A i \in 1 .. k : g[i].block = b.num
      /\ b.num \in Nat
  BY PackagesType DEF Body
<1>2. k > 0
  <2>1. b.txns \in Seq(Txn)
    BY DEF Body
  <2>2. QED BY <2>1
<1> HIDE DEF g, k
<1>3. /\ q \in Seq(Package) /\ Len(q) = m + k /\ m \in Nat /\ DOMAIN q = 1 .. m + k /\ DOMAIN p = 1 .. m
      /\ \A i \in 1 .. m : q[i] = p[i]
      /\ \A i \in m + 1 .. m + k : q[i] = g[i - m]
  BY <1>1 DEF g
<1>4. \A i \in m + 1 .. m + k : q[i].block = b.num
  <2>1. \A i \in m + 1 .. m + k : i - m \in 1 .. k
    BY <1>1, <1>3
  <2>2. QED BY ZenonT(30), <1>1, <1>3, <2>1
<1>5. m \in Nat /\ k \in Nat /\ k > 0
  BY ZenonT(30), <1>1, <1>2, <1>3
<1>6. ASSUME NEW i \in 1 .. m + k
      PROVE  i \in Ends(q) <=> i \in Ends(p) \/ i = m + k
  <2>0. i \in Ends(q) <=> i = m + k \/ q[i].block # q[i + 1].block
    BY ZenonT(30), <1>3, <1>6 DEF Ends
  <2>1. CASE i \in 1 .. m - 1
    <3>1. i \in 1 .. m /\ i + 1 \in 1 .. m /\ i # m /\ i # m + k
      BY <1>5, <2>1
    <3>2. q[i] = p[i] /\ q[i + 1] = p[i + 1]
      BY ZenonT(30), <1>3, <3>1
    <3>3. i \in Ends(p) <=> p[i].block # p[i + 1].block
      BY ZenonT(30), <1>3, <3>1 DEF Ends
    <3>4. QED BY ZenonT(30), <2>0, <3>1, <3>2, <3>3
  <2>2. CASE i = m
    <3>1. i \in 1 .. m /\ i + 1 \in m + 1 .. m + k
      BY <1>5, <2>2
    <3>2. i \in Ends(p)
      BY ZenonT(30), <1>3, <2>2, <3>1 DEF Ends
    <3>3. q[i].block < b.num /\ q[i + 1].block = b.num
      BY ZenonT(30), <1>3, <1>4, <3>1 DEF Below
    <3>4. q[i].block # q[i + 1].block
      <4>1. \A x \in Nat : ~(x < x)
        OBVIOUS
      <4>2. QED BY ZenonT(30), <1>1, <3>3, <4>1
    <3>5. QED BY ZenonT(30), <2>0, <3>2, <3>4
  <2>3. CASE i \in m + 1 .. m + k - 1
    <3>1. i \in m + 1 .. m + k /\ i + 1 \in m + 1 .. m + k /\ i # m + k /\ i \notin 1 .. m
      BY <1>5, <2>3
    <3>2. q[i].block = q[i + 1].block
      BY ZenonT(30), <1>4, <3>1
    <3>3. i \notin Ends(p)
      BY ZenonT(30), <1>3, <3>1 DEF Ends
    <3>4. QED BY ZenonT(30), <2>0, <3>1, <3>2, <3>3
  <2>4. CASE i = m + k
    BY ZenonT(30), <2>0, <2>4
  <2>5. i \in 1 .. m - 1 \/ i = m \/ i \in m + 1 .. m + k - 1 \/ i = m + k
    BY ZenonT(30), <1>5, <1>6, Places
  <2>6. QED BY ZenonT(30), <2>1, <2>2, <2>3, <2>4, <2>5
<1>7. Ends(q) = Ends(p) \cup {m + k}
  <2>1. \A i \in 1 .. m : i \in 1 .. m + k
    BY <1>5
  <2>2. m + k \in 1 .. m + k
    BY <1>5
  <2>3. Ends(q) \in SUBSET (1 .. m + k) /\ Ends(p) \in SUBSET (1 .. m)
    BY ZenonT(30), <1>3 DEF Ends
  <2>4. QED BY ZenonT(30), <1>6, <2>1, <2>2, <2>3
<1>8. Len(q) = m + Len(b.txns) /\ Len(q) > m
  BY <1>3, <1>5 DEF k
<1>9. QED BY ZenonT(30), <1>3, <1>4, <1>7, <1>8 DEF Grows

\* The end of the n-th block of a batch.
End(packages, n) == IF n = 0 THEN 0 ELSE Nth(Ends(packages), n)

\* The packages of a later block add one result, which counts its transactions.
LEMMA ResultsGrow ==
    ASSUME NEW p \in Seq(Package), Enumerated(Ends(p)), NEW b \in Body, b.txns # <<>>,
           Below(p, b.num),
           NEW q, q = p \o Packages(b)
    PROVE  /\ Enumerated(Ends(q))
           /\ BlockResults(p) \in Seq([block: Nat, count: Int])
           /\ BlockResults(q) = Append(BlockResults(p), [block |-> b.num, count |-> Len(b.txns)])
<1> DEFINE c == Cardinality(Ends(p))
           m == Len(p)
           l == Len(q)
           k == Len(b.txns)
<1>1. /\ q \in Seq(Package) /\ l = m + k /\ l > m
      /\ \A i \in 1 .. m : q[i] = p[i]
      /\ \A i \in m + 1 .. l : q[i].block = b.num
      /\ Ends(q) = Ends(p) \cup {l}
  <2>1. Grows(p, b, q)
    BY ZenonT(30), EndsGrow
  <2>2. QED BY ZenonT(30), <2>1 DEF Grows
<1>2. m \in Nat /\ l \in Nat /\ k \in Nat
  BY <1>1, PackagesType
<1>3. /\ Ends(p) \in SUBSET (1 .. m) /\ Ends(p) \in SUBSET Nat
      /\ IsFiniteSet(Ends(p)) /\ c \in Nat
      /\ p = <<>> => c = 0
      /\ p # <<>> => c > 0 /\ Nth(Ends(p), c) = m
  BY ZenonT(30), LastEnd
<1>4. \A x \in Ends(p) : x < l
  BY <1>1, <1>2, <1>3
<1>5. /\ Cardinality(Ends(q)) = c + 1 /\ Enumerated(Ends(q)) /\ Nth(Ends(q), c + 1) = l
      /\ \A n \in 1 .. c : Nth(Ends(q), n) = Nth(Ends(p), n) /\ Nth(Ends(p), n) \in Ends(p)
  <2> DEFINE T == Ends(p) \cup {l}
  <2>1. /\ Cardinality(T) = c + 1 /\ Enumerated(T) /\ Nth(T, c + 1) = l
        /\ \A n \in 1 .. c : Nth(T, n) = Nth(Ends(p), n) /\ Nth(Ends(p), n) \in Ends(p)
    BY ZenonT(30), <1>2, <1>3, <1>4, NthAbove
  <2>2. QED BY ZenonT(30), <1>1, <2>1
<1> HIDE DEF c, m, l, k
<1>6. /\ \A n \in 1 .. c : End(p, n) \in 1 .. m /\ End(q, n) = End(p, n)
      /\ \A n \in 0 .. c : End(p, n) \in 0 .. m /\ End(q, n) = End(p, n)
      /\ End(p, 0) = 0 /\ End(q, c + 1) = l
      /\ End(p, c) = m
  <2>1. \A n \in 1 .. c : End(p, n) \in 1 .. m /\ End(q, n) = End(p, n)
    <3>1. \A n \in 1 .. c : n # 0
      BY <1>3
    <3>2. QED BY ZenonT(30), <1>3, <1>5, <3>1 DEF End
  <2>2. End(p, 0) = 0 /\ End(q, 0) = 0
    BY DEF End
  <2>3. \A n \in 0 .. c : n = 0 \/ n \in 1 .. c
    BY <1>3
  <2>4. 0 \in 0 .. m /\ \A x \in 1 .. m : x \in 0 .. m
    BY <1>2
  <2>5. \A n \in 0 .. c : End(p, n) \in 0 .. m /\ End(q, n) = End(p, n)
    BY ZenonT(30), <2>1, <2>2, <2>3, <2>4
  <2>6. End(q, c + 1) = l
    <3>1. c + 1 # 0
      BY <1>3
    <3>2. QED BY ZenonT(30), <1>5, <3>1 DEF End
  <2>7. End(p, c) = m
    <3>1. CASE p = <<>>
      <4>1. m = 0
        BY <3>1 DEF m
      <4>2. QED BY ZenonT(30), <1>3, <2>2, <3>1, <4>1
    <3>2. CASE p # <<>>
      <4>1. c # 0
        BY <1>3, <3>2
      <4>2. QED BY ZenonT(30), <1>3, <3>2, <4>1 DEF End
    <3>3. QED BY <3>1, <3>2
  <2>8. QED BY ZenonT(30), <2>1, <2>2, <2>5, <2>6, <2>7
<1> DEFINE R(x, n) == [block |-> x[End(x, n)].block, count |-> End(x, n) - End(x, n - 1)]
<1>7. /\ BlockResults(p) = [n \in 1 .. c |-> R(p, n)]
      /\ BlockResults(q) = [n \in 1 .. c + 1 |-> R(q, n)]
  BY ZenonT(30), <1>5 DEF BlockResults, End, c
<1>8. \A n \in 1 .. c : R(q, n) = R(p, n)
  <2>1. \A n \in 1 .. c : n - 1 \in 0 .. c
    BY <1>3
  <2>2. QED BY ZenonT(30), <1>1, <1>6, <2>1
<1>9. ASSUME NEW n, n = c + 1
      PROVE  R(q, n) = [block |-> b.num, count |-> k]
  <2>1. n - 1 = c /\ l - m = k /\ l \in m + 1 .. l /\ c \in 0 .. c
    <3>1. l = m + k /\ l > m /\ c \in Nat
      BY ZenonT(30), <1>1, <1>3
    <3>2. QED BY <1>2, <1>9, <3>1
  <2>2. q[l].block = b.num
    BY ZenonT(30), <1>1, <2>1 DEF l, m
  <2>3. End(q, n) = l /\ End(q, n - 1) = m
    BY ZenonT(30), <1>6, <1>9, <2>1
  <2>4. QED BY ZenonT(30), <2>1, <2>2, <2>3
<1> DEFINE S == [block: Nat, count: Int]
<1>10. \A n \in 1 .. c : R(p, n) \in S
  <2>1. \A n \in 1 .. c : End(p, n) - End(p, n - 1) \in Int
    BY <1>2, <1>3, <1>6
  <2>2. \A i \in 1 .. m : p[i].block \in Nat
    <3>1. \A i \in 1 .. m : p[i] \in Package
      BY DEF m
    <3>2. QED BY ZenonT(30), <3>1 DEF Package
  <2>3. QED BY ZenonT(30), <1>6, <2>1, <2>2
<1> HIDE DEF R, S
<1>11. BlockResults(p) \in Seq(S) /\ Len(BlockResults(p)) = c
  <2>1. BlockResults(p) \in [1 .. c -> S]
    BY ZenonT(30), <1>7, <1>10
  <2>2. QED BY <1>3, <2>1
<1>12. BlockResults(q) = Append(BlockResults(p), R(q, c + 1))
  BY <1>3, <1>7, <1>8, <1>11
<1>13. R(q, c + 1) = [block |-> b.num, count |-> k]
  BY <1>9
<1>14. QED BY ZenonT(30), <1>5, <1>11, <1>12, <1>13 DEF S, k

\* A batch that was just renewed.
LEMMA BatchedNothing ==
    ASSUME NEW table, IsTable(table), NEW lo
    PROVE  Batched(table, <<>>, lo, lo)
<1>1. Below(<<>>, lo)
  BY DEF Below
<1>2. << >> \in Seq(Package)
  OBVIOUS
<1>3. Ends(<<>>) = {} /\ Cardinality(Ends(<<>>)) = 0
  BY ZenonT(30), <1>2, LastEnd
<1>4. Enumerated(Ends(<<>>))
  BY <1>3 DEF Enumerated
<1>5. BlockResults(<<>>) = <<>>
  <2>1. DOMAIN BlockResults(<<>>) = 1 .. 0 /\ BlockResults(<<>>) = [n \in 1 .. 0 |-> BlockResults(<<>>)[n]]
    BY ZenonT(30), <1>3 DEF BlockResults
  <2>2. QED BY <2>1
<1>6. QED BY ZenonT(30), <1>1, <1>4, <1>5, CoversNothing DEF Batched

\* fill_batch adds the next canonical block to the batch.
LEMMA BatchedNext ==
    ASSUME NEW table, IsTable(table), NEW b \in Range(table), b.canonical, b.num <= To,
           NEW p \in Seq(Package), NEW lo \in Nat, lo <= b.num, Batched(table, p, lo, b.num)
    PROVE  /\ p \o Packages(b) \in Seq(Package)
           /\ Batched(table, p \o Packages(b), lo, b.num + 1)
<1> DEFINE q == p \o Packages(b)
<1>1. b \in Body /\ b.num \in Nat
  BY ZenonT(30), TableFacts
<1>2. Below(p, b.num) /\ Enumerated(Ends(p)) /\ Covers(table, BlockResults(p), lo, b.num)
  BY DEF Batched
<1>3. \A i \in 1 .. Len(p) : p[i].block \in Nat /\ p[i].block < b.num
  <2>1. \A i \in 1 .. Len(p) : p[i] \in Package
    OBVIOUS
  <2>2. QED BY ZenonT(30), <1>2, <2>1 DEF Package, Below
<1>4. \A x \in Nat : x < b.num => x < b.num + 1
  BY <1>1
<1>5. CASE b.txns # <<>>
  <2>1. Grows(p, b, q)
    BY ZenonT(30), <1>1, <1>2, <1>5, EndsGrow
  <2>2. /\ Enumerated(Ends(q))
        /\ BlockResults(p) \in Seq([block: Nat, count: Int])
        /\ BlockResults(q) = Append(BlockResults(p), [block |-> b.num, count |-> Len(b.txns)])
    BY ZenonT(30), <1>1, <1>2, <1>5, ResultsGrow
  <2>3. Len(b.txns) \in Int
    BY <1>1, PackagesType
  <2> HIDE DEF q
  <2>4. Covers(table, BlockResults(q), lo, b.num + 1)
    <3> DEFINE r == [block |-> b.num, count |-> Len(b.txns)]
    <3>1. r \in [block: Nat, count: Int] /\ r.block = b.num /\ r.count = Len(b.txns)
      BY <1>1, <2>3
    <3> HIDE DEF r
    <3>2. Covers(table, Append(BlockResults(p), r), lo, b.num + 1)
      BY ZenonT(30), <1>2, <1>5, <2>2, <3>1, CoversAppend
    <3>3. QED BY <2>2, <3>2 DEF r
  <2>5. Below(q, b.num + 1)
    <3>1. \A i \in 1 .. Len(q) : i \in 1 .. Len(p) \/ i \in Len(p) + 1 .. Len(q)
      <4>1. Len(p) \in Nat /\ Len(q) \in Nat
        BY <2>1 DEF Grows
      <4>2. QED BY <4>1
    <3>2. b.num < b.num + 1
      BY <1>1
    <3>3. QED BY ZenonT(30), <1>3, <1>4, <2>1, <3>1, <3>2 DEF Below, Grows
  <2>6. q \in Seq(Package)
    BY <2>1 DEF Grows
  <2>7. QED BY ZenonT(30), <2>2, <2>4, <2>5, <2>6 DEF Batched, q
<1>6. CASE b.txns = <<>>
  <2>1. Packages(b) = <<>>
    <3>1. Packages(b) \in Seq(Package) /\ Len(Packages(b)) = 0
      BY <1>1, <1>6, PackagesType
    <3>2. QED BY <3>1
  <2>2. q = p
    BY <2>1
  <2>3. Below(p, b.num + 1)
    BY ZenonT(30), <1>3, <1>4 DEF Below
  <2>4. Covers(table, BlockResults(p), lo, b.num + 1)
    BY ZenonT(30), <1>2, <1>6, CoversSkip
  <2>5. QED BY ZenonT(30), <1>2, <2>2, <2>3, <2>4 DEF Batched
<1>7. QED BY <1>5, <1>6

\* The results of a batch are of the type of results.
LEMMA BatchedResults ==
    ASSUME NEW table, IsTable(table), NEW p \in Seq(Package), NEW lo, NEW hi, Batched(table, p, lo, hi)
    PROVE  BlockResults(p) \in Seq(Result)
<1>1. Covers(table, BlockResults(p), lo, hi)
  BY DEF Batched
<1> DEFINE c == Cardinality(Ends(p))
           res == BlockResults(p)
<1>2. c \in Nat
  BY ZenonT(30), LastEnd
<1>3. /\ DOMAIN res = 1 .. c /\ res = [n \in 1 .. c |-> res[n]]
      /\ \A n \in 1 .. c : res[n] = [block |-> res[n].block, count |-> res[n].count]
  BY ZenonT(30) DEF BlockResults
<1>4. Len(res) = c
  BY <1>2, <1>3
<1>5. \A n \in 1 .. c : res[n].block \in Nat /\ res[n].count \in Nat
  <2>1. \A d \in Wanted(table) : d.num \in Nat /\ Len(d.txns) \in Nat
    BY TableFacts DEF Wanted, Body
  <2>2. QED BY ZenonT(30), <1>1, <1>4, <2>1 DEF Covers
<1>6. \A n \in 1 .. c : res[n] \in Result
  <2>1. \A x \in Nat, y \in Nat : [block |-> x, count |-> y] \in Result
    BY DEF Result
  <2> HIDE DEF res, c
  <2>2. QED BY ZenonT(30), <1>3, <1>5, <2>1
<1>7. res \in [1 .. c -> Result]
  BY ZenonT(30), <1>3, <1>6
<1> HIDE DEF res, c
<1>8. QED BY <1>2, <1>7 DEF res

(***************************************************************************)
(* Steps of one worker.                                                    *)
(***************************************************************************)

\* What the worker has to do, or has done, stays as it is.
SameWork(w, v) == /\ v.status = w.status /\ v.batch_id = w.batch_id /\ v.results = w.results
                  /\ v.batch = w.batch \/ v.batch = None

Harmless(w, v) == /\ v \in RecoveryWorker /\ Busy(v) /\ SameWork(w, v)
                  /\ Signalling(v) => Signalling(w)

\* A new worker is idle.
LEMMA NewWorker ==
    LET w == Start(NewRecoveryWorker)
    IN  w \in RecoveryWorker /\ Busy(w) /\ w.status = "Idle"
<1> DEFINE w == Start(NewRecoveryWorker)
<1>1. w = [NewRecoveryWorker EXCEPT !.state = "kStarting", !.thread = "new"]
  BY DEF Start, NewRecoveryWorker
<1>2. w = [state |-> "kStarting", kicked |-> FALSE, thread |-> "new",
           status |-> "Idle", batch |-> None, batch_id |-> 0, results |-> <<>>, step |-> "recover"]
  BY ZenonT(30), <1>1 DEF NewRecoveryWorker
<1> HIDE DEF w
<1>3. <<>> \in Seq(Result) /\ 0 \in Nat
  OBVIOUS
<1>4. w \in RecoveryWorker
  BY ZenonT(30), <1>2, <1>3 DEF RecoveryWorker
<1>5. Busy(w) /\ w.status = "Idle"
  BY <1>2 DEF Busy
<1>6. QED BY <1>4, <1>5 DEF w

\* The thread of a worker enters, or leaves at once.
LEMMA EnterHarmless ==
    ASSUME NEW w \in RecoveryWorker, Busy(w), w.thread = "new"
    PROVE  Harmless(w, Enter(w))
BY ZenonT(30) DEF Harmless, Enter, Leave, RecoveryWorker, Busy, SameWork, Signalling

\* It forgets the kicks it got before.
LEMMA ForgetHarmless ==
    ASSUME NEW w \in RecoveryWorker, Busy(w), w.thread = "entered"
    PROVE  Harmless(w, ForgetKicks(w))
BY ZenonT(30) DEF Harmless, ForgetKicks, RecoveryWorker, Busy, SameWork, Signalling

\* It wakes to work, or it leaves.
LEMMA WakeHarmless ==
    ASSUME NEW w \in RecoveryWorker, Busy(w), CanWake(w)
    PROVE  Harmless(w, [Wake(w) EXCEPT !.step = "recover"])
BY ZenonT(30) DEF Harmless, Wake, CanWake, Leave, RecoveryWorker, Busy, SameWork, Signalling

\* It has reported.
LEMMA SignalHarmless ==
    ASSUME NEW w \in RecoveryWorker, Busy(w), Signalling(w)
    PROVE  Harmless(w, [w EXCEPT !.step = "release"]) /\ ~Signalling([w EXCEPT !.step = "release"])
BY DEF Harmless, RecoveryWorker, Busy, SameWork, Signalling

\* It lets go of its batch, be it the one it has done or the next one.
LEMMA ReleaseHarmless ==
    ASSUME NEW w \in RecoveryWorker, Busy(w), w.thread = "working", w.step = "release"
    PROVE  Harmless(w, WaitAgain([w EXCEPT !.batch = None]))
BY ZenonT(30) DEF Harmless, WaitAgain, RecoveryWorker, Busy, SameWork, Signalling

\* It is told to stop.
LEMMA StopHarmless ==
    ASSUME NEW w \in RecoveryWorker, Busy(w)
    PROVE  Harmless(w, Stop(w))
BY ZenonT(30) DEF Harmless, Stop, Kick, RecoveryWorker, Busy, SameWork, Signalling

\* It is destroyed.
LEMMA DestroyHarmless ==
    ASSUME NEW w \in RecoveryWorker, Busy(w)
    PROVE  Harmless(w, Destroy([w EXCEPT !.batch = None]))
BY ZenonT(30) DEF Harmless, Destroy, RecoveryWorker, Busy, SameWork, Signalling

\* It is given work.
LEMMA SetWorkFacts ==
    ASSUME NEW w \in RecoveryWorker, Busy(w), w.status = "Idle", NEW id \in Nat, NEW packages \in Seq(Package)
    PROVE  LET v == SetWork(w, id, packages)
           IN  /\ v \in RecoveryWorker /\ Busy(v)
               /\ v.status = "Working" /\ v.batch = packages /\ v.batch_id = id
BY ZenonT(30) DEF SetWork, Kick, RecoveryWorker, Busy, Finished

\* Its results are pulled.
LEMMA PulledFacts ==
    ASSUME NEW w \in RecoveryWorker, Busy(w), w.status = "ResultsReady", ~Signalling(w)
    PROVE  LET v == [w EXCEPT !.status = "Idle", !.results = <<>>]
           IN  v \in RecoveryWorker /\ Busy(v) /\ v.status = "Idle"
<1> DEFINE v == [w EXCEPT !.status = "Idle", !.results = <<>>]
<1>1. /\ v.state = w.state /\ v.kicked = w.kicked /\ v.thread = w.thread /\ v.step = w.step
      /\ v.status = "Idle"
  BY DEF RecoveryWorker
<1>2. v \in RecoveryWorker
  <2>1. <<>> \in Seq(Result)
    OBVIOUS
  <2>2. QED BY ZenonT(30), <2>1 DEF RecoveryWorker
<1>3. Busy(v)
  <2> HIDE DEF v
  <2>1. w.step \in {"recover", "signal", "release"}
    BY DEF RecoveryWorker
  <2>2. QED BY <1>1, <2>1 DEF Busy, Signalling
<1>4. QED BY <1>1, <1>2, <1>3

\* It has recovered the senders of its batch, or failed.
LEMMA RecoveredFacts ==
    ASSUME NEW w \in RecoveryWorker, Busy(w), w.thread = "working", w.step = "recover",
           BlockResults(w.batch) \in Seq(Result)
    PROVE  LET v == [Recovered(w) EXCEPT !.step = "signal"]
           IN  /\ v \in RecoveryWorker /\ Busy(v) /\ Signalling(v)
               /\ v.batch_id = w.batch_id /\ v.status \in Finished
               /\ v.status = "ResultsReady" => v.results = BlockResults(w.batch)
<1> DEFINE v == [Recovered(w) EXCEPT !.step = "signal"]
<1>1. \/ Recovered(w) = [w EXCEPT !.status = "Error"]
      \/ Recovered(w) = [w EXCEPT !.status = "Aborted"]
      \/ Recovered(w) = [w EXCEPT !.results = BlockResults(w.batch), !.status = "ResultsReady"]
  BY DEF Recovered
<1>2. CASE Recovered(w) = [w EXCEPT !.status = "Error"]
  BY ZenonT(30), <1>2 DEF RecoveryWorker, Busy, Signalling, Finished
<1>3. CASE Recovered(w) = [w EXCEPT !.status = "Aborted"]
  BY ZenonT(30), <1>3 DEF RecoveryWorker, Busy, Signalling, Finished
<1>4. CASE Recovered(w) = [w EXCEPT !.results = BlockResults(w.batch), !.status = "ResultsReady"]
  BY ZenonT(30), <1>4 DEF RecoveryWorker, Busy, Signalling, Finished
<1>5. QED BY ZenonT(30), <1>1, <1>2, <1>3, <1>4

(***************************************************************************)
(* One worker among the others.                                            *)
(***************************************************************************)

\* us is ws with v for worker i.
Replaced(ws, us, i, v) == /\ us \in Seq(RecoveryWorker) /\ DOMAIN us = DOMAIN ws /\ us[i] = v
                          /\ \A j \in DOMAIN ws : j # i => us[j] = ws[j]

\* A worker that has reported is still one that has.
Steady(w, v) == w.status \in Finished /\ ~Signalling(w) =>
                  v.status \in Finished /\ ~Signalling(v) /\ v.batch_id = w.batch_id

\* Assigning a worker replaces it.
LEMMA Replacing ==
    ASSUME NEW ws \in Seq(RecoveryWorker), NEW i \in DOMAIN ws, NEW v \in RecoveryWorker
    PROVE  Replaced(ws, [ws EXCEPT ![i] = v], i, v)
<1>1. [ws EXCEPT ![i] = v] \in Seq(RecoveryWorker)
  OBVIOUS
<1>2. QED BY ZenonT(30), <1>1 DEF Replaced

\* Every worker is of its type.
LEMMA WorkerType ==
    ASSUME NEW ws \in Seq(RecoveryWorker), NEW i \in DOMAIN ws
    PROVE  ws[i] \in RecoveryWorker
OBVIOUS

\* The invariants of the workers are kept when one of them is replaced.
LEMMA ReplacedBusy ==
    ASSUME NEW ws, NEW us, NEW i, NEW v, Replaced(ws, us, i, v), AllBusy(ws), Busy(v)
    PROVE  AllBusy(us)
BY ZenonT(30) DEF Replaced, AllBusy

\* The reports stay true.
LEMMA ReplacedReports ==
    ASSUME NEW ws, NEW us, NEW i, NEW v, Replaced(ws, us, i, v), Steady(ws[i], v), NEW q, Reports(ws, q)
    PROVE  Reports(us, q)
<1>1. ASSUME NEW n \in 1 .. Len(q)
      PROVE  LET u == us[q[n].worker]
             IN /\ q[n].worker \in DOMAIN us /\ u.status \in Finished /\ ~Signalling(u)
                /\ u.batch_id = q[n].batch_id
  <2> DEFINE k == q[n].worker
  <2>1. k \in DOMAIN ws /\ ws[k].status \in Finished /\ ~Signalling(ws[k]) /\ ws[k].batch_id = q[n].batch_id
    BY ZenonT(30) DEF Reports
  <2> HIDE DEF k
  <2>2. CASE k = i
    BY ZenonT(30), <2>1, <2>2 DEF Replaced, Steady, k
  <2>3. CASE k # i
    BY ZenonT(30), <2>1, <2>3 DEF Replaced, k
  <2>4. QED BY ZenonT(30), <2>2, <2>3
<1>2. QED BY ZenonT(30), <1>1 DEF Reports

\* The batches stay with the workers.
LEMMA ReplacedCarried ==
    ASSUME NEW ws, NEW us, NEW i, NEW v, Replaced(ws, us, i, v),
           NEW table, NEW bounds, NEW id, Carried(table, ws, bounds, id), Carries(table, v, bounds, id)
    PROVE  Carried(table, us, bounds, id)
BY ZenonT(30) DEF Replaced, Carried

\* A harmless step keeps both.
LEMMA HarmlessKeeps ==
    ASSUME NEW w, NEW v, Harmless(w, v)
    PROVE  /\ Steady(w, v)
           /\ \A table, bounds, id : Carries(table, w, bounds, id) => Carries(table, v, bounds, id)
<1>1. Steady(w, v)
  BY ZenonT(30) DEF Harmless, SameWork, Steady
<1>2. ASSUME NEW table, NEW bounds, NEW id, Carries(table, w, bounds, id)
      PROVE  Carries(table, v, bounds, id)
  <2>1. v.status = w.status /\ v.batch_id = w.batch_id /\ v.results = w.results
    BY DEF Harmless, SameWork
  <2>2. v.batch # None => v.batch = w.batch
    BY DEF Harmless, SameWork
  <2>3. QED BY ZenonT(30), <1>2, <2>1, <2>2 DEF Carries
<1>3. QED BY <1>1, <1>2

\* The workers may be changed as if by a harmless step.
WorkersKept(ws, us, q) ==
    /\ us \in Seq(RecoveryWorker) /\ AllBusy(us) /\ Reports(us, q)
    /\ \A table, bounds, id : Carried(table, ws, bounds, id) => Carried(table, us, bounds, id)

\* A harmless step of a worker keeps what is known of all of them.
LEMMA HarmlessStep ==
    ASSUME NEW ws \in Seq(RecoveryWorker), AllBusy(ws), NEW q, Reports(ws, q),
           NEW i \in DOMAIN ws, NEW v, Harmless(ws[i], v)
    PROVE  WorkersKept(ws, [ws EXCEPT ![i] = v], q)
<1> DEFINE us == [ws EXCEPT ![i] = v]
<1>1. v \in RecoveryWorker /\ Busy(v)
  BY DEF Harmless
<1>2. Replaced(ws, us, i, v)
  BY ZenonT(30), <1>1, Replacing
<1> HIDE DEF us
<1>3. us \in Seq(RecoveryWorker)
  BY <1>2 DEF Replaced
<1>4. AllBusy(us)
  BY ZenonT(30), <1>1, <1>2, ReplacedBusy
<1>5. Reports(us, q)
  BY ZenonT(30), <1>2, ReplacedReports, HarmlessKeeps
<1>6. ASSUME NEW table, NEW bounds, NEW id, Carried(table, ws, bounds, id)
      PROVE  Carried(table, us, bounds, id)
  <2>1. Carries(table, ws[i], bounds, id)
    BY ZenonT(30), <1>6 DEF Carried
  <2>2. Carries(table, v, bounds, id)
    BY ZenonT(30), <2>1, HarmlessKeeps
  <2>3. QED BY ZenonT(30), <1>2, <1>6, <2>2, ReplacedCarried
<1>7. QED BY ZenonT(30), <1>3, <1>4, <1>5, <1>6 DEF WorkersKept, us

\* So does adding one.
LEMMA AddedWorker ==
    ASSUME NEW ws \in Seq(RecoveryWorker), AllBusy(ws), NEW q, Reports(ws, q),
           NEW v \in RecoveryWorker, Busy(v), v.status = "Idle"
    PROVE  WorkersKept(ws, Append(ws, v), q)
<1> DEFINE us == Append(ws, v)
<1>1. /\ us \in Seq(RecoveryWorker) /\ DOMAIN ws \subseteq DOMAIN us
      /\ \A i \in DOMAIN us : (i \in DOMAIN ws /\ us[i] = ws[i]) \/ us[i] = v
      /\ \A i \in DOMAIN ws : us[i] = ws[i]
  OBVIOUS
<1> HIDE DEF us
<1>2. AllBusy(us)
  BY ZenonT(30), <1>1 DEF AllBusy
<1>3. Reports(us, q)
  BY ZenonT(30), <1>1 DEF Reports
<1>4. ASSUME NEW table, NEW bounds, NEW id, Carried(table, ws, bounds, id)
      PROVE  Carried(table, us, bounds, id)
  <2>1. Carries(table, v, bounds, id)
    BY DEF Carries
  <2>2. QED BY ZenonT(30), <1>1, <1>4, <2>1 DEF Carried
<1>5. QED BY ZenonT(30), <1>1, <1>2, <1>3, <1>4 DEF WorkersKept, us

\* Nothing changes.
LEMMA SameWorkers ==
    ASSUME NEW ws \in Seq(RecoveryWorker), AllBusy(ws), NEW q, Reports(ws, q)
    PROVE  WorkersKept(ws, ws, q)
BY DEF WorkersKept

(***************************************************************************)
(* Most steps of the main thread move neither a block nor a result.        *)
(***************************************************************************)

\* The main thread is at the block that ends its batch.
AtBlock == pc \in Reads \/ (pc \in Dispatches /\ renew)

Quiet == /\ UNCHANGED <<bodies, batch_id, expected, queue, completed, header, collected>>
         /\ pc' \in Reads \cup Dispatches \cup Ends_ /\ cursor' \in Nat \ {0}
         /\ batch' \in Seq(Package) /\ renew' \in BOOLEAN /\ joining' \in Nat
         /\ pc' \in Reads \cup Dispatches => pc \in Reads \cup Dispatches /\ batch' = batch
         /\ AtBlock' => AtBlock
         /\ Collecting' => Collecting /\ ret' = ret
         /\ AtBody'
         /\ WorkersKept(workers, workers', queue)

\* A quiet step keeps the invariant.
LEMMA QuietStep ==
    ASSUME FarmInv, Quiet
    PROVE  FarmInv'
<1>1. /\ bodies' = bodies /\ batch_id' = batch_id /\ expected' = expected /\ queue' = queue
      /\ completed' = completed /\ header' = header /\ collected' = collected
  BY DEF Quiet
<1>2. TypeOK'
  BY ZenonT(30), <1>1 DEF FarmInv, TypeOK, Quiet, WorkersKept
<1>3. AllBusy(workers') /\ Reports(workers', queue')
  BY ZenonT(30), <1>1 DEF Quiet, WorkersKept
<1>4. Counted(bodies', expected') /\ AtBody'
  BY ZenonT(30), <1>1 DEF FarmInv, Quiet
<1>5. Headers'
  BY ZenonT(30), <1>1 DEF FarmInv, Headers
<1>6. Collecting' => ret' = "Succeded"
  BY ZenonT(30) DEF FarmInv, Quiet
<1>7. PICK bounds \in [0 .. batch_id -> From .. expected + 1],
           next \in From .. expected + 1, last \in From .. expected + 1 : Dealt(bounds, next, last)
  BY ZenonT(30) DEF FarmInv
<1>8. Dealt(bounds, next, last)'
  <2>1. Bounds(bounds, batch_id', expected') /\ next \in From .. expected' + 1 /\ bounds[batch_id'] <= next
    BY ZenonT(30), <1>1, <1>7 DEF Dealt
  <2>2. AtBlock' => next = expected'
    BY ZenonT(30), <1>1, <1>7 DEF Dealt, Quiet, AtBlock
  <2>3. pc' \in Reads \cup Dispatches => Batched(bodies', batch', bounds[batch_id'], next)
    BY ZenonT(30), <1>1, <1>7 DEF Dealt, Quiet
  <2>4. Carried(bodies', workers', bounds, batch_id')
    BY ZenonT(30), <1>1, <1>7 DEF Dealt, Quiet, WorkersKept
  <2>5. Turns(queue', completed', batch_id')
    BY ZenonT(30), <1>1, <1>7 DEF Dealt
  <2>6. last \in From .. expected' + 1 /\ Covers(bodies', collected', From, last)
    BY ZenonT(30), <1>1, <1>7 DEF Dealt
  <2>7. Collecting' => last = bounds[Pulled']
    BY ZenonT(30), <1>1, <1>7 DEF Dealt, Quiet, Pulled
  <2>8. QED BY ZenonT(30), <2>1, <2>2, <2>3, <2>4, <2>5, <2>6, <2>7 DEF Dealt, AtBlock
<1>9. \E b \in [0 .. batch_id' -> From .. expected' + 1],
         n \in From .. expected' + 1, l \in From .. expected' + 1 : Dealt(b, n, l)'
  BY ZenonT(30), <1>1, <1>7, <1>8
<1>10. QED BY ZenonT(30), <1>2, <1>3, <1>4, <1>5, <1>6, <1>9 DEF FarmInv

\* What the invariant says of the table.
LEMMA TableIs ==
    ASSUME TypeOK
    PROVE  IsTable(bodies)
BY FarmAssumption DEF TypeOK, IsTable

\* The steps that read bodies, but for fill_batch.
LEMMA ReadQuiet ==
    ASSUME FarmInv, ReadEnds \/ SkipNonCanonical \/ BadBlockSequence \/ ReadCanonical \/ FillBatchFails
    PROVE  Quiet
<1> USE DEF MainStep, Reads, Dispatches, Ends_
<1>1. /\ TypeOK /\ workers \in Seq(RecoveryWorker) /\ AtBody /\ WorkersKept(workers, workers, queue)
      /\ IsTable(bodies) /\ cursor \in Nat
  BY SameWorkers, TableIs DEF FarmInv, TypeOK
<1>2. CASE ReadEnds
  BY ZenonT(30), <1>1, <1>2 DEF ReadEnds, Quiet, AtBlock, Collecting, AtBody, TypeOK, Body_, reader, pool, reports, results
<1>3. CASE SkipNonCanonical
  BY <1>1, <1>3 DEF SkipNonCanonical, Quiet, AtBlock, Collecting, AtBody, TypeOK, Body_, dispatcher, pool, reports, results
<1>4. CASE BadBlockSequence
  BY <1>1, <1>4 DEF BadBlockSequence, Quiet, AtBlock, Collecting, AtBody, TypeOK, Body_, reader, dispatcher, pool, reports, results
<1>5. CASE ReadCanonical
  <2>1. cursor \in DOMAIN bodies
    BY <1>1, <1>5 DEF ReadCanonical, Reading, IsTable, TypeOK
  <2>2. QED BY <1>1, <1>5, <2>1 DEF ReadCanonical, Quiet, AtBlock, Collecting, AtBody, TypeOK, Body_, reader, pool, reports, results
<1>6. CASE FillBatchFails
  BY <1>1, <1>6 DEF FillBatchFails, Throw, Quiet, AtBlock, Collecting, AtBody, TypeOK, Body_, reader, results
<1>7. QED BY <1>2, <1>3, <1>4, <1>5, <1>6

\* The steps of dispatch_batch, but for the hand-over.
LEMMA DispatchQuiet ==
    ASSUME FarmInv,
           \/ DispatchAborts \/ DispatchNothing \/ DispatchBatch \/ FindFinished
           \/ AddWorker \/ WorkerStarted \/ AddFirstWorkerFails \/ AddWorkerFails
    PROVE  Quiet
<1> USE DEF MainStep, Reads, Dispatches, Ends_
<1>1. /\ TypeOK /\ workers \in Seq(RecoveryWorker) /\ AtBody /\ WorkersKept(workers, workers, queue)
      /\ AllBusy(workers) /\ Reports(workers, queue)
  BY SameWorkers DEF FarmInv, TypeOK
<1>2. CASE DispatchAborts
  BY <1>1, <1>2 DEF DispatchAborts, Throw, Quiet, AtBlock, Collecting, AtBody, TypeOK, Body_, reader, results
<1>3. CASE DispatchNothing
  BY <1>1, <1>3 DEF DispatchNothing, Dispatched, Quiet, AtBlock, Collecting, AtBody, TypeOK, Body_, reader, dispatcher, pool, reports, results
<1>4. CASE DispatchBatch
  BY <1>1, <1>4 DEF DispatchBatch, Quiet, AtBlock, Collecting, AtBody, TypeOK, Body_, reader, dispatcher, pool, reports, results
<1>5. CASE FindFinished
  BY <1>1, <1>5 DEF FindFinished, Quiet, AtBlock, Collecting, AtBody, TypeOK, Body_, reader, dispatcher, pool, reports, results
<1>6. CASE AddWorker
  <2>1. WorkersKept(workers, workers', queue)
    <3>1. workers' = Append(workers, Start(NewRecoveryWorker))
      BY <1>6 DEF AddWorker
    <3>2. QED BY ZenonT(30), <1>1, <3>1, NewWorker, AddedWorker
  <2>2. QED BY <1>1, <1>6, <2>1 DEF AddWorker, Quiet, AtBlock, Collecting, AtBody, TypeOK, Body_, reader, dispatcher, reports, results
<1>7. CASE WorkerStarted
  BY <1>1, <1>7 DEF WorkerStarted, Quiet, AtBlock, Collecting, AtBody, TypeOK, Body_, reader, dispatcher, pool, reports, results
<1>8. CASE AddFirstWorkerFails
  BY <1>1, <1>8 DEF AddFirstWorkerFails, Throw, Quiet, AtBlock, Collecting, AtBody, TypeOK, Body_, reader, results
<1>9. CASE AddWorkerFails
  BY <1>1, <1>9 DEF AddWorkerFails, Quiet, AtBlock, Collecting, AtBody, TypeOK, Body_, reader, dispatcher, reports, results
<1>10. QED BY <1>2, <1>3, <1>4, <1>5, <1>6, <1>7, <1>8, <1>9

\* bufferize_workers_results with nothing to pull, and an interrupt.
LEMMA IdleQuiet ==
    ASSUME FarmInv, Interrupt \/ \E from \in {"bufferize", "drain"} : BufferizeNothing(from)
    PROVE  Quiet
<1> USE DEF MainStep, Reads, Dispatches, Ends_
<1>1. /\ TypeOK /\ workers \in Seq(RecoveryWorker) /\ AtBody /\ WorkersKept(workers, workers, queue)
  BY SameWorkers DEF FarmInv, TypeOK
<1>2. CASE Interrupt
  BY <1>1, <1>2 DEF Interrupt, Quiet, AtBlock, Collecting, AtBody, TypeOK, Body_, main, reader, dispatcher, reports, results
<1>3. CASE BufferizeNothing("bufferize")
  BY <1>1, <1>3 DEF BufferizeNothing, Bufferized, Quiet, AtBlock, Collecting, AtBody, TypeOK, Body_, reader, dispatcher, pool, reports, results
<1>4. CASE BufferizeNothing("drain")
  BY <1>1, <1>4 DEF BufferizeNothing, Bufferized, Quiet, AtBlock, Collecting, AtBody, TypeOK, Body_, reader, dispatcher, pool, reports, results
<1>5. QED BY <1>2, <1>3, <1>4

\* The end of recover, and the destructor of the farm.
LEMMA FinishQuiet ==
    ASSUME FarmInv, Finish
    PROVE  Quiet
<1> USE DEF MainStep, Reads, Dispatches, Ends_
<1>1. /\ TypeOK /\ workers \in Seq(RecoveryWorker) /\ AtBody /\ WorkersKept(workers, workers, queue)
      /\ AllBusy(workers) /\ Reports(workers, queue)
      /\ \A i \in DOMAIN workers : workers[i] \in RecoveryWorker /\ Busy(workers[i])
  BY ZenonT(30), SameWorkers, WorkerType DEF FarmInv, TypeOK, AllBusy
<1>2. CASE WaitWorkersCompletion
  BY <1>1, <1>2 DEF WaitWorkersCompletion, Quiet, AtBlock, Collecting, AtBody, TypeOK, Body_, reader, dispatcher, pool, reports, results
<1>3. CASE Load
  BY <1>1, <1>3 DEF Load, Quiet, AtBlock, Collecting, AtBody, TypeOK, Body_, reader, dispatcher, pool, reports
<1>4. CASE StopWorker
  <2>1. workers' = [workers EXCEPT ![joining] = Stop(workers[joining])]
    BY <1>4 DEF StopWorker
  <2>2. WorkersKept(workers, workers', queue)
    <3>1. CASE joining \in DOMAIN workers
      BY ZenonT(30), <1>1, <2>1, <3>1, StopHarmless, HarmlessStep
    <3>2. CASE joining \notin DOMAIN workers
      <4>1. workers' = workers
        BY <1>1, <2>1, <3>2
      <4>2. QED BY <1>1, <4>1
    <3>3. QED BY <3>1, <3>2
  <2>3. QED BY <1>1, <1>4, <2>2 DEF StopWorker, Quiet, AtBlock, Collecting, AtBody, TypeOK, Body_, reader, dispatcher, reports, results
<1>5. CASE DestroyWorker
  <2>1. workers' = [workers EXCEPT ![joining] = Destroy([workers[joining] EXCEPT !.batch = None])]
    BY <1>5 DEF DestroyWorker
  <2>2. WorkersKept(workers, workers', queue)
    <3>1. CASE joining \in DOMAIN workers
      BY ZenonT(30), <1>1, <2>1, <3>1, DestroyHarmless, HarmlessStep
    <3>2. CASE joining \notin DOMAIN workers
      <4>1. workers' = workers
        BY <1>1, <2>1, <3>2
      <4>2. QED BY <1>1, <4>1
    <3>3. QED BY <3>1, <3>2
  <2>3. QED BY <1>1, <1>5, <2>2 DEF DestroyWorker, Quiet, AtBlock, Collecting, AtBody, TypeOK, Body_, reader, dispatcher, reports, results
<1>6. CASE JoinWorker("join", "stop") \/ JoinWorker("destroyjoin", "destroy")
  BY <1>1, <1>6 DEF JoinWorker, Quiet, AtBlock, Collecting, AtBody, TypeOK, Body_, reader, dispatcher, pool, reports, results
<1>7. CASE Done("stop") \/ Done("destroy")
  BY <1>1, <1>7 DEF Done, Quiet, AtBlock, Collecting, AtBody, TypeOK, Body_, reader, dispatcher, pool, reports, results
<1>8. QED BY <1>2, <1>3, <1>4, <1>5, <1>6, <1>7 DEF Finish

\* A worker has recovered the senders of its batch: the results are those of the blocks of the batch.
LEMMA RecoversKeeps ==
    ASSUME FarmInv, NEW i \in DOMAIN workers, workers[i].thread = "working", workers[i].step = "recover",
           workers[i].batch # None
    PROVE  WorkersKept(workers, [workers EXCEPT ![i] = [Recovered(workers[i]) EXCEPT !.step = "signal"]], queue)
<1> DEFINE w == workers[i]
           v == [Recovered(w) EXCEPT !.step = "signal"]
           us == [workers EXCEPT ![i] = v]
<1>1. /\ workers \in Seq(RecoveryWorker) /\ AllBusy(workers) /\ Reports(workers, queue) /\ IsTable(bodies)
      /\ w \in RecoveryWorker /\ Busy(w)
  BY WorkerType, TableIs DEF FarmInv, TypeOK, AllBusy
<1>2. w.status = "Working"
  BY <1>1 DEF Busy
<1>3. w.batch \in Seq(Package)
  BY <1>1 DEF RecoveryWorker
<1>4. PICK bounds, next, last : Dealt(bounds, next, last)
  BY ZenonT(30) DEF FarmInv
<1>5. Batched(bodies, w.batch, bounds[w.batch_id], bounds[w.batch_id + 1])
  BY ZenonT(30), <1>2, <1>4 DEF Dealt, Carried, Carries
<1>6. BlockResults(w.batch) \in Seq(Result)
  BY ZenonT(30), <1>1, <1>3, <1>5, BatchedResults
<1>7. /\ v \in RecoveryWorker /\ Busy(v) /\ v.batch_id = w.batch_id /\ v.status \in Finished
      /\ v.status = "ResultsReady" => v.results = BlockResults(w.batch)
  BY ZenonT(30), <1>1, <1>6, RecoveredFacts
<1>8. Replaced(workers, us, i, v)
  BY ZenonT(30), <1>1, <1>7, Replacing
<1>9. Steady(w, v)
  BY <1>2 DEF Steady, Finished
<1> HIDE DEF v, us
<1>10. ASSUME NEW table, NEW bs, NEW id, Carried(table, workers, bs, id)
       PROVE  Carried(table, us, bs, id)
  <2>1. Carries(table, w, bs, id)
    BY ZenonT(30), <1>10 DEF Carried
  <2>2. w.batch_id < id /\ Batched(table, w.batch, bs[w.batch_id], bs[w.batch_id + 1])
    BY <1>2, <2>1 DEF Carries
  <2>3. Covers(table, BlockResults(w.batch), bs[w.batch_id], bs[w.batch_id + 1])
    BY <2>2 DEF Batched
  <2>4. v.status # "Working"
    BY <1>7 DEF Finished
  <2>5. Carries(table, v, bs, id)
    BY ZenonT(30), <1>7, <2>2, <2>3, <2>4 DEF Carries
  <2>6. QED BY ZenonT(30), <1>8, <1>10, <2>5, ReplacedCarried
<1>11. us \in Seq(RecoveryWorker) /\ AllBusy(us) /\ Reports(us, queue)
  BY ZenonT(30), <1>1, <1>7, <1>8, <1>9, ReplacedBusy, ReplacedReports DEF Replaced
<1>12. WorkersKept(workers, us, queue)
  BY ZenonT(30), <1>10, <1>11 DEF WorkersKept
<1>13. QED BY <1>12 DEF us, v

\* The steps of a worker's thread, but for its report.
LEMMA ThreadQuiet ==
    ASSUME FarmInv, NEW i \in DOMAIN workers,
           \/ WorkerEnters(i) \/ WorkerForgetsKicks(i) \/ WorkerWakes(i)
           \/ WorkerRecovers(i) \/ WorkerReleasesBatch(i)
    PROVE  Quiet
<1> DEFINE w == workers[i]
<1>1. /\ TypeOK /\ workers \in Seq(RecoveryWorker) /\ AtBody /\ WorkersKept(workers, workers, queue)
      /\ AllBusy(workers) /\ Reports(workers, queue) /\ w \in RecoveryWorker /\ Busy(w)
  BY ZenonT(30), SameWorkers, WorkerType DEF FarmInv, TypeOK, AllBusy
<1>2. UNCHANGED <<bodies, main, results>> /\ UNCHANGED reports
  BY DEF WorkerEnters, WorkerForgetsKicks, WorkerWakes, WorkerRecovers, WorkerReleasesBatch, WorkerStep
<1>3. WorkersKept(workers, workers', queue)
  <2>1. CASE WorkerEnters(i)
    <3>1. w.thread = "new" /\ workers' = [workers EXCEPT ![i] = Enter(w)]
      BY <2>1 DEF WorkerEnters, WorkerStep, Becomes
    <3>2. Harmless(w, Enter(w))
      BY ZenonT(30), <1>1, <3>1, EnterHarmless
    <3>3. QED BY ZenonT(30), <1>1, <3>1, <3>2, HarmlessStep
  <2>2. CASE WorkerForgetsKicks(i)
    <3>1. w.thread = "entered" /\ workers' = [workers EXCEPT ![i] = ForgetKicks(w)]
      BY <2>2 DEF WorkerForgetsKicks, WorkerStep, Becomes
    <3>2. Harmless(w, ForgetKicks(w))
      BY ZenonT(30), <1>1, <3>1, ForgetHarmless
    <3>3. QED BY ZenonT(30), <1>1, <3>1, <3>2, HarmlessStep
  <2>3. CASE WorkerWakes(i)
    <3>1. CanWake(w) /\ workers' = [workers EXCEPT ![i] = [Wake(w) EXCEPT !.step = "recover"]]
      BY <2>3 DEF WorkerWakes, Becomes
    <3>2. Harmless(w, [Wake(w) EXCEPT !.step = "recover"])
      BY ZenonT(30), <1>1, <3>1, WakeHarmless
    <3>3. QED BY ZenonT(30), <1>1, <3>1, <3>2, HarmlessStep
  <2>4. CASE WorkerRecovers(i)
    <3>1. w.thread = "working" /\ w.step = "recover"
      BY <2>4 DEF WorkerRecovers, WorkerStep
    <3>2. CASE w.batch = None
      <4>1. workers' = workers
        BY <2>4, <3>2 DEF WorkerRecovers
      <4>2. QED BY <1>1, <4>1
    <3>3. CASE w.batch # None
      <4>1. workers' = [workers EXCEPT ![i] = [Recovered(w) EXCEPT !.step = "signal"]]
        BY <2>4, <3>3 DEF WorkerRecovers, Becomes
      <4>2. QED BY ZenonT(30), <3>1, <3>3, <4>1, RecoversKeeps
    <3>4. QED BY <3>2, <3>3
  <2>5. CASE WorkerReleasesBatch(i)
    <3>1. /\ w.thread = "working" /\ w.step = "release"
          /\ workers' = [workers EXCEPT ![i] = WaitAgain([w EXCEPT !.batch = None])]
      BY <2>5 DEF WorkerReleasesBatch, WorkerStep, Becomes
    <3>2. Harmless(w, WaitAgain([w EXCEPT !.batch = None]))
      BY ZenonT(30), <1>1, <3>1, ReleaseHarmless
    <3>3. QED BY ZenonT(30), <1>1, <3>1, <3>2, HarmlessStep
  <2>6. QED BY <2>1, <2>2, <2>3, <2>4, <2>5
<1>4. QED BY <1>1, <1>2, <1>3 DEF Quiet, AtBlock, Collecting, AtBody, TypeOK, Body_, main, reader, dispatcher, reports, results

(***************************************************************************)
(* Reports.                                                                *)
(***************************************************************************)
Report == [worker: Nat, batch_id: Nat]

\* What a report at the end of the queue does.
LEMMA QueueAppend ==
    ASSUME NEW q \in Seq(Report), NEW r \in Report
    PROVE  /\ Append(q, r) \in Seq(Report) /\ Len(Append(q, r)) = Len(q) + 1 /\ Len(q) \in Nat
           /\ Append(q, r)[Len(q) + 1] = r
           /\ \A n \in 1 .. Len(q) : Append(q, r)[n] = q[n]
           /\ \A n \in 1 .. Len(q) + 1 : n \in 1 .. Len(q) \/ n = Len(q) + 1
OBVIOUS

\* The turn passes to the next batch.
LEMMA TurnsAppend ==
    ASSUME NEW q \in Seq(Report), NEW r \in Report, NEW done \in Nat, NEW id \in Nat, done < id,
           Turns(q, done, id), r.batch_id = done
    PROVE  Turns(Append(q, r), done + 1, id)
<1> DEFINE t == Append(q, r)
           k == Len(q)
<1>1. /\ Len(t) = k + 1 /\ k \in Nat /\ t[k + 1] = r
      /\ \A n \in 1 .. k : t[n] = q[n]
      /\ \A n \in 1 .. k + 1 : n \in 1 .. k \/ n = k + 1
  BY ZenonT(30), QueueAppend
<1>2. k <= done /\ done <= id /\ \A n \in 1 .. k : q[n].batch_id = done - k + n - 1
  BY ZenonT(30) DEF Turns
<1> HIDE DEF t, k
<1>3. k \in Nat /\ k <= done
  BY ZenonT(30), <1>1, <1>2
<1>4. k + 1 <= done + 1 /\ done + 1 <= id
  BY <1>3
<1>5. \A n \in 1 .. k : done - k + n - 1 = done + 1 - (k + 1) + n - 1
  BY <1>3
<1>6. done = done + 1 - (k + 1) + (k + 1) - 1
  BY <1>3
<1>7. ASSUME NEW n \in 1 .. k + 1
      PROVE  t[n].batch_id = done + 1 - (k + 1) + n - 1
  <2>1. CASE n \in 1 .. k
    BY ZenonT(30), <1>1, <1>2, <1>5, <2>1
  <2>2. CASE n = k + 1
    BY ZenonT(30), <1>1, <1>6, <2>2
  <2>3. QED BY ZenonT(30), <1>1, <2>1, <2>2
<1>8. Turns(t, done + 1, id)
  <2>1. Len(t) = k + 1
    BY ZenonT(30), <1>1
  <2>2. Len(t) <= done + 1 /\ done + 1 <= id
    BY ZenonT(30), <1>4, <2>1
  <2>3. \A n \in 1 .. Len(t) : t[n].batch_id = done + 1 - Len(t) + n - 1
    BY ZenonT(30), <1>7, <2>1
  <2>4. QED BY <2>2, <2>3 DEF Turns
<1>9. QED BY <1>8 DEF t

\* A worker that has not reported reports.
LEMMA ReportsAppend ==
    ASSUME NEW q \in Seq(Report), NEW r \in Report, NEW ws, NEW us,
           Reports(ws, q), Signalling(ws[r.worker]), Reports(us, q),
           r.worker \in DOMAIN us, us[r.worker].status \in Finished, ~Signalling(us[r.worker]),
           us[r.worker].batch_id = r.batch_id
    PROVE  Reports(us, Append(q, r))
<1> DEFINE t == Append(q, r)
           k == Len(q)
<1>1. /\ Len(t) = k + 1 /\ t[k + 1] = r
      /\ \A n \in 1 .. k : t[n] = q[n]
      /\ \A n \in 1 .. k + 1 : n \in 1 .. k \/ n = k + 1
  BY ZenonT(30), QueueAppend
<1> HIDE DEF t, k
<1>2. \A n \in 1 .. k : q[n].worker # r.worker
  BY ZenonT(30) DEF Reports, k
<1>3. ASSUME NEW n \in 1 .. k + 1
      PROVE  /\ t[n].worker \in DOMAIN us /\ us[t[n].worker].status \in Finished
             /\ ~Signalling(us[t[n].worker]) /\ us[t[n].worker].batch_id = t[n].batch_id
  <2>1. CASE n \in 1 .. k
    BY ZenonT(30), <1>1, <2>1 DEF Reports, k
  <2>2. CASE n = k + 1
    BY ZenonT(30), <1>1, <2>2
  <2>3. QED BY ZenonT(30), <1>1, <2>1, <2>2
<1>4. ASSUME NEW n \in 1 .. k + 1, NEW m \in 1 .. k + 1, t[n].worker = t[m].worker
      PROVE  n = m
  <2>1. CASE n \in 1 .. k /\ m \in 1 .. k
    BY ZenonT(30), <1>1, <1>4, <2>1 DEF Reports, k
  <2>2. CASE n = k + 1 /\ m = k + 1
    BY <2>2
  <2>3. CASE n \in 1 .. k /\ m = k + 1
    BY ZenonT(30), <1>1, <1>2, <1>4, <2>3
  <2>4. CASE n = k + 1 /\ m \in 1 .. k
    BY ZenonT(30), <1>1, <1>2, <1>4, <2>4
  <2>5. QED BY ZenonT(30), <1>1, <2>1, <2>2, <2>3, <2>4
<1>5. QED BY ZenonT(30), <1>1, <1>3, <1>4 DEF Reports, t

\* The first report is taken off the queue.
LEMMA QueueTail ==
    ASSUME NEW q \in Seq(Report), q # <<>>
    PROVE  /\ Tail(q) \in Seq(Report) /\ Len(q) \in Nat /\ Len(q) > 0 /\ Len(Tail(q)) = Len(q) - 1
           /\ Head(q) = q[1] /\ 1 \in 1 .. Len(q)
           /\ \A n \in 1 .. Len(q) - 1 : Tail(q)[n] = q[n + 1] /\ n + 1 \in 1 .. Len(q) /\ n + 1 # 1
           /\ \A n, m \in 1 .. Len(q) - 1 : n + 1 = m + 1 => n = m
OBVIOUS

\* The other reports are of other workers.
LEMMA ReportsTail ==
    ASSUME NEW q \in Seq(Report), q # <<>>, NEW ws, Reports(ws, q)
    PROVE  Reports(ws, Tail(q)) /\ \A n \in 1 .. Len(Tail(q)) : Tail(q)[n].worker # Head(q).worker
<1> DEFINE t == Tail(q)
           k == Len(q)
<1>1. /\ Len(t) = k - 1 /\ Head(q) = q[1] /\ 1 \in 1 .. k
      /\ \A n \in 1 .. k - 1 : t[n] = q[n + 1] /\ n + 1 \in 1 .. k /\ n + 1 # 1
      /\ \A n, m \in 1 .. k - 1 : n + 1 = m + 1 => n = m
  BY ZenonT(30), QueueTail
<1> HIDE DEF t, k
<1>2. /\ \A n \in 1 .. k : /\ q[n].worker \in DOMAIN ws
                           /\ ws[q[n].worker].status \in Finished
                           /\ ~Signalling(ws[q[n].worker])
                           /\ ws[q[n].worker].batch_id = q[n].batch_id
      /\ \A n, m \in 1 .. k : q[n].worker = q[m].worker => n = m
  BY DEF Reports, k
<1>3. ASSUME NEW n \in 1 .. k - 1
      PROVE  /\ t[n].worker \in DOMAIN ws /\ ws[t[n].worker].status \in Finished
             /\ ~Signalling(ws[t[n].worker]) /\ ws[t[n].worker].batch_id = t[n].batch_id
  <2>1. n + 1 \in 1 .. k /\ t[n] = q[n + 1]
    BY ZenonT(30), <1>1, <1>3
  <2>2. QED BY ZenonT(30), <1>2, <2>1
<1>4. ASSUME NEW n \in 1 .. k - 1, NEW m \in 1 .. k - 1, t[n].worker = t[m].worker
      PROVE  n = m
  <2>1. n + 1 \in 1 .. k /\ m + 1 \in 1 .. k /\ q[n + 1].worker = q[m + 1].worker
    BY ZenonT(30), <1>1, <1>4
  <2>2. n + 1 = m + 1
    BY ZenonT(30), <1>2, <2>1
  <2>3. QED BY ZenonT(30), <1>1, <2>2
<1>5. ASSUME NEW n \in 1 .. k - 1
      PROVE  t[n].worker # Head(q).worker
  <2>1. n + 1 \in 1 .. k /\ 1 \in 1 .. k /\ n + 1 # 1 /\ t[n] = q[n + 1] /\ Head(q) = q[1]
    BY ZenonT(30), <1>1, <1>5
  <2>2. q[n + 1].worker # q[1].worker
    BY ZenonT(30), <1>2, <2>1
  <2>3. QED BY ZenonT(30), <2>1, <2>2
<1>6. Reports(ws, t) /\ \A n \in 1 .. Len(t) : t[n].worker # Head(q).worker
  BY ZenonT(30), <1>1, <1>3, <1>4, <1>5 DEF Reports
<1>7. QED BY <1>6 DEF t

\* The report taken is that of the first batch which is not pulled yet.
LEMMA TurnsTail ==
    ASSUME NEW q \in Seq(Report), q # <<>>, NEW done \in Nat, NEW id \in Nat, Turns(q, done, id)
    PROVE  /\ Turns(Tail(q), done, id) /\ Head(q).batch_id = done - Len(q)
           /\ done - Len(q) \in Nat /\ done - Len(Tail(q)) = done - Len(q) + 1
<1> DEFINE t == Tail(q)
           k == Len(q)
<1>1. /\ k \in Nat /\ k > 0 /\ Len(t) = k - 1 /\ Head(q) = q[1] /\ 1 \in 1 .. k
      /\ \A n \in 1 .. k - 1 : t[n] = q[n + 1] /\ n + 1 \in 1 .. k
  BY ZenonT(30), QueueTail
<1>2. k <= done /\ done <= id /\ \A n \in 1 .. k : q[n].batch_id = done - k + n - 1
  BY ZenonT(30) DEF Turns
<1> HIDE DEF t, k
<1>3. k \in Nat /\ k <= done /\ done <= id
  BY ZenonT(30), <1>1, <1>2
<1>4. /\ k - 1 <= done /\ done - k + 1 - 1 = done - k /\ done - k \in Nat /\ done - (k - 1) = done - k + 1
      /\ \A n \in 1 .. k - 1 : done - k + (n + 1) - 1 = done - (k - 1) + n - 1
  BY <1>3
<1>5. \A n \in 1 .. k - 1 : t[n].batch_id = done - (k - 1) + n - 1
  BY ZenonT(30), <1>1, <1>2, <1>4
<1>6. Head(q).batch_id = done - k
  BY ZenonT(30), <1>1, <1>2, <1>4
<1>7. QED BY ZenonT(30), <1>1, <1>3, <1>4, <1>5, <1>6 DEF Turns, t, k

(***************************************************************************)
(* Batches.                                                                *)
(***************************************************************************)

\* The bounds when the next batch has been handed over.
Extended(bounds, id, next) == [j \in 0 .. id + 1 |-> IF j = id + 1 THEN next ELSE bounds[j]]

\* The batch handed over ends at block next.
LEMMA BoundsGrow ==
    ASSUME NEW id \in Nat, NEW top \in Nat, NEW bounds, Bounds(bounds, id, top),
           NEW next \in From .. top + 1, bounds[id] <= next
    PROVE  LET bs == Extended(bounds, id, next)
           IN  Bounds(bs, id + 1, top) /\ bs[id + 1] = next /\ \A j \in 0 .. id : bs[j] = bounds[j]
<1> DEFINE bs == Extended(bounds, id, next)
<1>1. /\ bounds \in [0 .. id -> From .. top + 1] /\ bounds[0] = From
      /\ \A j \in 1 .. id : bounds[j - 1] <= bounds[j]
  BY DEF Bounds
<1>2. /\ id + 1 \in 0 .. id + 1 /\ 0 \in 0 .. id /\ \A j \in 0 .. id : j \in 0 .. id + 1 /\ j # id + 1
      /\ \A j \in 0 .. id + 1 : j # id + 1 => j \in 0 .. id
      /\ \A j \in 1 .. id + 1 : j \in 1 .. id \/ (j = id + 1 /\ j - 1 = id)
      /\ \A j \in 1 .. id : j \in 0 .. id /\ j - 1 \in 0 .. id
  OBVIOUS
<1>3. bs[id + 1] = next /\ \A j \in 0 .. id : bs[j] = bounds[j]
  BY ZenonT(30), <1>2 DEF Extended
<1>4. bs \in [0 .. id + 1 -> From .. top + 1]
  BY ZenonT(30), <1>1, <1>2 DEF Extended
<1> HIDE DEF bs
<1>5. id \in 0 .. id
  OBVIOUS
<1>6. ASSUME NEW j \in 1 .. id + 1
      PROVE  bs[j - 1] <= bs[j]
  <2>1. CASE j \in 1 .. id
    BY ZenonT(30), <1>1, <1>2, <1>3, <2>1
  <2>2. CASE j = id + 1 /\ j - 1 = id
    BY ZenonT(30), <1>3, <1>5, <2>2
  <2>3. QED BY ZenonT(30), <1>2, <2>1, <2>2
<1>7. bs[0] = From
  BY ZenonT(30), <1>1, <1>2, <1>3
<1>8. QED BY ZenonT(30), <1>3, <1>4, <1>6, <1>7 DEF Bounds, bs

\* The bounds when the next block has been read.
LEMMA BoundsRise ==
    ASSUME NEW id \in Nat, NEW top \in Nat, NEW bounds, Bounds(bounds, id, top)
    PROVE  Bounds(bounds, id, top + 1)
<1>1. \A x \in From .. top + 1 : x \in From .. top + 1 + 1
  BY FarmAssumption
<1>2. bounds \in [0 .. id -> From .. top + 1 + 1]
  BY ZenonT(30), <1>1 DEF Bounds
<1>3. QED BY ZenonT(30), <1>2 DEF Bounds

\* The workers go on carrying the batches they have.
LEMMA CarriedGrow ==
    ASSUME NEW table, NEW ws \in Seq(RecoveryWorker), NEW bounds, NEW bs, NEW id \in Nat,
           Carried(table, ws, bounds, id), \A j \in 0 .. id : bs[j] = bounds[j]
    PROVE  Carried(table, ws, bs, id + 1)
<1>1. ASSUME NEW i \in DOMAIN ws
      PROVE  Carries(table, ws[i], bs, id + 1)
  <2> DEFINE w == ws[i]
             k == w.batch_id
  <2>1. k \in Nat
    <3>1. w \in RecoveryWorker
      BY ZenonT(30), WorkerType
    <3>2. QED BY <3>1 DEF RecoveryWorker
  <2>2. Carries(table, w, bounds, id)
    BY ZenonT(30) DEF Carried
  <2> HIDE DEF k
  <2>3. k < id => k \in 0 .. id /\ k + 1 \in 0 .. id /\ k < id + 1
    BY <2>1
  <2>4. k < id => bs[k] = bounds[k] /\ bs[k + 1] = bounds[k + 1]
    BY ZenonT(30), <2>3
  <2>5. w.status = "Working" \/ w.status = "ResultsReady" => w.status # "Idle"
    OBVIOUS
  <2>6. w.status # "Idle" => k < id
    BY <2>2 DEF Carries, k
  <2>7. QED BY ZenonT(30), <2>2, <2>3, <2>4, <2>5, <2>6 DEF Carries, k
<1>2. QED BY ZenonT(30), <1>1 DEF Carried

\* The worker that is given the batch carries it.
LEMMA GivenCarries ==
    ASSUME NEW table, NEW bs, NEW id \in Nat, NEW v, v.status = "Working", v.batch_id = id,
           Batched(table, v.batch, bs[id], bs[id + 1])
    PROVE  Carries(table, v, bs, id + 1)
<1>1. id < id + 1
  OBVIOUS
<1>2. QED BY <1>1 DEF Carries

(***************************************************************************)
(* The steps that move a block or a result.                                *)
(***************************************************************************)

\* A worker reports.
LEMMA SignalStep ==
    ASSUME FarmInv, NEW i \in DOMAIN workers, WorkerSignals(i)
    PROVE  FarmInv'
<1> DEFINE w == workers[i]
           v == [w EXCEPT !.step = "release"]
           r == [worker |-> i, batch_id |-> w.batch_id]
<1>1. /\ TypeOK /\ workers \in Seq(RecoveryWorker) /\ AllBusy(workers) /\ Reports(workers, queue)
      /\ w \in RecoveryWorker /\ Busy(w)
      /\ queue \in Seq(Report) /\ completed \in Nat /\ batch_id \in Nat
  BY WorkerType DEF FarmInv, TypeOK, AllBusy, Report
<1>2. /\ Signalling(w) /\ completed = w.batch_id /\ queue' = Append(queue, r) /\ completed' = completed + 1
      /\ workers' = [workers EXCEPT ![i] = v]
  BY DEF WorkerSignals, WorkerStep, Becomes, Signalling
<1>3. /\ bodies' = bodies /\ pc' = pc /\ cursor' = cursor /\ expected' = expected /\ batch' = batch
      /\ batch_id' = batch_id /\ renew' = renew /\ ret' = ret /\ joining' = joining
      /\ header' = header /\ collected' = collected
  BY DEF WorkerSignals, WorkerStep, main, reader, dispatcher, results
<1>4. r \in Report /\ r.worker = i /\ r.batch_id = w.batch_id
  <2>1. i \in Nat /\ w.batch_id \in Nat
    BY <1>1 DEF RecoveryWorker
  <2>2. QED BY <2>1 DEF Report
<1>5. Harmless(w, v) /\ ~Signalling(v)
  BY ZenonT(30), <1>1, <1>2, SignalHarmless
<1>6. w.status \in Finished /\ v.status = w.status /\ v.batch_id = w.batch_id /\ v \in RecoveryWorker
  BY <1>1, <1>2, <1>5 DEF Busy, Signalling, Harmless, SameWork
<1> HIDE DEF v, r
<1>7. WorkersKept(workers, workers', queue)
  BY ZenonT(30), <1>1, <1>2, <1>5, HarmlessStep
<1>8. Replaced(workers, workers', i, v)
  BY ZenonT(30), <1>1, <1>2, <1>6, Replacing
<1>9. i \in DOMAIN workers' /\ workers'[i] = v
  BY <1>8 DEF Replaced
<1>10. Reports(workers', queue')
  <2>1. Reports(workers', queue)
    BY <1>7 DEF WorkersKept
  <2>2. QED BY ZenonT(30), <1>1, <1>2, <1>4, <1>5, <1>6, <1>9, <2>1, ReportsAppend
<1>11. queue' \in Seq(Report) /\ Len(queue') = Len(queue) + 1 /\ Len(queue) \in Nat
  BY ZenonT(30), <1>1, <1>2, <1>4, QueueAppend
<1>12. TypeOK'
  <2>1. completed' \in Nat
    BY <1>1, <1>2
  <2>2. QED BY ZenonT(30), <1>1, <1>3, <1>7, <1>11, <2>1 DEF TypeOK, WorkersKept, Report
<1>13. PICK bounds \in [0 .. batch_id -> From .. expected + 1],
            next \in From .. expected + 1, last \in From .. expected + 1 : Dealt(bounds, next, last)
  BY ZenonT(30) DEF FarmInv
<1>14. Turns(queue', completed', batch_id)
  <2>1. w.status # "Idle"
    BY <1>6 DEF Finished
  <2>2. completed < batch_id
    BY ZenonT(30), <1>2, <1>13, <2>1 DEF Dealt, Carried, Carries
  <2>3. Turns(queue, completed, batch_id)
    BY <1>13 DEF Dealt
  <2>4. QED BY ZenonT(30), <1>1, <1>2, <1>4, <2>2, <2>3, TurnsAppend
<1>15. Pulled' = Pulled
  BY <1>1, <1>2, <1>11 DEF Pulled
<1>16. Carried(bodies, workers', bounds, batch_id)
  BY ZenonT(30), <1>7, <1>13 DEF Dealt, WorkersKept
<1>17. Collecting' <=> Collecting
  BY <1>3 DEF Collecting
<1>18. Dealt(bounds, next, last)'
  BY ZenonT(30), <1>3, <1>13, <1>14, <1>15, <1>16, <1>17 DEF Dealt
<1>19. \E b \in [0 .. batch_id' -> From .. expected' + 1],
          n \in From .. expected' + 1, l \in From .. expected' + 1 : Dealt(b, n, l)'
  BY ZenonT(30), <1>3, <1>13, <1>18
<1>20. AllBusy(workers') /\ Counted(bodies', expected') /\ AtBody' /\ Headers' /\ (Collecting' => ret' = "Succeded")
  BY ZenonT(30), <1>3, <1>7, <1>17 DEF FarmInv, WorkersKept, AtBody, Body_, Headers
<1>21. QED BY ZenonT(30), <1>10, <1>12, <1>19, <1>20 DEF FarmInv

\* bufferize_workers_results meets a worker that has failed; nothing is collected after it.
LEMMA FailStep ==
    ASSUME FarmInv, BufferizeFails \/ DrainFails
    PROVE  FarmInv'
<1>1. /\ TypeOK /\ workers \in Seq(RecoveryWorker) /\ AllBusy(workers) /\ Reports(workers, queue)
      /\ queue \in Seq(Report) /\ completed \in Nat /\ batch_id \in Nat
  BY DEF FarmInv, TypeOK, Report
<1>2. /\ bodies' = bodies /\ cursor' = cursor /\ expected' = expected /\ batch' = batch /\ workers' = workers
      /\ batch_id' = batch_id /\ renew' = renew /\ joining' = joining /\ completed' = completed
      /\ header' = header /\ collected' = collected /\ queue # <<>> /\ queue' = Tail(queue)
  BY DEF BufferizeFails, DrainFails, Throw, MainStep, reader, dispatcher, pool, results
<1>3. pc' \in Ends_ /\ pc' \notin Reads \cup Dispatches /\ ~Collecting'
  BY DEF BufferizeFails, DrainFails, Throw, MainStep, Ends_, Reads, Dispatches, Collecting
<1>4. queue' \in Seq(Report)
  BY ZenonT(30), <1>1, <1>2, QueueTail
<1>5. TypeOK'
  BY ZenonT(30), <1>1, <1>2, <1>3, <1>4 DEF TypeOK, Report
<1>6. Reports(workers', queue')
  BY ZenonT(30), <1>1, <1>2, ReportsTail
<1>7. PICK bounds \in [0 .. batch_id -> From .. expected + 1],
           next \in From .. expected + 1, last \in From .. expected + 1 : Dealt(bounds, next, last)
  BY ZenonT(30) DEF FarmInv
<1>8. Turns(queue', completed', batch_id)
  BY ZenonT(30), <1>1, <1>2, <1>7, TurnsTail DEF Dealt
<1>9. ~(pc' \in Reads) /\ ~(pc' \in Dispatches) /\ pc' # "fill"
  BY <1>3 DEF Reads
<1>10. Dealt(bounds, next, last)'
  BY ZenonT(30), <1>2, <1>3, <1>7, <1>8, <1>9 DEF Dealt
<1>11. \E b \in [0 .. batch_id' -> From .. expected' + 1],
          n \in From .. expected' + 1, l \in From .. expected' + 1 : Dealt(b, n, l)'
  BY ZenonT(30), <1>2, <1>7, <1>10
<1>12. AllBusy(workers') /\ Counted(bodies', expected') /\ AtBody' /\ Headers'
  BY ZenonT(30), <1>1, <1>2, <1>9 DEF FarmInv, AtBody, Headers
<1>13. QED BY ZenonT(30), <1>3, <1>5, <1>6, <1>11, <1>12 DEF FarmInv

\* The records that bufferize_workers_results makes of results.
RecordsOf(res, first) ==
    [n \in DOMAIN res |-> [block |-> res[n].block, hash |-> first + n - 1, count |-> res[n].count]]

\* A record for each result, under one header after the other.
LEMMA RecordsFacts ==
    ASSUME NEW res \in Seq(Result), NEW first \in Nat
    PROVE  LET rec == RecordsOf(res, first)
           IN  /\ rec \in Seq(Record) /\ Len(rec) = Len(res) /\ Len(res) \in Nat
               /\ \A n \in 1 .. Len(res) : /\ rec[n].block = res[n].block /\ rec[n].count = res[n].count
                                           /\ rec[n].hash = first + n - 1
<1> DEFINE k == Len(res)
           rec == RecordsOf(res, first)
<1>1. k \in Nat /\ DOMAIN res = 1 .. k /\ \A n \in 1 .. k : res[n] \in Result
  OBVIOUS
<1>2. \A n \in 1 .. k : res[n].block \in Nat /\ res[n].count \in Nat
  BY ZenonT(30), <1>1 DEF Result
<1>3. \A n \in 1 .. k : first + n - 1 \in Nat
  BY <1>1
<1> HIDE DEF k
<1>4. /\ rec = [n \in 1 .. k |-> [block |-> res[n].block, hash |-> first + n - 1, count |-> res[n].count]]
  BY <1>1 DEF RecordsOf
<1>5. \A x \in Nat, y \in Nat, z \in Nat : [block |-> x, hash |-> y, count |-> z] \in Record
  BY DEF Record
<1> HIDE DEF rec
<1>6. rec \in [1 .. k -> Record]
  BY ZenonT(30), <1>2, <1>3, <1>4, <1>5
<1>7. rec \in Seq(Record) /\ Len(rec) = k
  BY <1>1, <1>6
<1>8. \A n \in 1 .. k : rec[n].block = res[n].block /\ rec[n].count = res[n].count /\ rec[n].hash = first + n - 1
  BY ZenonT(30), <1>4
<1>9. QED BY ZenonT(30), <1>1, <1>7, <1>8 DEF k, rec

\* One sequence after another.
LEMMA ConcatFacts ==
    ASSUME NEW S, NEW q \in Seq(S), NEW r \in Seq(S)
    PROVE  /\ q \o r \in Seq(S) /\ Len(q \o r) = Len(q) + Len(r) /\ Len(q) \in Nat
           /\ DOMAIN (q \o r) = 1 .. Len(q) + Len(r)
           /\ \A n \in 1 .. Len(q) : (q \o r)[n] = q[n]
           /\ \A n \in 1 .. Len(r) : (q \o r)[Len(q) + n] = r[n]
OBVIOUS

\* Adding the places in one sequence and in another.
LEMMA Sums ==
    ASSUME NEW x \in Nat, NEW k \in Nat, NEW m \in Nat, NEW n \in 1 .. k + m
    PROVE  k + (n - k) = n /\ x + k + (n - k) - 1 = x + n - 1
OBVIOUS

\* Adding is associative.
LEMMA Associative ==
    ASSUME NEW x \in Nat, NEW k \in Nat, NEW m \in Nat
    PROVE  x + k + m = x + (k + m) /\ x + k + m \in Nat
OBVIOUS

\* Records added at the end follow those collected.
LEMMA CollectedFacts ==
    ASSUME NEW col \in Seq(Record), Keyed(col), NEW res \in Seq(Result)
    PROVE  LET first == From + Len(col)
               t == col \o RecordsOf(res, first)
           IN  /\ t \in Seq(Record) /\ Follows(t, col, res) /\ first + Len(res) = From + Len(t)
               /\ first + Len(res) \in Nat
               /\ Keyed(t)
<1> DEFINE k == Len(col)
           m == Len(res)
           first == From + k
           rec == RecordsOf(res, first)
           t == col \o rec
<1>1. From \in Nat /\ k \in Nat /\ m \in Nat
  BY FarmAssumption
<1>2. first \in Nat
  BY <1>1
<1> HIDE DEF k, m, first
<1>3. /\ rec \in Seq(Record) /\ Len(rec) = m
      /\ \A n \in 1 .. m : /\ rec[n].block = res[n].block /\ rec[n].count = res[n].count
                           /\ rec[n].hash = first + n - 1
  BY ZenonT(30), <1>2, RecordsFacts DEF m
<1> HIDE DEF rec
<1>4. /\ t \in Seq(Record) /\ Len(t) = k + m /\ DOMAIN t = 1 .. k + m
      /\ \A n \in 1 .. k : t[n] = col[n]
      /\ \A n \in 1 .. m : t[k + n] = rec[n]
  <2>1. /\ t \in Seq(Record) /\ Len(t) = Len(col) + Len(rec) /\ DOMAIN t = 1 .. Len(col) + Len(rec)
        /\ \A n \in 1 .. Len(col) : t[n] = col[n]
        /\ \A n \in 1 .. Len(rec) : t[Len(col) + n] = rec[n]
    <3>1. rec \in Seq(Record)
      BY ZenonT(30), <1>3
    <3>2. QED BY <3>1, ConcatFacts
  <2>2. Len(rec) = m /\ Len(col) = k
    BY ZenonT(30), <1>3 DEF k
  <2> HIDE DEF t
  <2>3. QED BY ZenonT(30), <2>1, <2>2
<1> HIDE DEF t
<1>5. first + m = From + (k + m) /\ first + m \in Nat
  BY ZenonT(30), <1>1, Associative DEF first
<1>6. Follows(t, col, res)
  BY ZenonT(30), <1>3, <1>4 DEF Follows, k, m
<1>7. ASSUME NEW n \in 1 .. k + m
      PROVE  t[n].hash = From + n - 1
  <2>1. CASE n \in 1 .. k
    BY ZenonT(30), <1>4, <2>1 DEF k, Keyed
  <2>2. CASE n - k \in 1 .. m
    <3>1. k + (n - k) = n /\ first + (n - k) - 1 = From + n - 1
      BY ZenonT(30), <1>1, <1>7, Sums DEF first
    <3>2. t[n] = rec[n - k]
      BY ZenonT(30), <1>4, <2>2, <3>1
    <3>3. QED BY ZenonT(30), <1>3, <2>2, <3>1, <3>2
  <2>3. n \in 1 .. k \/ n - k \in 1 .. m
    BY ZenonT(30), <1>1, <1>7, InEither
  <2>4. QED BY ZenonT(30), <2>1, <2>2, <2>3
<1>8. Keyed(t)
  BY ZenonT(30), <1>4, <1>7 DEF Keyed
<1>9. QED BY ZenonT(30), <1>4, <1>5, <1>6, <1>8 DEF k, m, first, rec, t

\* The reports left are not of the worker whose results are pulled.
LEMMA PulledReports ==
    ASSUME NEW ws, NEW us, NEW k, NEW v, Replaced(ws, us, k, v), NEW t, Reports(ws, t),
           \A n \in 1 .. Len(t) : t[n].worker # k
    PROVE  Reports(us, t)
<1>1. ASSUME NEW n \in 1 .. Len(t)
      PROVE  /\ t[n].worker \in DOMAIN us /\ us[t[n].worker].status \in Finished
             /\ ~Signalling(us[t[n].worker]) /\ us[t[n].worker].batch_id = t[n].batch_id
  BY ZenonT(30) DEF Reports, Replaced
<1>2. QED BY ZenonT(30), <1>1 DEF Reports

\* The results of the first reported batch are collected: they go on where those collected end.
LEMMA PullStep ==
    ASSUME FarmInv, NEW from \in {"bufferize", "drain"}, BufferizeResults(from)
    PROVE  FarmInv'
<1> DEFINE k == Head(queue).worker
           w == workers[k]
           v == [w EXCEPT !.status = "Idle", !.results = <<>>]
<1>1. /\ TypeOK /\ workers \in Seq(RecoveryWorker) /\ AllBusy(workers) /\ Reports(workers, queue)
      /\ queue \in Seq(Report) /\ completed \in Nat /\ batch_id \in Nat /\ IsTable(bodies)
      /\ collected \in Seq(Record) /\ header = From + Len(collected) /\ Keyed(collected)
  BY TableIs DEF FarmInv, TypeOK, Report, Headers
<1>2. /\ bodies' = bodies /\ cursor' = cursor /\ expected' = expected /\ batch' = batch /\ ret' = ret
      /\ batch_id' = batch_id /\ renew' = renew /\ joining' = joining /\ completed' = completed
      /\ queue # <<>> /\ queue' = Tail(queue)
  BY DEF BufferizeResults, MainStep, reader, dispatcher
<1>3. /\ pc = from /\ pc' \in {"bufferize", "find", "drain", "load"}
      /\ pc' \in {"bufferize", "find"} => pc = "bufferize"
  BY DEF BufferizeResults, MainStep, Bufferized
<1>4. /\ queue' \in Seq(Report) /\ Head(queue) = queue[1] /\ 1 \in 1 .. Len(queue)
      /\ Len(queue) \in Nat /\ Len(queue) > 0
  BY ZenonT(30), <1>1, <1>2, QueueTail
<1>5. /\ k \in DOMAIN workers /\ w.status \in Finished /\ ~Signalling(w) /\ w.batch_id = Head(queue).batch_id
  BY ZenonT(30), <1>1, <1>4 DEF Reports
<1>6. w.status = "ResultsReady"
  BY <1>5 DEF BufferizeResults, ReporterFailed, HasStatus, Reporter, Finished
<1>7. /\ collected' = collected \o Records(w) /\ header' = header + Len(w.results)
      /\ workers' = [workers EXCEPT ![k] = v]
  BY <1>5, <1>6 DEF BufferizeResults, HasStatus, Reporter
<1>8. w \in RecoveryWorker /\ Busy(w) /\ w.results \in Seq(Result) /\ w.batch_id \in Nat
  <2>1. w \in RecoveryWorker /\ Busy(w)
    BY ZenonT(30), <1>1, <1>5, WorkerType DEF AllBusy
  <2>2. QED BY <2>1 DEF RecoveryWorker
<1>9. v \in RecoveryWorker /\ Busy(v) /\ v.status = "Idle"
  BY ZenonT(30), <1>5, <1>6, <1>8, PulledFacts
<1> HIDE DEF v
<1>10. Replaced(workers, workers', k, v)
  BY ZenonT(30), <1>1, <1>5, <1>7, <1>9, Replacing
<1>11. workers' \in Seq(RecoveryWorker) /\ AllBusy(workers')
  <2>1. workers' \in Seq(RecoveryWorker)
    BY ZenonT(30), <1>10 DEF Replaced
  <2>2. AllBusy(workers')
    BY ZenonT(30), <1>1, <1>9, <1>10, ReplacedBusy
  <2>3. QED BY <2>1, <2>2
<1>12. Reports(workers', queue')
  <2>1. Reports(workers, Tail(queue)) /\ \A n \in 1 .. Len(Tail(queue)) : Tail(queue)[n].worker # k
    BY ZenonT(30), <1>1, <1>2, ReportsTail
  <2>2. QED BY ZenonT(30), <1>2, <1>10, <2>1, PulledReports
<1>13. /\ collected' \in Seq(Record) /\ Follows(collected', collected, w.results)
       /\ header' = From + Len(collected') /\ header' \in Nat /\ Keyed(collected')
  <2>1. Records(w) = RecordsOf(w.results, From + Len(collected))
    BY ZenonT(30), <1>1 DEF Records, RecordsOf
  <2>2. collected' = collected \o RecordsOf(w.results, From + Len(collected))
    BY ZenonT(30), <1>7, <2>1
  <2>3. header' = From + Len(collected) + Len(w.results)
    BY ZenonT(30), <1>1, <1>7
  <2>4. QED BY ZenonT(30), <1>1, <1>8, <2>2, <2>3, CollectedFacts
<1>14. TypeOK'
  <2>1. pc' \in Reads \cup Dispatches \cup Ends_
    BY <1>3 DEF Dispatches, Ends_
  <2>2. QED BY ZenonT(30), <1>1, <1>2, <1>4, <1>11, <1>13, <2>1 DEF TypeOK, Report
<1>15. Headers'
  BY <1>13 DEF Headers
<1>16. PICK bounds \in [0 .. batch_id -> From .. expected + 1],
            next \in From .. expected + 1, last \in From .. expected + 1 : Dealt(bounds, next, last)
  BY ZenonT(30) DEF FarmInv
<1>17. Collecting /\ last = bounds[Pulled]
  <2>1. Collecting
    BY <1>3 DEF Collecting, Dispatches
  <2>2. QED BY ZenonT(30), <1>16, <2>1 DEF Dealt
<1>18. /\ Turns(queue', completed', batch_id) /\ Head(queue).batch_id = Pulled /\ Pulled \in Nat
       /\ Pulled' = Pulled + 1
  BY ZenonT(30), <1>1, <1>2, <1>16, TurnsTail DEF Dealt, Pulled
<1>19. Pulled + 1 \in 1 .. batch_id /\ Pulled + 1 \in 0 .. batch_id /\ (Pulled + 1) - 1 = Pulled
  <2>1. completed <= batch_id
    BY <1>16 DEF Dealt, Turns
  <2>2. Pulled = completed - Len(queue)
    BY DEF Pulled
  <2>3. Len(queue) \in Nat /\ Len(queue) > 0 /\ Pulled \in Nat /\ completed \in Nat /\ batch_id \in Nat
    BY ZenonT(30), <1>1, <1>4, <1>18
  <2>4. QED BY <2>1, <2>2, <2>3
<1>20. PICK end \in From .. expected + 1 : end = bounds[Pulled + 1] /\ last <= end
  <2>1. bounds[Pulled + 1] \in From .. expected + 1
    BY ZenonT(30), <1>16, <1>19
  <2>2. bounds[(Pulled + 1) - 1] <= bounds[Pulled + 1]
    BY ZenonT(30), <1>16, <1>19 DEF Dealt, Bounds
  <2>3. last <= bounds[Pulled + 1]
    BY ZenonT(30), <1>17, <1>19, <2>2
  <2>4. QED BY ZenonT(30), <2>1, <2>3
<1>21. Covers(bodies, collected', From, end)
  <2>1. Covers(bodies, collected, From, last)
    BY <1>16 DEF Dealt
  <2>2. Covers(bodies, w.results, last, end)
    <3>1. Carries(bodies, w, bounds, batch_id)
      BY ZenonT(30), <1>5, <1>16 DEF Dealt, Carried
    <3>2. w.batch_id = Pulled
      BY ZenonT(30), <1>5, <1>18
    <3>3. QED BY ZenonT(30), <1>6, <1>17, <1>20, <3>1, <3>2 DEF Carries
  <2>3. From \in Nat /\ last \in Nat /\ end \in Nat /\ From <= last
    <3>1. From \in Nat /\ expected \in Nat
      BY <1>1, FarmAssumption DEF TypeOK
    <3>2. \A x \in From .. expected + 1 : x \in Nat /\ From <= x
      BY <3>1
    <3>3. QED BY ZenonT(30), <1>16, <1>20, <3>1, <3>2
  <2>4. QED BY ZenonT(30), <1>1, <1>8, <1>13, <1>20, <2>1, <2>2, <2>3, CoversConcat
<1>22. Carried(bodies, workers', bounds, batch_id)
  <2>1. Carries(bodies, v, bounds, batch_id)
    BY <1>9 DEF Carries
  <2>2. QED BY ZenonT(30), <1>10, <1>16, <2>1, ReplacedCarried DEF Dealt
<1>23. /\ AtBlock' => AtBlock
       /\ pc' \in Reads \cup Dispatches => pc \in Reads \cup Dispatches
       /\ pc' # "fill"
  BY <1>2, <1>3 DEF AtBlock, Reads, Dispatches
<1>24. Dealt(bounds, next, end)'
  <2>1. Bounds(bounds, batch_id', expected') /\ next \in From .. expected' + 1 /\ bounds[batch_id'] <= next
    BY ZenonT(30), <1>2, <1>16 DEF Dealt
  <2>2. AtBlock' => next = expected'
    BY ZenonT(30), <1>2, <1>16, <1>23 DEF Dealt, AtBlock
  <2>3. pc' \in Reads \cup Dispatches => Batched(bodies', batch', bounds[batch_id'], next)
    BY ZenonT(30), <1>2, <1>16, <1>23 DEF Dealt
  <2>4. Carried(bodies', workers', bounds, batch_id') /\ Turns(queue', completed', batch_id')
    BY ZenonT(30), <1>2, <1>18, <1>22
  <2>5. end \in From .. expected' + 1 /\ Covers(bodies', collected', From, end)
    BY ZenonT(30), <1>2, <1>20, <1>21
  <2>6. end = bounds[Pulled']
    BY ZenonT(30), <1>18, <1>20
  <2>7. QED BY ZenonT(30), <2>1, <2>2, <2>3, <2>4, <2>5, <2>6 DEF Dealt, AtBlock
<1>25. \E b \in [0 .. batch_id' -> From .. expected' + 1],
          n \in From .. expected' + 1, l \in From .. expected' + 1 : Dealt(b, n, l)'
  BY ZenonT(30), <1>2, <1>16, <1>20, <1>24
<1>26. Counted(bodies', expected') /\ (Collecting' => ret' = "Succeded")
  BY ZenonT(30), <1>2, <1>17 DEF FarmInv
<1>27. AtBody'
  BY <1>2, <1>3, <1>23 DEF FarmInv, AtBody, Body_, Dispatches
<1>28. QED BY ZenonT(30), <1>11, <1>12, <1>14, <1>15, <1>25, <1>26, <1>27 DEF FarmInv

\* dispatch_batch hands the batch to an idle worker.
LEMMA DealStep ==
    ASSUME FarmInv, FindIdle
    PROVE  FarmInv'
<1>1. /\ TypeOK /\ workers \in Seq(RecoveryWorker) /\ AllBusy(workers) /\ Reports(workers, queue)
      /\ completed \in Nat /\ batch_id \in Nat /\ IsTable(bodies) /\ batch \in Seq(Package)
      /\ From \in Nat /\ expected \in Nat
  BY TableIs, FarmAssumption DEF FarmInv, TypeOK
<1>2. /\ bodies' = bodies /\ cursor' = cursor /\ expected' = expected /\ renew' = renew /\ ret' = ret
      /\ joining' = joining /\ completed' = completed /\ queue' = queue
      /\ header' = header /\ collected' = collected /\ batch' = <<>> /\ batch_id' = batch_id + 1
  BY DEF FindIdle, MainStep, reader, reports, results
<1>3. /\ pc = "find" /\ pc' \in {"fill", "wait"} /\ (pc' = "fill" => renew) /\ pc \in Dispatches
      /\ (AtBlock' => AtBlock) /\ Collecting /\ (AtBody => AtBody')
  <2>1. pc = "find" /\ pc' = IF renew THEN "fill" ELSE "wait"
    BY DEF FindIdle, MainStep, Dispatched
  <2>2. QED BY <1>2, <2>1 DEF Dispatches, Reads, AtBlock, Collecting, AtBody, Body_
<1>4. PICK i \in DOMAIN workers : /\ workers[i].status = "Idle"
                                  /\ workers' = [workers EXCEPT ![i] = SetWork(workers[i], batch_id, batch)]
  BY ZenonT(30) DEF FindIdle, FirstIdle, HasStatus
<1> DEFINE w == workers[i]
           v == SetWork(w, batch_id, batch)
<1>5. w \in RecoveryWorker /\ Busy(w)
  BY ZenonT(30), <1>1, <1>4, WorkerType DEF AllBusy
<1>6. /\ v \in RecoveryWorker /\ Busy(v) /\ v.status = "Working" /\ v.batch = batch /\ v.batch_id = batch_id
  <2>1. w.status = "Idle" /\ batch_id \in Nat /\ batch \in Seq(Package)
    BY <1>1, <1>4
  <2>2. QED BY <1>5, <2>1, SetWorkFacts
<1>7. Steady(w, v)
  BY <1>4 DEF Steady, Finished
<1> HIDE DEF v
<1>8. Replaced(workers, workers', i, v)
  <2>1. workers' = [workers EXCEPT ![i] = v]
    BY <1>4 DEF v
  <2>2. QED BY ZenonT(30), <1>1, <1>6, <2>1, Replacing
<1>9. AllBusy(workers') /\ Reports(workers', queue)
  <2>1. AllBusy(workers')
    BY ZenonT(30), <1>1, <1>6, <1>8, ReplacedBusy
  <2>2. Reports(workers', queue)
    BY ZenonT(30), <1>1, <1>7, <1>8, ReplacedReports
  <2>3. QED BY <2>1, <2>2
<1>10. workers' \in Seq(RecoveryWorker)
  BY <1>8 DEF Replaced
<1>11. PICK bounds \in [0 .. batch_id -> From .. expected + 1],
            next \in From .. expected + 1, last \in From .. expected + 1 : Dealt(bounds, next, last)
  BY ZenonT(30) DEF FarmInv
<1>12. PICK bs : /\ Bounds(bs, batch_id + 1, expected) /\ bs[batch_id + 1] = next
                 /\ \A j \in 0 .. batch_id : bs[j] = bounds[j]
  <2>1. Bounds(bounds, batch_id, expected) /\ bounds[batch_id] <= next
    BY <1>11 DEF Dealt
  <2> DEFINE e == Extended(bounds, batch_id, next)
  <2>2. Bounds(e, batch_id + 1, expected) /\ e[batch_id + 1] = next /\ \A j \in 0 .. batch_id : e[j] = bounds[j]
    <3>1. batch_id \in Nat /\ expected \in Nat
      BY <1>1
    <3>2. QED BY <2>1, <3>1, BoundsGrow
  <2> HIDE DEF e
  <2>3. QED BY ZenonT(30), <2>2
<1>13. batch_id \in 0 .. batch_id /\ next \in Nat /\ next <= next
  BY <1>1
<1>14. Carried(bodies, workers', bs, batch_id + 1)
  <2>1. Carried(bodies, workers, bs, batch_id + 1)
    BY ZenonT(30), <1>1, <1>11, <1>12, CarriedGrow DEF Dealt
  <2>2. Batched(bodies, batch, bounds[batch_id], next)
    <3>1. pc \in Reads \cup Dispatches
      BY <1>3
    <3>2. QED BY ZenonT(30), <1>11, <3>1 DEF Dealt
  <2>3. Batched(bodies, v.batch, bs[batch_id], bs[batch_id + 1])
    BY ZenonT(30), <1>6, <1>12, <1>13, <2>2
  <2>4. Carries(bodies, v, bs, batch_id + 1)
    BY ZenonT(30), <1>1, <1>6, <2>3, GivenCarries
  <2>5. QED BY ZenonT(30), <1>8, <2>1, <2>4, ReplacedCarried
<1>15. Turns(queue, completed, batch_id + 1) /\ Pulled \in 0 .. batch_id
  <2>1. Turns(queue, completed, batch_id)
    BY <1>11 DEF Dealt
  <2>2. Len(queue) <= completed /\ completed <= batch_id /\ Len(queue) \in Nat
    BY <1>1, <2>1 DEF Turns, TypeOK
  <2>3. completed <= batch_id + 1
    BY <1>1, <2>2
  <2>4. Pulled \in 0 .. batch_id
    BY <1>1, <2>2 DEF Pulled
  <2>5. QED BY ZenonT(30), <2>1, <2>3, <2>4 DEF Turns
<1>16. Dealt(bs, next, last)'
  <2>1. Bounds(bs, batch_id', expected') /\ next \in From .. expected' + 1 /\ bs[batch_id'] <= next
    BY ZenonT(30), <1>2, <1>11, <1>12, <1>13
  <2>2. AtBlock' => next = expected'
    BY ZenonT(30), <1>2, <1>3, <1>11 DEF Dealt, AtBlock
  <2>3. Batched(bodies', batch', bs[batch_id'], next)
    BY ZenonT(30), <1>1, <1>2, <1>12, BatchedNothing
  <2>4. Carried(bodies', workers', bs, batch_id') /\ Turns(queue', completed', batch_id')
    BY ZenonT(30), <1>2, <1>14, <1>15
  <2>5. last \in From .. expected' + 1 /\ Covers(bodies', collected', From, last)
    BY ZenonT(30), <1>2, <1>11 DEF Dealt
  <2>6. last = bs[Pulled']
    <3>1. last = bounds[Pulled] /\ Pulled' = Pulled
      BY ZenonT(30), <1>2, <1>3, <1>11 DEF Dealt, Pulled
    <3>2. QED BY ZenonT(30), <1>12, <1>15, <3>1
  <2>7. QED BY ZenonT(30), <2>1, <2>2, <2>3, <2>4, <2>5, <2>6 DEF Dealt, AtBlock
<1>17. \E b \in [0 .. batch_id' -> From .. expected' + 1],
          n \in From .. expected' + 1, l \in From .. expected' + 1 : Dealt(b, n, l)'
  <2>1. bs \in [0 .. batch_id' -> From .. expected' + 1]
    BY ZenonT(30), <1>2, <1>12 DEF Bounds
  <2>2. QED BY ZenonT(30), <1>2, <1>11, <1>16, <2>1
<1>18. TypeOK'
  <2>1. batch_id' \in Nat /\ batch' \in Seq(Package)
    BY <1>1, <1>2
  <2>2. pc' \in Reads \cup Dispatches \cup Ends_
    BY <1>3 DEF Reads, Ends_
  <2>3. QED BY ZenonT(30), <1>1, <1>2, <1>10, <2>1, <2>2 DEF TypeOK
<1>19. Counted(bodies', expected') /\ Headers' /\ (Collecting' => ret' = "Succeded")
  BY ZenonT(30), <1>2, <1>3 DEF FarmInv, Headers
<1>20. AtBody'
  BY ZenonT(30), <1>3 DEF FarmInv
<1>21. QED BY ZenonT(30), <1>2, <1>9, <1>17, <1>18, <1>19, <1>20 DEF FarmInv

\* fill_batch adds the block that is expected to the batch.
LEMMA FillStep ==
    ASSUME FarmInv, FillBatch
    PROVE  FarmInv'
<1> DEFINE b == bodies[cursor]
<1>1. /\ TypeOK /\ workers \in Seq(RecoveryWorker) /\ AllBusy(workers) /\ Reports(workers, queue)
      /\ batch_id \in Nat /\ IsTable(bodies) /\ batch \in Seq(Package) /\ cursor \in Nat
      /\ From \in Nat /\ To \in Nat /\ expected \in Nat /\ expected <= To /\ From <= expected
  BY TableIs, FarmAssumption DEF FarmInv, TypeOK
<1>2. /\ bodies' = bodies /\ batch_id' = batch_id /\ ret' = ret /\ joining' = joining
      /\ workers' = workers /\ completed' = completed /\ queue' = queue
      /\ header' = header /\ collected' = collected
      /\ batch' = batch \o Packages(b) /\ pc = "fill"
  BY DEF FillBatch, MainStep, pool, reports, results, Body_, Packages
<1>3. \/ /\ expected = To /\ pc' = "dispatch" /\ renew' = FALSE /\ cursor' = cursor /\ expected' = expected
      \/ /\ expected # To /\ pc' = "read" /\ renew' = renew /\ cursor' = cursor + 1 /\ expected' = expected + 1
  BY DEF FillBatch, MainStep, reader
<1>4. b \in Range(bodies) /\ b.num = expected /\ b.canonical /\ b.num <= To
  <2>1. cursor \in DOMAIN bodies /\ b.num = expected /\ b.canonical
    BY <1>2 DEF FarmInv, AtBody, Body_
  <2>2. QED BY <1>1, <2>1 DEF Range
<1>5. PICK bounds \in [0 .. batch_id -> From .. expected + 1],
           next \in From .. expected + 1, last \in From .. expected + 1 : Dealt(bounds, next, last)
  BY ZenonT(30) DEF FarmInv
<1>6. next = expected /\ Batched(bodies, batch, bounds[batch_id], expected) /\ bounds[batch_id] <= expected
  <2>1. pc \in Reads
    BY <1>2 DEF Reads
  <2>2. QED BY ZenonT(30), <1>5, <2>1 DEF Dealt
<1>7. bounds[batch_id] \in Nat
  <2>1. batch_id \in 0 .. batch_id /\ \A x \in From .. expected + 1 : x \in Nat
    BY <1>1
  <2>2. QED BY ZenonT(30), <1>5, <2>1
<1> HIDE DEF b
<1>8. batch' \in Seq(Package) /\ Batched(bodies, batch', bounds[batch_id], expected + 1)
  <2>1. bounds[batch_id] <= b.num /\ Batched(bodies, batch, bounds[batch_id], b.num)
    BY ZenonT(30), <1>4, <1>6
  <2>2. /\ batch \o Packages(b) \in Seq(Package)
        /\ Batched(bodies, batch \o Packages(b), bounds[batch_id], b.num + 1)
    BY ZenonT(30), <1>1, <1>4, <1>7, <2>1, BatchedNext
  <2>3. QED BY ZenonT(30), <1>2, <1>4, <2>2
<1>9. Counted(bodies, expected) /\ Counted(bodies, expected + 1)
  <2>1. Counted(bodies, b.num)
    BY ZenonT(30), <1>4 DEF FarmInv
  <2>2. Counted(bodies, b.num + 1)
    BY ZenonT(30), <1>1, <1>4, <2>1, CountedNext
  <2>3. QED BY ZenonT(30), <1>4, <2>1, <2>2
<1>10. PICK top \in Nat : top = expected + 1
  BY <1>1
<1>11. expected' \in From .. To /\ cursor' \in Nat \ {0} /\ renew' \in BOOLEAN
  <2>1. renew \in BOOLEAN /\ FALSE \in BOOLEAN
    BY <1>1 DEF TypeOK
  <2>2. renew' \in BOOLEAN
    BY ZenonT(30), <1>3, <2>1
  <2>3. cursor \in Nat \ {0} /\ expected \in From .. To
    BY ZenonT(30), <1>1 DEF TypeOK
  <2>4. expected' \in From .. To /\ cursor' \in Nat \ {0}
    <3>1. cursor + 1 \in Nat \ {0} /\ (expected # To => expected + 1 \in From .. To)
      BY <1>1, <2>3
    <3>2. QED BY ZenonT(30), <1>3, <2>3, <3>1
  <2>5. QED BY <2>2, <2>4
<1>12. pc' \in {"dispatch", "read"} /\ pc' \in Reads \cup Dispatches /\ pc' # "fill" /\ ~(pc' \in Dispatches /\ renew')
  BY <1>3 DEF Reads, Dispatches
<1>13. TypeOK'
  BY ZenonT(30), <1>1, <1>2, <1>8, <1>11, <1>12 DEF TypeOK
<1>14. AtBody' /\ Headers' /\ AllBusy(workers') /\ Reports(workers', queue')
  BY ZenonT(30), <1>1, <1>2, <1>12 DEF FarmInv, AtBody, Headers
<1>15. Counted(bodies', expected')
  BY ZenonT(30), <1>2, <1>3, <1>9
<1>16. Collecting /\ ret = "Succeded"
  <2>1. Collecting
    BY <1>2 DEF Collecting, Reads
  <2>2. QED BY <2>1 DEF FarmInv
<1>17. /\ Bounds(bounds, batch_id, expected') /\ bounds[batch_id] <= top
       /\ top \in From .. expected' + 1 /\ last \in From .. expected' + 1
       /\ pc' \in Reads => top = expected'
  <2>1. Bounds(bounds, batch_id, expected)
    BY <1>5 DEF Dealt
  <2>2. Bounds(bounds, batch_id, expected + 1)
    BY ZenonT(30), <1>1, <2>1, BoundsRise
  <2>3. Bounds(bounds, batch_id, expected')
    BY ZenonT(30), <1>3, <2>1, <2>2
  <2>4. bounds[batch_id] <= top
    BY <1>1, <1>6, <1>7, <1>10
  <2>5. top \in From .. expected' + 1 /\ last \in From .. expected' + 1
    BY <1>1, <1>3, <1>10
  <2>6. pc' \in Reads => top = expected'
    BY <1>3, <1>10 DEF Reads
  <2>7. QED BY <2>3, <2>4, <2>5, <2>6
<1>18. Dealt(bounds, top, last)'
  <2>1. Batched(bodies', batch', bounds[batch_id'], top)
    BY ZenonT(30), <1>2, <1>8, <1>10
  <2>2. /\ Carried(bodies', workers', bounds, batch_id') /\ Turns(queue', completed', batch_id')
        /\ Covers(bodies', collected', From, last)
    BY ZenonT(30), <1>2, <1>5 DEF Dealt
  <2>3. last = bounds[Pulled']
    BY ZenonT(30), <1>2, <1>5, <1>16 DEF Dealt, Pulled
  <2>4. QED BY ZenonT(30), <1>2, <1>12, <1>17, <2>1, <2>2, <2>3 DEF Dealt
<1>19. \E c \in [0 .. batch_id' -> From .. expected' + 1],
          n \in From .. expected' + 1, l \in From .. expected' + 1 : Dealt(c, n, l)'
  <2>1. bounds \in [0 .. batch_id' -> From .. expected' + 1]
    BY ZenonT(30), <1>2, <1>17 DEF Bounds
  <2>2. QED BY ZenonT(30), <1>17, <1>18, <2>1
<1>20. QED BY ZenonT(30), <1>2, <1>13, <1>14, <1>15, <1>16, <1>19 DEF FarmInv

-----------------------------------------------------------------------------
(***************************************************************************)
(* The theorems.                                                           *)
(***************************************************************************)

\* At the start there is one batch, which is empty.
LEMMA FarmInit ==
    ASSUME Init
    PROVE  FarmInv
<1>1. /\ TypeOK /\ IsTable(bodies)
  <2>1. From \in From .. To /\ <<>> \in Seq(Package) /\ <<>> \in Seq(RecoveryWorker)
        /\ <<>> \in Seq([worker: Nat, batch_id: Nat]) /\ <<>> \in Seq(Record) /\ From \in Nat
    BY FarmAssumption
  <2>2. "read" \in Reads \cup Dispatches \cup Ends_
    BY DEF Reads
  <2>3. TypeOK
    BY <2>1, <2>2 DEF Init, TypeOK
  <2>4. QED BY <2>3, TableIs
<1>2. AllBusy(workers) /\ Reports(workers, queue)
  BY DEF Init, AllBusy, Reports
<1>3. Counted(bodies, expected)
  <2>1. \A num \in From .. From : num = From
    BY FarmAssumption
  <2>2. Rank(bodies, From) + Skipped(bodies, From) = From - From
    BY <1>1, CountsFrom, FarmAssumption
  <2>3. expected = From
    BY DEF Init
  <2>4. QED BY ZenonT(30), <2>1, <2>2, <2>3 DEF Counted
<1>4. AtBody /\ (Collecting => ret = "Succeded")
  BY DEF Init, AtBody, Dispatches
<1>5. Headers
  BY FarmAssumption DEF Init, Headers, Keyed
<1>6. PICK bounds : bounds = [j \in 0 .. 0 |-> From]
  BY ZenonT(30)
<1>7. From \in From .. expected + 1 /\ From <= From /\ 0 \in 0 .. 0 /\ expected = From
  BY FarmAssumption DEF Init
<1>8. bounds \in [0 .. batch_id -> From .. expected + 1] /\ bounds[0] = From /\ batch_id = 0
  BY <1>6, <1>7 DEF Init
<1>9. Dealt(bounds, From, From)
  <2>1. Bounds(bounds, batch_id, expected) /\ bounds[batch_id] <= From
    BY <1>7, <1>8 DEF Bounds
  <2>2. Batched(bodies, batch, bounds[batch_id], From)
    BY ZenonT(30), <1>1, <1>8, BatchedNothing DEF Init
  <2>3. Carried(bodies, workers, bounds, batch_id)
    BY DEF Init, Carried
  <2>4. Turns(queue, completed, batch_id) /\ Pulled = 0
    <3>1. queue = <<>> /\ completed = 0 /\ batch_id = 0 /\ Len(queue) = 0
      BY DEF Init
    <3>2. \A n \in 1 .. 0 : FALSE
      OBVIOUS
    <3>3. 0 <= 0 /\ 0 - 0 = 0
      OBVIOUS
    <3>4. QED BY ZenonT(30), <3>1, <3>2, <3>3 DEF Turns, Pulled
  <2>5. Covers(bodies, collected, From, From)
    BY ZenonT(30), <1>1, CoversNothing DEF Init
  <2>6. QED BY ZenonT(30), <1>7, <1>8, <2>1, <2>2, <2>3, <2>4, <2>5 DEF Dealt
<1>10. QED BY ZenonT(30), <1>1, <1>2, <1>3, <1>4, <1>5, <1>7, <1>8, <1>9 DEF FarmInv

\* The blocks, wherever their packages and results are, stay in order: recover deals them into batches, the
\* workers report the batches in the order in which they were launched, and the results are collected in
\* that order.
THEOREM FarmInvariance == Spec => []FarmInv
<1>1. Init => FarmInv
  BY FarmInit
<1>2. FarmInv /\ [Next]_vars => FarmInv'
  <2>1. SUFFICES ASSUME FarmInv, [Next]_vars
                 PROVE  FarmInv'
    OBVIOUS
  <2>2. CASE Read
    <3>1. CASE FillBatch
      BY <2>1, <3>1, FillStep
    <3>2. CASE ReadEnds \/ SkipNonCanonical \/ BadBlockSequence \/ ReadCanonical \/ FillBatchFails
      BY ZenonT(30), <2>1, <3>2, ReadQuiet, QuietStep
    <3>3. QED BY ZenonT(30), <2>2, <3>1, <3>2 DEF Read
  <2>3. CASE Dispatch
    <3>1. CASE FindIdle
      BY <2>1, <3>1, DealStep
    <3>2. CASE \/ DispatchAborts \/ DispatchNothing \/ DispatchBatch \/ FindFinished
               \/ AddWorker \/ WorkerStarted \/ AddFirstWorkerFails \/ AddWorkerFails
      BY ZenonT(30), <2>1, <3>2, DispatchQuiet, QuietStep
    <3>3. QED BY ZenonT(30), <2>3, <3>1, <3>2 DEF Dispatch
  <2>4. CASE Bufferize
    <3>1. CASE BufferizeFails \/ DrainFails
      BY <2>1, <3>1, FailStep
    <3>2. ASSUME NEW from \in {"bufferize", "drain"}, BufferizeNothing(from)
          PROVE  FarmInv'
      BY ZenonT(30), <2>1, <3>2, IdleQuiet, QuietStep
    <3>3. ASSUME NEW from \in {"bufferize", "drain"}, BufferizeResults(from)
          PROVE  FarmInv'
      BY ZenonT(30), <2>1, <3>3, PullStep
    <3>4. QED BY ZenonT(30), <2>4, <3>1, <3>2, <3>3 DEF Bufferize
  <2>5. CASE Finish
    BY ZenonT(30), <2>1, <2>5, FinishQuiet, QuietStep
  <2>6. CASE Interrupt
    BY ZenonT(30), <2>1, <2>6, IdleQuiet, QuietStep
  <2>7. ASSUME NEW i \in DOMAIN workers, WorkerThread(i)
        PROVE  FarmInv'
    <3>1. CASE WorkerSignals(i)
      BY <2>1, <3>1, SignalStep
    <3>2. CASE \/ WorkerEnters(i) \/ WorkerForgetsKicks(i) \/ WorkerWakes(i)
               \/ WorkerRecovers(i) \/ WorkerReleasesBatch(i)
      BY ZenonT(30), <2>1, <3>2, ThreadQuiet, QuietStep
    <3>3. QED BY ZenonT(30), <2>7, <3>1, <3>2 DEF WorkerThread
  <2>8. CASE UNCHANGED vars
    <3>1. WorkersKept(workers, workers, queue)
      BY <2>1, SameWorkers DEF FarmInv, TypeOK
    <3>2. Quiet
      BY <2>1, <2>8, <3>1 DEF vars, main, reader, dispatcher, reports, results, Quiet, AtBlock, Collecting,
                              AtBody, Body_, FarmInv, TypeOK
    <3>3. QED BY <2>1, <3>2, QuietStep
  <2>9. QED BY ZenonT(30), <2>1, <2>2, <2>3, <2>4, <2>5, <2>6, <2>7, <2>8 DEF Next, MainThread
<1>3. QED BY <1>1, <1>2, PTL DEF Spec

\* What is collected at place n is the result of the wanted block that has n - 1 wanted ones before it.
LEMMA CollectedBlock ==
    ASSUME FarmInv, NEW n \in DOMAIN collected
    PROVE  \E b \in Wanted(bodies) : /\ From <= b.num /\ b.num <= expected /\ Rank(bodies, b.num) + 1 = n
                                     /\ collected[n].block = b.num /\ collected[n].count = Len(b.txns)
<1>1. IsTable(bodies) /\ collected \in Seq(Record) /\ expected \in Nat /\ From \in Nat
  BY TableIs, FarmAssumption DEF FarmInv, TypeOK
<1>2. PICK bounds \in [0 .. batch_id -> From .. expected + 1],
           next \in From .. expected + 1, last \in From .. expected + 1 : Dealt(bounds, next, last)
  BY ZenonT(30) DEF FarmInv
<1>3. Covers(bodies, collected, From, last)
  BY ZenonT(30), <1>2 DEF Dealt
<1>4. n \in 1 .. Len(collected)
  BY <1>1
<1>5. PICK b \in Wanted(bodies) :
        /\ From <= b.num /\ b.num < last /\ Rank(bodies, b.num) - Rank(bodies, From) + 1 = n
        /\ collected[n].block = b.num /\ collected[n].count = Len(b.txns)
  BY ZenonT(30), <1>3, <1>4 DEF Covers
<1>6. Rank(bodies, From) = 0 /\ Rank(bodies, b.num) \in Nat /\ b.num \in Nat
  BY <1>1, CountsFrom, CountsType, TableFacts DEF Wanted
<1>7. Rank(bodies, b.num) + 1 = n /\ b.num <= expected
  <2>1. b.num < last /\ Rank(bodies, b.num) - 0 + 1 = n
    BY ZenonT(30), <1>5, <1>6
  <2>2. QED BY <1>1, <1>6, <2>1
<1>8. QED BY ZenonT(30), <1>5, <1>7

\* The results are collected in the order of the blocks, each once and whole, for every table of bodies, every
\* number of workers and every order in which they finish (worker_completed_handler, bufferize_workers_results).
THEOREM ResultsAreInOrder == Spec => []CollectedInOrder
<1>1. FarmInv => CollectedInOrder
  <2>1. SUFFICES ASSUME FarmInv, NEW n \in DOMAIN collected
                 PROVE  \E b \in Wanted(bodies) :
                          /\ collected[n].block = b.num /\ collected[n].count = Len(b.txns)
                          /\ Cardinality({c \in Wanted(bodies) : c.num <= b.num}) = n
    BY DEF CollectedInOrder
  <2>2. IsTable(bodies)
    BY <2>1, TableIs DEF FarmInv
  <2>3. PICK b \in Wanted(bodies) : /\ From <= b.num /\ b.num <= expected /\ Rank(bodies, b.num) + 1 = n
                                    /\ collected[n].block = b.num /\ collected[n].count = Len(b.txns)
    BY ZenonT(30), <2>1, CollectedBlock
  <2>4. b \in Range(bodies) /\ b.canonical /\ b.txns # <<>> /\ b.num <= To
    BY DEF Wanted
  <2>5. Rank(bodies, b.num + 1) = Rank(bodies, b.num) + 1
    BY ZenonT(30), <2>2, <2>4, CountsNext
  <2>6. {c \in Wanted(bodies) : c.num <= b.num} = {c \in Wanted(bodies) : c.num < b.num + 1}
    <3>1. \A c \in Wanted(bodies) : c.num \in Nat
      BY <2>2, TableFacts DEF Wanted
    <3>2. \A c \in Wanted(bodies) : c.num <= b.num <=> c.num < b.num + 1
      BY <3>1
    <3>3. QED BY ZenonT(30), <3>2
  <2>7. QED BY ZenonT(30), <2>3, <2>5, <2>6 DEF Rank
<1>2. QED BY <1>1, FarmInvariance, PTL

\* A record is stored under the header as many blocks before its own as there are empty blocks before it,
\* whatever the tables, the workers and the batches (bufferize_workers_results, headers_it_2_).
THEOREM KeysSlipByEmptyBlocks == Spec => []KeysSlipOnlyByEmptyBlocks
<1>1. FarmInv => KeysSlipOnlyByEmptyBlocks
  <2> DEFINE E(num) == {b \in Range(bodies) : b.canonical /\ b.txns = <<>> /\ b.num < num}
  <2>1. SUFFICES ASSUME FarmInv, NEW n \in DOMAIN collected
                 PROVE  collected[n].hash = collected[n].block - Cardinality(E(collected[n].block))
    BY DEF KeysSlipOnlyByEmptyBlocks
  <2>2. IsTable(bodies) /\ From \in Nat /\ collected \in Seq(Record) /\ expected \in Nat
    BY <2>1, TableIs, FarmAssumption DEF FarmInv, TypeOK
  <2>3. PICK b \in Wanted(bodies) : /\ From <= b.num /\ b.num <= expected /\ Rank(bodies, b.num) + 1 = n
                                    /\ collected[n].block = b.num
    BY ZenonT(30), <2>1, CollectedBlock
  <2>4. b.num \in Nat /\ Rank(bodies, b.num) \in Nat /\ Skipped(bodies, b.num) \in Nat
    BY <2>2, TableFacts, CountsType DEF Wanted
  <2>5. E(b.num) = {c \in Empty(bodies) : c.num < b.num}
    BY ZenonT(30) DEF Empty
  <2>6. Cardinality(E(collected[n].block)) = Skipped(bodies, b.num)
    BY ZenonT(30), <2>3, <2>5 DEF Skipped
  <2>7. Rank(bodies, b.num) + Skipped(bodies, b.num) = b.num - From
    <3>1. b.num \in From .. expected
      BY <2>2, <2>3, <2>4
    <3>2. QED BY ZenonT(30), <2>1, <3>1 DEF FarmInv, Counted
  <2>8. collected[n].hash = From + n - 1
    <3>1. n \in 1 .. Len(collected)
      BY <2>2
    <3>2. QED BY ZenonT(30), <2>1, <3>1 DEF FarmInv, Headers, Keyed
  <2>9. From + n - 1 = b.num - Skipped(bodies, b.num)
    <3>1. Rank(bodies, b.num) + 1 = n
      BY <2>3
    <3>2. QED BY <2>2, <2>4, <2>7, <3>1
  <2>10. QED BY ZenonT(30), <2>3, <2>6, <2>8, <2>9
<1>2. QED BY <1>1, FarmInvariance, PTL

\* A worker that has reported keeps its results until they are pulled (worker_completed_handler, set_work).
THEOREM ReportedResultsStay == Spec => []ReportedResultsAreKept
<1>1. FarmInv => ReportedResultsAreKept
  <2>1. SUFFICES ASSUME FarmInv, NEW n \in DOMAIN queue
                 PROVE  LET w == workers[queue[n].worker]
                        IN /\ w.status \in {"ResultsReady", "Error", "Aborted"}
                           /\ w.batch_id = queue[n].batch_id
    BY DEF ReportedResultsAreKept
  <2>2. n \in 1 .. Len(queue)
    <3>1. queue \in Seq(Report)
      BY <2>1 DEF FarmInv, TypeOK, Report
    <3>2. QED BY <3>1
  <2>3. QED BY ZenonT(30), <2>1, <2>2 DEF FarmInv, Reports, Finished
<1>2. QED BY <1>1, FarmInvariance, PTL

=============================================================================
