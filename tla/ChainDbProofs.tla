--------------------------- MODULE ChainDbProofs ----------------------------
(***************************************************************************)
(* Proofs about the environments and transactions of ChainDb, for every    *)
(* finite set of threads, every set of flags and any number of operations. *)
(*                                                                         *)
(* None of the properties is inductive.  That a thread does not wait for   *)
(* itself rests on the counters it reads in open_transaction; that these   *)
(* are exact rests on the lock of LMDB and on the order in which the       *)
(* transactions of a thread end; that an older environment has no owners   *)
(* rests on the reference counts and on what get_env knows.  IInv is all   *)
(* of that.  Most actions leave what IInv speaks of alone (Quiet).         *)
(***************************************************************************)
EXTENDS ChainDb, FiniteSetTheorems, TLAPS

Fields == {"pc", "env", "txns", "wants", "maxtries", "ops", "table", "loaded", "collector", "collected"}
Shape(th) == DOMAIN th = Fields /\ th = [f \in DOMAIN th |-> th[f]]

Environments ==
    [refs : Int, opened : BOOLEAN, flags : Flags, resized : BOOLEAN,
     ro_txns : [Thread -> Int], rw_txns : [Thread -> Int]]

Owning == {"open", "beginning", "thrown"}
Owners(e) == {t \in Thread : thread[t].pc \in Owning /\ thread[t].env = e}

ThreadOK(th, envcount) ==
    /\ Shape(th)
    /\ th.pc \in Owning \cup {"idle", "closing"}
    /\ th.txns \in Seq({"ro", "rw"})
    /\ th.pc = "idle" => th.env = 0
    /\ th.pc # "idle" => th.env \in 1 .. envcount
    /\ th.pc \in {"idle", "closing"} => th.txns = <<>>
    /\ th.pc = "beginning" => th.wants \in {"ro", "rw"}

\* The write lock is held by a thread whose last transaction is the one for writing.
WriterOK(th, t) ==
    /\ \A i \in 1 .. Len(th.txns) : th.txns[i] = "rw" <=> writer = t /\ i = Len(th.txns)
    /\ writer = t => th.txns # <<>> /\ th.pc # "beginning"

Writing(t) == IF writer = t THEN 1 ELSE 0
CountersOK(env, e, t) ==
    /\ env.rw_txns[t] = IF thread[t].env = e THEN Writing(t) ELSE 0
    /\ env.ro_txns[t] = IF thread[t].env = e THEN Len(thread[t].txns) - Writing(t) ELSE 0

RegistryOK == IF s_envs = None THEN envs = <<>> ELSE s_envs.env = Len(envs) /\ envs # <<>>

OwnersOK(e) ==
    /\ envs[e].refs = Cardinality(Owners(e))
    /\ envs[e].refs > 0 => envs[e].opened /\ e = Len(envs)
    /\ \A t \in Thread : thread[t].pc = "closing" /\ thread[t].env = e => envs[e].refs = 0

IInv ==
    /\ envs \in Seq(Environments)
    /\ thread = [t \in Thread |-> thread[t]]
    /\ writer \in Thread \cup {None}
    /\ \A t \in Thread : ThreadOK(thread[t], Len(envs)) /\ WriterOK(thread[t], t)
    /\ \A e \in 1 .. Len(envs) : \A t \in Thread : CountersOK(envs[e], e, t)
    /\ RegistryOK
    /\ \A e \in 1 .. Len(envs) : OwnersOK(e)

\* What the steps have in common that open or end neither an environment nor a transaction.
Quiet ==
    /\ s_envs' = s_envs /\ writer' = writer
    /\ envs' \in Seq(Environments) /\ Len(envs') = Len(envs)
    /\ \A e \in 1 .. Len(envs) :
          /\ envs'[e].refs = envs[e].refs /\ envs'[e].opened = envs[e].opened
          /\ envs'[e].ro_txns = envs[e].ro_txns /\ envs'[e].rw_txns = envs[e].rw_txns
    /\ thread' = [t \in Thread |-> thread'[t]]
    /\ \A t \in Thread :
          /\ Shape(thread'[t])
          /\ thread'[t].env = thread[t].env /\ thread'[t].txns = thread[t].txns
          /\ \/ thread'[t].pc = thread[t].pc
             \/ thread[t].pc \in Owning /\ thread'[t].pc \in Owning
          /\ thread'[t].pc = "beginning" => writer # t /\ thread'[t].wants \in {"ro", "rw"}

Moves(t) ==
    /\ thread' = [u \in Thread |-> thread'[u]]
    /\ \A u \in Thread : u # t => thread'[u] = thread[u]
    /\ Shape(thread'[t])
    /\ thread'[t].env = thread[t].env /\ thread'[t].txns = thread[t].txns
    /\ \/ thread'[t].pc = thread[t].pc /\ thread[t].pc # "beginning"
       \/ thread[t].pc \in Owning /\ thread'[t].pc \in Owning
    /\ thread'[t].pc = "beginning" => writer # t /\ thread'[t].wants \in {"ro", "rw"}

\* The environment before and after a transaction of one kind was counted.
Touched(after, env, t, kind, count) ==
    /\ after \in Environments
    /\ after.refs = env.refs /\ after.opened = env.opened
    /\ \A u \in Thread :
          /\ after.rw_txns[u] = env.rw_txns[u] + (IF u = t /\ kind = "rw" THEN count ELSE 0)
          /\ after.ro_txns[u] = env.ro_txns[u] + (IF u = t /\ kind = "ro" THEN count ELSE 0)

-----------------------------------------------------------------------------
(* ------------------------------- Lemmas ------------------------------- *)

\* Owners are finitely many.
LEMMA OwnersFinite ==
    ASSUME NEW e
    PROVE  IsFiniteSet(Owners(e)) /\ Cardinality(Owners(e)) \in Nat
<1>1. IsFiniteSet(Owners(e))
  BY ThreadAssumption, FS_Subset, Owners(e) \subseteq Thread DEF Owners
<1> QED
  BY <1>1, FS_CardinalityType

\* Steps that only move a thread on, or that change what no counter depends on, preserve IInv.
LEMMA QuietSteps == IInv /\ Quiet => IInv'
<1> SUFFICES ASSUME IInv, Quiet PROVE IInv'
  OBVIOUS
<1>1. \A t \in Thread : ThreadOK(thread[t], Len(envs))' /\ WriterOK(thread[t], t)'
  <2> TAKE t \in Thread
  <2>1. ThreadOK(thread[t], Len(envs)) /\ WriterOK(thread[t], t)
    BY DEF IInv
  <2>2. ThreadOK(thread[t], Len(envs))'
    BY <2>1 DEF Quiet, ThreadOK, Owning
  <2>3. WriterOK(thread[t], t)'
    BY <2>1 DEF Quiet, WriterOK
  <2> QED
    BY <2>2, <2>3
<1>2. \A e \in 1 .. Len(envs) : \A t \in Thread : CountersOK(envs[e], e, t)'
  <2> TAKE e \in 1 .. Len(envs)
  <2> TAKE t \in Thread
  <2>1. CountersOK(envs[e], e, t)
    BY DEF IInv
  <2>2. /\ envs'[e].ro_txns = envs[e].ro_txns /\ envs'[e].rw_txns = envs[e].rw_txns
        /\ thread'[t].env = thread[t].env /\ thread'[t].txns = thread[t].txns
        /\ writer' = writer
    BY DEF Quiet
  <2> QED
    BY <2>1, <2>2, Zenon DEF CountersOK, Writing
<1>3. \A e : Owners(e)' = Owners(e)
  BY DEF Quiet, Owners, Owning
<1>4. \A e \in 1 .. Len(envs) : OwnersOK(e)'
  <2> TAKE e \in 1 .. Len(envs)
  <2>1. OwnersOK(e)
    BY DEF IInv
  <2>2. \A t \in Thread : thread'[t].pc = "closing" => thread[t].pc = "closing"
    BY DEF Quiet, Owning
  <2> QED
    BY <1>3, <2>1, <2>2 DEF Quiet, OwnersOK
<1>5. RegistryOK'
  BY DEF IInv, Quiet, RegistryOK
<1> QED
  BY <1>1, <1>2, <1>4, <1>5 DEF IInv, Quiet

\* Mostly bookkeeping of a thread: a failed get_env, the begin of a transaction until LMDB answers,
\* the collectors, and the map that grows.
LEMMA QuietActions ==
    ASSUME IInv,
           \/ \E t \in Thread :
                 \/ \E flags \in Flags : GetEnvRefused(t, flags)
                 \/ \E ro \in BOOLEAN : BeginTransaction(t, ro)
                 \/ TxnNotBegun(t)
                 \/ CreateCollector(t)
                 \/ \E disk_full \in BOOLEAN : CollectEntry(t, disk_full)
                 \/ \E disk_full \in BOOLEAN, n \in 0 .. Len(extract[t]) : LoadTable(t, disk_full, n)
                 \/ DestroyCollector(t)
           \/ \E e \in DOMAIN envs : Resize(e)
           \/ UNCHANGED vars
    PROVE  IInv'
<1> SUFFICES Quiet
  BY QuietSteps
<1>0. \A t \in Thread : Shape(thread[t]) /\ ThreadOK(thread[t], Len(envs)) /\ WriterOK(thread[t], t)
  BY DEF IInv, ThreadOK
<1>a. thread = [t \in Thread |-> thread[t]] /\ envs \in Seq(Environments)
  BY DEF IInv
<1>b. \A t \in Thread : thread[t].pc = "beginning" => writer # t /\ thread[t].wants \in {"ro", "rw"}
  BY <1>0 DEF ThreadOK, WriterOK
<1>c. ASSUME NEW t \in Thread, Moves(t), UNCHANGED <<envs, s_envs, writer>>
      PROVE  Quiet
  BY <1>0, <1>a, <1>b, <1>c DEF Quiet, Moves
<1>1. CASE \E t \in Thread : \E flags \in Flags : GetEnvRefused(t, flags)
  <2> PICK t \in Thread, flags \in Flags : GetEnvRefused(t, flags)
    BY <1>1
  <2>1. Moves(t)
    BY <1>0, <1>a DEF GetEnvRefused, Moves, Shape, Fields, Owning
  <2> QED
    BY <1>c, <2>1 DEF GetEnvRefused
<1>2. CASE \E t \in Thread : \E ro \in BOOLEAN : BeginTransaction(t, ro)
  <2> PICK t \in Thread, ro \in BOOLEAN : BeginTransaction(t, ro)
    BY <1>2
  <2>1. thread[t].env \in 1 .. Len(envs) /\ thread[t].pc = "open"
    BY <1>0, Zenon DEF BeginTransaction, ThreadOK
  <2>2. MayOpen(envs[thread[t].env], t, ro) => writer # t
    <3>1. CountersOK(envs[thread[t].env], thread[t].env, t)
      BY <2>1 DEF IInv
    <3> QED
      BY <3>1 DEF CountersOK, MayOpen, Writing
  <2>3. CASE MayOpen(envs[thread[t].env], t, ro)
    <3>1. Moves(t)
      BY <1>0, <1>a, <2>2, <2>3, Zenon DEF BeginTransaction, Moves, Shape, Fields, Owning
    <3> QED
      BY <1>c, <3>1, Zenon DEF BeginTransaction
  <2>4. CASE ~MayOpen(envs[thread[t].env], t, ro)
    <3>1. Moves(t)
      BY <1>0, <1>a, <2>4, Zenon DEF BeginTransaction, Moves, Shape, Fields, Owning
    <3> QED
      BY <1>c, <3>1, Zenon DEF BeginTransaction
  <2> QED
    BY <2>3, <2>4
<1>3. CASE \E t \in Thread : TxnNotBegun(t)
  <2> PICK t \in Thread : TxnNotBegun(t)
    BY <1>3
  <2> DEFINE e == thread[t].env
  <2>0. thread[t].pc = "beginning"
    BY Zenon DEF TxnNotBegun
  <2>1. e \in 1 .. Len(envs) /\ envs[e] \in Environments
    <3>1. e \in 1 .. Len(envs)
      BY <1>0, <2>0 DEF ThreadOK
    <3> QED
      BY <1>a, <3>1
  <2>2. PICK refused \in BOOLEAN : envs' = [envs EXCEPT ![e] = [@ EXCEPT !.resized = refused]]
    BY Zenon DEF TxnNotBegun
  <2>3. [envs[e] EXCEPT !.resized = refused] \in Environments
    BY <2>1, Zenon DEF Environments
  <2>4. /\ envs' \in Seq(Environments) /\ Len(envs') = Len(envs)
        /\ \A f \in 1 .. Len(envs) : f # e => envs'[f] = envs[f]
        /\ envs'[e] = [envs[e] EXCEPT !.resized = refused]
    BY <1>a, <2>1, <2>2, <2>3
  <2>5. /\ envs'[e].refs = envs[e].refs /\ envs'[e].opened = envs[e].opened
        /\ envs'[e].ro_txns = envs[e].ro_txns /\ envs'[e].rw_txns = envs[e].rw_txns
    BY <2>1, <2>4 DEF Environments
  <2>6. Moves(t)
    BY <1>0, <1>a, <1>b, Zenon DEF TxnNotBegun, Moves, Shape, Fields, Owning
  <2>7. s_envs' = s_envs /\ writer' = writer
    BY Zenon DEF TxnNotBegun
  <2> QED
    BY <1>0, <1>a, <1>b, <2>4, <2>5, <2>6, <2>7, Zenon DEF Quiet, Moves
<1>4. CASE \E t \in Thread : CreateCollector(t)
  <2> PICK t \in Thread : CreateCollector(t)
    BY <1>4
  <2>1. Moves(t)
    BY <1>0, <1>a, Zenon DEF CreateCollector, Moves, Shape, Fields, Owning
  <2> QED
    BY <1>c, <2>1 DEF CreateCollector
<1>5. CASE \E t \in Thread : \E disk_full \in BOOLEAN : CollectEntry(t, disk_full)
  <2> PICK t \in Thread, disk_full \in BOOLEAN : CollectEntry(t, disk_full)
    BY <1>5
  <2>1. Moves(t)
    BY <1>0, <1>a, Zenon DEF CollectEntry, Moves, Shape, Fields, Owning
  <2> QED
    BY <1>c, <2>1, Zenon DEF CollectEntry
<1>6. CASE \E t \in Thread : \E disk_full \in BOOLEAN, n \in 0 .. Len(extract[t]) : LoadTable(t, disk_full, n)
  <2> PICK t \in Thread : \E disk_full \in BOOLEAN, n \in 0 .. Len(extract[t]) : LoadTable(t, disk_full, n)
    BY <1>6
  <2> PICK disk_full \in BOOLEAN, n \in 0 .. Len(extract[t]) : LoadTable(t, disk_full, n)
    OBVIOUS
  <2> DEFINE c == PrepareLoad(thread[t].collector, workdir /\ ~disk_full)
             loading == [thread[t] EXCEPT !.table = PutAll(@, SubSeq(Loaded(c), 1, n)), !.collector = NewCollector]
             th == IF c.err THEN [thread[t] EXCEPT !.collector = c, !.pc = "thrown"]
                   ELSE IF n < thread[t].collected THEN [loading EXCEPT !.pc = "thrown"]
                   ELSE [loading EXCEPT !.loaded = n]
  <2>0. thread' = [thread EXCEPT ![t] = th] /\ thread[t].pc = "open"
    BY Zenon DEF LoadTable
  <2>2. Shape(th) /\ th.env = thread[t].env /\ th.txns = thread[t].txns /\ th.pc \in {"open", "thrown"}
    <3>1. Shape(thread[t])
      BY <1>0
    <3>2. CASE c.err
      BY <2>0, <3>1, <3>2, Zenon DEF Shape, Fields
    <3>3. CASE ~c.err /\ n < thread[t].collected
      BY <2>0, <3>1, <3>3, Zenon DEF Shape, Fields
    <3>4. CASE ~c.err /\ ~(n < thread[t].collected)
      BY <2>0, <3>1, <3>4, Zenon DEF Shape, Fields
    <3> QED
      BY <3>2, <3>3, <3>4
  <2> HIDE DEF th
  <2>1. Moves(t)
    BY <1>0, <1>a, <2>0, <2>2 DEF Moves, Owning
  <2> QED
    BY <1>c, <2>1, Zenon DEF LoadTable
<1>7. CASE \E t \in Thread : DestroyCollector(t)
  <2> PICK t \in Thread : DestroyCollector(t)
    BY <1>7
  <2>1. Moves(t)
    BY <1>0, <1>a, Zenon DEF DestroyCollector, Moves, Shape, Fields, Owning
  <2> QED
    BY <1>c, <2>1 DEF DestroyCollector
<1>8. CASE \E e \in DOMAIN envs : Resize(e)
  <2> PICK e \in DOMAIN envs : Resize(e)
    BY <1>8
  <2>1. e \in 1 .. Len(envs) /\ envs[e] \in Environments
    BY <1>a
  <2>2. [envs[e] EXCEPT !.resized = TRUE] \in Environments
    BY <2>1, Zenon DEF Environments
  <2>3. envs' = [envs EXCEPT ![e] = [@ EXCEPT !.resized = TRUE]]
    BY DEF Resize
  <2>4. /\ envs' \in Seq(Environments) /\ Len(envs') = Len(envs)
        /\ \A f \in 1 .. Len(envs) : f # e => envs'[f] = envs[f]
        /\ envs'[e] = [envs[e] EXCEPT !.resized = TRUE]
    BY <1>a, <2>1, <2>2, <2>3
  <2>5. /\ envs'[e].refs = envs[e].refs /\ envs'[e].opened = envs[e].opened
        /\ envs'[e].ro_txns = envs[e].ro_txns /\ envs'[e].rw_txns = envs[e].rw_txns
    BY <2>1, <2>4 DEF Environments
  <2>6. UNCHANGED <<thread, s_envs, writer>>
    BY DEF Resize
  <2> QED
    BY <1>0, <1>a, <1>b, <2>4, <2>5, <2>6, Zenon DEF Quiet
<1>9. CASE UNCHANGED vars
  <2>1. UNCHANGED <<envs, s_envs, thread, writer>>
    BY <1>9 DEF vars
  <2> QED
    BY <1>0, <1>a, <1>b, <2>1 DEF Quiet
<1> QED
  BY <1>1, <1>2, <1>3, <1>4, <1>5, <1>6, <1>7, <1>8, <1>9

\* What touch_ro_txns and touch_rw_txns change.
LEMMA TouchEffect ==
    ASSUME NEW env \in Environments, NEW t \in Thread, NEW kind \in {"ro", "rw"}, NEW count \in Int
    PROVE  Touched(Touch(env, t, kind, count), env, t, kind, count)
<1> USE DEF Touched
<1>1. CASE kind = "ro"
  <2> DEFINE counts == [env.ro_txns EXCEPT ![t] = env.ro_txns[t] + count]
  <2>1. Touch(env, t, kind, count) = [env EXCEPT !.ro_txns = counts]
    BY <1>1 DEF Touch
  <2>2. counts \in [Thread -> Int] /\ \A u \in Thread : counts[u] = env.ro_txns[u] + (IF u = t THEN count ELSE 0)
    BY DEF Environments
  <2> HIDE DEF counts
  <2> QED
    BY <1>1, <2>1, <2>2 DEF Environments
<1>2. CASE kind = "rw"
  <2> DEFINE counts == [env.rw_txns EXCEPT ![t] = env.rw_txns[t] + count]
  <2>1. Touch(env, t, kind, count) = [env EXCEPT !.rw_txns = counts]
    BY <1>2 DEF Touch
  <2>2. counts \in [Thread -> Int] /\ \A u \in Thread : counts[u] = env.rw_txns[u] + (IF u = t THEN count ELSE 0)
    BY DEF Environments
  <2> HIDE DEF counts
  <2> QED
    BY <1>2, <2>1, <2>2 DEF Environments
<1> QED
  BY <1>1, <1>2

\* Initially no environment is known and no thread has one.
LEMMA Initially == Init => IInv
<1> SUFFICES ASSUME Init PROVE IInv
  OBVIOUS
<1>1. envs = <<>> /\ s_envs = None /\ writer = None /\ thread = [t \in Thread |-> Idle]
  BY DEF Init
<1>2. Shape(Idle) /\ Idle.pc = "idle" /\ Idle.env = 0 /\ Idle.txns = <<>>
  BY DEF Idle, Shape, Fields
<1>3. ASSUME NEW t \in Thread PROVE ThreadOK(thread[t], Len(envs)) /\ WriterOK(thread[t], t)
  <2>1. thread[t] = Idle /\ writer # t
    BY <1>1, ThreadAssumption
  <2>2. <<>> \in Seq({"ro", "rw"}) /\ Len(<<>>) = 0
    OBVIOUS
  <2>3. ThreadOK(Idle, Len(envs))
    BY <1>2, <2>2 DEF ThreadOK
  <2>4. WriterOK(Idle, t)
    BY <1>2, <2>1, <2>2 DEF WriterOK
  <2> QED
    BY <2>1, <2>3, <2>4
<1> QED
  BY <1>1, <1>3 DEF IInv, RegistryOK

\* A transaction of thread t begins or ends: its count and the list of the thread change together.
LEMMA TransactionSteps ==
    ASSUME IInv, NEW t \in Thread, NEW kind \in {"ro", "rw"}, NEW count \in Int,
           thread[t].pc \in Owning,
           thread' = [u \in Thread |-> thread'[u]], \A u \in Thread : u # t => thread'[u] = thread[u],
           Shape(thread'[t]), thread'[t].pc \in {"open", "thrown"}, thread'[t].env = thread[t].env,
           thread'[t].txns \in Seq({"ro", "rw"}), Len(thread'[t].txns) = Len(thread[t].txns) + count,
           envs' = [envs EXCEPT ![thread[t].env] = Touch(envs[thread[t].env], t, kind, count)],
           s_envs' = s_envs,
           writer' \in Thread \cup {None}, \A u \in Thread : u # t => (writer' = u <=> writer = u),
           Writing(t)' = Writing(t) + (IF kind = "rw" THEN count ELSE 0),
           WriterOK(thread[t], t)'
    PROVE  IInv'
<1> DEFINE e == thread[t].env
           env == Touch(envs[e], t, kind, count)
<1>1. e \in 1 .. Len(envs) /\ thread[t].txns \in Seq({"ro", "rw"})
  BY DEF IInv, ThreadOK, Owning
<1>2. envs \in Seq(Environments) /\ envs[e] \in Environments
  BY <1>1 DEF IInv
<1>3. Touched(env, envs[e], t, kind, count)
  BY <1>2, TouchEffect
<1> HIDE DEF env
<1>4. envs' = [envs EXCEPT ![e] = env]
  BY DEF env
<1>5. /\ envs' \in Seq(Environments) /\ Len(envs') = Len(envs) /\ envs'[e] = env
      /\ \A f \in 1 .. Len(envs) : f # e => envs'[f] = envs[f]
  BY <1>1, <1>2, <1>3, <1>4 DEF Touched
<1>6. ASSUME NEW u \in Thread PROVE ThreadOK(thread[u], Len(envs))' /\ WriterOK(thread[u], u)'
  <2>1. ThreadOK(thread[u], Len(envs)) /\ WriterOK(thread[u], u)
    BY DEF IInv
  <2>2. CASE u # t
    BY <1>5, <2>1, <2>2 DEF ThreadOK, WriterOK
  <2>3. CASE u = t
    BY <1>1, <1>5, <2>3 DEF ThreadOK, Owning
  <2> QED
    BY <2>2, <2>3
<1>7. ASSUME NEW f \in 1 .. Len(envs), NEW u \in Thread PROVE CountersOK(envs[f], f, u)'
  <2>1. CountersOK(envs[f], f, u)
    BY DEF IInv
  <2>2. /\ envs[f].rw_txns[u] \in Int /\ envs[f].ro_txns[u] \in Int
        /\ Len(thread[u].txns) \in Nat /\ Writing(u) \in {0, 1}
    <3>1. envs[f] \in Environments /\ thread[u].txns \in Seq({"ro", "rw"})
      BY <1>2 DEF IInv, ThreadOK
    <3> QED
      BY <3>1 DEF Environments, Writing
  <2>3. CASE u # t
    <3>1. Writing(u)' = Writing(u) /\ thread'[u] = thread[u]
      BY <2>3 DEF Writing
    <3>2. envs'[f].rw_txns[u] = envs[f].rw_txns[u] /\ envs'[f].ro_txns[u] = envs[f].ro_txns[u]
      <4>1. CASE f = e
        BY <1>3, <1>5, <2>2, <2>3, <4>1 DEF Touched
      <4>2. CASE f # e
        BY <1>5, <4>2
      <4> QED
        BY <4>1, <4>2
    <3> QED
      BY <2>1, <3>1, <3>2 DEF CountersOK
  <2>4. CASE u = t /\ f # e
    BY <1>5, <2>1, <2>4 DEF CountersOK
  <2>5. CASE u = t /\ f = e
    <3>1. /\ envs'[e].rw_txns[t] = envs[e].rw_txns[t] + (IF kind = "rw" THEN count ELSE 0)
          /\ envs'[e].ro_txns[t] = envs[e].ro_txns[t] + (IF kind = "ro" THEN count ELSE 0)
      BY <1>3, <1>5 DEF Touched
    <3>2. envs[e].rw_txns[t] = Writing(t) /\ envs[e].ro_txns[t] = Len(thread[t].txns) - Writing(t)
      BY <2>1, <2>5 DEF CountersOK
    <3>3. envs'[e].rw_txns[t] = Writing(t)' /\ envs'[e].ro_txns[t] = Len(thread'[t].txns) - Writing(t)'
      BY <2>2, <2>5, <3>1, <3>2
    <3> QED
      BY <2>5, <3>3 DEF CountersOK
  <2> QED
    BY <2>3, <2>4, <2>5
<1>8. RegistryOK'
  BY <1>1, <1>5 DEF IInv, RegistryOK
<1>9. ASSUME NEW f \in 1 .. Len(envs) PROVE OwnersOK(f)'
  <2>1. Owners(f)' = Owners(f)
    BY DEF Owners, Owning
  <2>2. \A u \in Thread : thread'[u].pc = "closing" => thread'[u] = thread[u]
    OBVIOUS
  <2>3. OwnersOK(f) /\ envs'[f].refs = envs[f].refs /\ envs'[f].opened = envs[f].opened
    BY <1>3, <1>5 DEF IInv, Touched
  <2> QED
    BY <1>5, <2>1, <2>2, <2>3 DEF OwnersOK
<1> QED
  BY <1>5, <1>6, <1>7, <1>8, <1>9 DEF IInv

\* mdb_txn_begin succeeds: one more transaction, and the lock with it if it is for writing.
LEMMA TxnBegunStep ==
    ASSUME IInv, NEW t \in Thread, TxnBegun(t)
    PROVE  IInv'
<1> DEFINE kind == thread[t].wants
           txns == thread[t].txns
           after == [thread[t] EXCEPT !.pc = "open", !.txns = Append(@, kind), !.wants = None, !.maxtries = 0,
                                      !.table = IF kind = "rw" THEN table ELSE @]
<1>1. thread[t].pc = "beginning" /\ ThreadOK(thread[t], Len(envs)) /\ WriterOK(thread[t], t)
  BY DEF TxnBegun, IInv
<1>2. kind \in {"ro", "rw"} /\ txns \in Seq({"ro", "rw"}) /\ Shape(thread[t])
  BY <1>1 DEF ThreadOK
<1>3. thread' = [thread EXCEPT ![t] = after] /\ thread = [u \in Thread |-> thread[u]]
  BY DEF TxnBegun, IInv
<1>4. Shape(after) /\ after.pc = "open" /\ after.env = thread[t].env /\ after.txns = Append(txns, kind)
  BY <1>2, Zenon DEF Shape, Fields
<1> HIDE DEF after
<1>5. /\ thread' = [u \in Thread |-> thread'[u]] /\ thread'[t] = after
      /\ \A u \in Thread : u # t => thread'[u] = thread[u]
  BY <1>3
<1>6. /\ Append(txns, kind) \in Seq({"ro", "rw"})
      /\ Len(Append(txns, kind)) = Len(txns) + 1 /\ Len(txns) \in Nat
      /\ \A i \in 1 .. Len(txns) : Append(txns, kind)[i] = txns[i]
      /\ Append(txns, kind)[Len(txns) + 1] = kind
  BY <1>2
<1>7. /\ s_envs' = s_envs
      /\ envs' = [envs EXCEPT ![thread[t].env] = Touch(envs[thread[t].env], t, kind, 1)]
      /\ kind = "rw" => writer = None /\ writer' = t
      /\ kind = "ro" => writer' = writer
      /\ writer # t
  BY <1>1 DEF TxnBegun, WriterOK
<1>8. writer' \in Thread \cup {None} /\ \A u \in Thread : u # t => (writer' = u <=> writer = u)
  BY <1>2, <1>7, ThreadAssumption DEF IInv
<1>9. Writing(t)' = Writing(t) + (IF kind = "rw" THEN 1 ELSE 0)
  BY <1>2, <1>7 DEF Writing
<1>10. WriterOK(thread[t], t)'
  <2>1. \A i \in 1 .. Len(txns) : txns[i] # "rw"
    BY <1>1, <1>7 DEF WriterOK
  <2>2. writer' = t <=> kind = "rw"
    BY <1>2, <1>7
  <2>3. \A i \in 1 .. Len(txns) + 1 : Append(txns, kind)[i] = "rw" <=> kind = "rw" /\ i = Len(txns) + 1
    BY <1>6, <2>1
  <2>4. Append(txns, kind) # <<>>
    BY <1>6
  <2> QED
    BY <1>4, <1>5, <1>6, <2>2, <2>3, <2>4 DEF WriterOK
<1>11. thread[t].pc \in Owning /\ 1 \in Int
  BY <1>1 DEF Owning
<1> QED
  BY <1>2, <1>4, <1>5, <1>6, <1>7, <1>8, <1>9, <1>10, <1>11, TransactionSteps, Zenon

\* A transaction is committed or aborted: it is the last one of its thread, and the lock goes with it.
LEMMA EndedStep ==
    ASSUME IInv, NEW t \in Thread, NEW publish \in BOOLEAN, thread[t].pc \in {"open", "thrown"}, Ended(t, publish)
    PROVE  IInv'
<1> DEFINE txns == thread[t].txns
           kind == Last(txns)
           after == IF kind = "rw" THEN [thread[t] EXCEPT !.txns = Front(@), !.table = None, !.loaded = 0]
                    ELSE [thread[t] EXCEPT !.txns = Front(@)]
<1>1. ThreadOK(thread[t], Len(envs)) /\ WriterOK(thread[t], t) /\ txns # <<>>
  BY DEF Ended, IInv
<1>2. txns \in Seq({"ro", "rw"}) /\ Shape(thread[t])
  BY <1>1 DEF ThreadOK
<1>3. /\ Len(txns) \in Nat \ {0} /\ kind = txns[Len(txns)] /\ kind \in {"ro", "rw"}
      /\ Front(txns) \in Seq({"ro", "rw"}) /\ Len(Front(txns)) = Len(txns) - 1
      /\ \A i \in 1 .. Len(txns) - 1 : Front(txns)[i] = txns[i]
  BY <1>1, <1>2 DEF Last, Front
<1>4. thread' = [thread EXCEPT ![t] = after] /\ thread = [u \in Thread |-> thread[u]]
  BY DEF Ended, IInv
<1>5. Shape(after) /\ after.pc = thread[t].pc /\ after.env = thread[t].env /\ after.txns = Front(txns)
  <2>1. CASE kind = "rw"
    BY <1>2, <2>1, Zenon DEF Shape, Fields
  <2>2. CASE kind # "rw"
    BY <1>2, <2>2 DEF Shape, Fields
  <2> QED
    BY <2>1, <2>2
<1> HIDE DEF after
<1>6. /\ thread' = [u \in Thread |-> thread'[u]] /\ thread'[t] = after
      /\ \A u \in Thread : u # t => thread'[u] = thread[u]
  BY <1>4
<1>7. /\ s_envs' = s_envs
      /\ envs' = [envs EXCEPT ![thread[t].env] = Touch(envs[thread[t].env], t, kind, -1)]
      /\ writer' = IF kind = "rw" THEN None ELSE writer
  BY DEF Ended
<1>8. kind = "rw" <=> writer = t
  BY <1>1, <1>3 DEF WriterOK
<1>9. writer' # t /\ writer' \in Thread \cup {None} /\ \A u \in Thread : u # t => (writer' = u <=> writer = u)
  BY <1>7, <1>8, ThreadAssumption DEF IInv
<1>10. Writing(t)' = Writing(t) + (IF kind = "rw" THEN -1 ELSE 0)
  BY <1>8, <1>9 DEF Writing
<1>11. WriterOK(thread[t], t)'
  <2>1. \A i \in 1 .. Len(txns) - 1 : Front(txns)[i] # "rw"
    BY <1>1, <1>3 DEF WriterOK
  <2> QED
    BY <1>3, <1>5, <1>6, <1>9, <2>1 DEF WriterOK
<1>12. thread[t].pc \in Owning /\ -1 \in Int /\ Len(Front(txns)) = Len(txns) + (-1)
  BY <1>3 DEF Owning
<1> HIDE DEF kind, txns
<1> QED
  BY <1>3, <1>5, <1>6, <1>7, <1>9, <1>10, <1>11, <1>12, TransactionSteps, Zenon DEF txns

\* The steps on environments change an owner, which a count of references follows.
LEMMA CloseEnvStep ==
    ASSUME IInv, NEW t \in Thread, CloseEnv(t)
    PROVE  IInv'
<1> DEFINE e == thread[t].env
           after == [thread[t] EXCEPT !.pc = "idle", !.env = 0]
<1>1. thread[t].pc = "closing" /\ ThreadOK(thread[t], Len(envs)) /\ WriterOK(thread[t], t)
  BY DEF CloseEnv, IInv
<1>2. e \in 1 .. Len(envs) /\ thread[t].txns = <<>> /\ Shape(thread[t])
  BY <1>1 DEF ThreadOK
<1>3. envs \in Seq(Environments) /\ envs[e] \in Environments /\ OwnersOK(e)
  BY <1>2 DEF IInv
<1>4. thread' = [thread EXCEPT ![t] = after] /\ thread = [u \in Thread |-> thread[u]]
  BY Zenon DEF CloseEnv, IInv
<1>5. Shape(after) /\ after.pc = "idle" /\ after.env = 0 /\ after.txns = <<>>
  BY <1>2, Zenon DEF Shape, Fields
<1> HIDE DEF after
<1>6. /\ thread' = [u \in Thread |-> thread'[u]] /\ thread'[t] = after
      /\ \A u \in Thread : u # t => thread'[u] = thread[u]
  BY <1>4
<1> DEFINE env == [envs[e] EXCEPT !.opened = FALSE]
<1>7. env \in Environments /\ env.refs = envs[e].refs /\ env.rw_txns = envs[e].rw_txns /\ env.ro_txns = envs[e].ro_txns
  BY <1>3, Zenon DEF Environments
<1>8. envs' = [envs EXCEPT ![e] = env] /\ s_envs' = s_envs /\ writer' = writer
  BY DEF CloseEnv
<1> HIDE DEF env
<1>9. /\ envs' \in Seq(Environments) /\ Len(envs') = Len(envs) /\ envs'[e] = env
      /\ \A f \in 1 .. Len(envs) : f # e => envs'[f] = envs[f]
  BY <1>2, <1>3, <1>7, <1>8
<1>10. writer # t /\ Writing(t) = 0 /\ \A u \in Thread : Writing(u)' = Writing(u)
  BY <1>1, <1>2, <1>8 DEF WriterOK, Writing
<1>11. ASSUME NEW u \in Thread PROVE ThreadOK(thread[u], Len(envs))' /\ WriterOK(thread[u], u)'
  <2>1. ThreadOK(thread[u], Len(envs)) /\ WriterOK(thread[u], u)
    BY DEF IInv
  <2>2. CASE u # t
    BY <1>6, <1>8, <1>9, <2>1, <2>2 DEF ThreadOK, WriterOK
  <2>3. CASE u = t
    BY <1>2, <1>5, <1>6, <1>8, <1>10, <2>1, <2>3 DEF ThreadOK, WriterOK
  <2> QED
    BY <2>2, <2>3
<1>12. ASSUME NEW f \in 1 .. Len(envs), NEW u \in Thread PROVE CountersOK(envs[f], f, u)'
  <2>1. CountersOK(envs[f], f, u) /\ envs'[f].rw_txns = envs[f].rw_txns /\ envs'[f].ro_txns = envs[f].ro_txns
    BY <1>7, <1>9 DEF IInv
  <2>2. CASE u # t
    BY <1>6, <1>10, <2>1, <2>2 DEF CountersOK
  <2>3. CASE u = t
    <3>1. Len(thread[t].txns) - Writing(t) = 0
      BY <1>2, <1>10
    <3> QED
      BY <1>5, <1>6, <1>10, <2>1, <2>3, <3>1 DEF CountersOK
  <2> QED
    BY <2>2, <2>3
<1>13. RegistryOK'
  BY <1>2, <1>8, <1>9 DEF IInv, RegistryOK
<1>14. ASSUME NEW f \in 1 .. Len(envs) PROVE OwnersOK(f)'
  <2>1. Owners(f)' = Owners(f)
    BY <1>1, <1>5, <1>6 DEF Owners, Owning
  <2>2. \A u \in Thread : thread'[u].pc = "closing" => thread'[u] = thread[u]
    BY <1>5, <1>6
  <2>3. OwnersOK(f) /\ envs'[f].refs = envs[f].refs /\ (envs[f].refs > 0 => envs'[f].opened = envs[f].opened)
    BY <1>1, <1>3, <1>7, <1>9 DEF IInv, OwnersOK
  <2> QED
    BY <1>9, <2>1, <2>2, <2>3 DEF OwnersOK
<1> QED
  BY <1>6, <1>8, <1>9, <1>11, <1>12, <1>13, <1>14 DEF IInv

\* An owner lets go of its environment; the last one is to close it.
LEMMA ReleaseEnvStep ==
    ASSUME IInv, NEW t \in Thread, ReleaseEnv(t)
    PROVE  IInv'
<1> DEFINE e == thread[t].env
           last == envs[e].refs = 1
           after == [thread[t] EXCEPT !.pc = IF last THEN "closing" ELSE "idle", !.env = IF last THEN e ELSE 0]
           refs == envs[e].refs - 1
           env == [envs[e] EXCEPT !.refs = refs]
<1>1. /\ thread[t].pc \in {"open", "thrown"} /\ thread[t].txns = <<>>
      /\ ThreadOK(thread[t], Len(envs)) /\ WriterOK(thread[t], t)
  BY DEF ReleaseEnv, IInv
<1>2. e \in 1 .. Len(envs) /\ Shape(thread[t])
  BY <1>1 DEF ThreadOK
<1>3. envs \in Seq(Environments) /\ envs[e] \in Environments /\ OwnersOK(e)
  BY <1>2 DEF IInv
<1>4. thread' = [thread EXCEPT ![t] = after] /\ thread = [u \in Thread |-> thread[u]]
  BY Zenon DEF ReleaseEnv, IInv
<1>5. /\ Shape(after) /\ after.txns = <<>>
      /\ last => after.pc = "closing" /\ after.env = e
      /\ ~last => after.pc = "idle" /\ after.env = 0
  BY <1>1, <1>2, Zenon DEF Shape, Fields
<1> HIDE DEF after
<1>6. /\ thread' = [u \in Thread |-> thread'[u]] /\ thread'[t] = after
      /\ \A u \in Thread : u # t => thread'[u] = thread[u]
  BY <1>4
<1>7. /\ env \in Environments /\ env.refs = envs[e].refs - 1 /\ env.opened = envs[e].opened
      /\ env.rw_txns = envs[e].rw_txns /\ env.ro_txns = envs[e].ro_txns
  <2>1. refs \in Int
    <3>1. envs[e].refs \in Int
      BY <1>3, Zenon DEF Environments
    <3> QED
      BY <3>1
  <2> HIDE DEF refs
  <2>2. env \in Environments
    BY <1>3, <2>1, Zenon DEF Environments
  <2>3. /\ env.refs = refs /\ env.opened = envs[e].opened
        /\ env.rw_txns = envs[e].rw_txns /\ env.ro_txns = envs[e].ro_txns
    BY <1>3 DEF Environments
  <2> QED
    BY <2>2, <2>3 DEF refs
<1>8. envs' = [envs EXCEPT ![e] = env] /\ s_envs' = s_envs /\ writer' = writer
  BY DEF ReleaseEnv
<1> HIDE DEF env
<1>9. /\ envs' \in Seq(Environments) /\ Len(envs') = Len(envs) /\ envs'[e] = env
      /\ \A f \in 1 .. Len(envs) : f # e => envs'[f] = envs[f]
  BY <1>2, <1>3, <1>7, <1>8
<1>10. writer # t /\ Writing(t) = 0 /\ \A u \in Thread : Writing(u)' = Writing(u)
  BY <1>1, <1>8 DEF WriterOK, Writing
<1>11. ASSUME NEW u \in Thread PROVE ThreadOK(thread[u], Len(envs))' /\ WriterOK(thread[u], u)'
  <2>1. ThreadOK(thread[u], Len(envs)) /\ WriterOK(thread[u], u)
    BY DEF IInv
  <2>2. CASE u # t
    BY <1>6, <1>8, <1>9, <2>1, <2>2 DEF ThreadOK, WriterOK
  <2>3. CASE u = t
    <3>1. ThreadOK(thread[t], Len(envs))'
      BY <1>1, <1>2, <1>5, <1>6, <1>9, Zenon DEF ThreadOK, Owning
    <3>2. WriterOK(thread[t], t)'
      BY <1>1, <1>5, <1>6, <1>8, <1>10 DEF WriterOK
    <3> QED
      BY <2>3, <3>1, <3>2
  <2> QED
    BY <2>2, <2>3
<1>12. ASSUME NEW f \in 1 .. Len(envs), NEW u \in Thread PROVE CountersOK(envs[f], f, u)'
  <2>1. CountersOK(envs[f], f, u) /\ envs'[f].rw_txns = envs[f].rw_txns /\ envs'[f].ro_txns = envs[f].ro_txns
    BY <1>7, <1>9 DEF IInv
  <2>2. CASE u # t
    BY <1>6, <1>10, <2>1, <2>2 DEF CountersOK
  <2>3. CASE u = t
    <3>1. Len(thread[t].txns) - Writing(t) = 0
      BY <1>1, <1>10
    <3> QED
      BY <1>1, <1>5, <1>6, <1>10, <2>1, <2>3, <3>1 DEF CountersOK
  <2> QED
    BY <2>2, <2>3
<1>13. RegistryOK'
  BY <1>2, <1>8, <1>9 DEF IInv, RegistryOK
<1>14. t \in Owners(e) /\ envs[e].refs = Cardinality(Owners(e)) /\ envs[e].refs \in Nat /\ envs[e].refs > 0
  <2>1. t \in Owners(e) /\ envs[e].refs = Cardinality(Owners(e))
    BY <1>1, <1>3 DEF Owners, Owning, OwnersOK
  <2>2. Cardinality(Owners(e)) # 0 /\ Cardinality(Owners(e)) \in Nat
    BY <2>1, OwnersFinite, FS_EmptySet
  <2> QED
    BY <2>1, <2>2
<1>15. ASSUME NEW f \in 1 .. Len(envs), f = e PROVE OwnersOK(f)'
  <2>1. Owners(f)' = Owners(f) \ {t}
    BY <1>1, <1>5, <1>6, <1>15 DEF Owners, Owning
  <2>2. Cardinality(Owners(f) \ {t}) = Cardinality(Owners(f)) - 1
    BY <1>14, <1>15, OwnersFinite, FS_RemoveElement, Zenon
  <2>3. envs'[f].refs = Cardinality(Owners(f)') /\ envs'[f].refs = envs[f].refs - 1
    BY <1>7, <1>9, <1>14, <1>15, <2>1, <2>2
  <2>4. envs'[f].opened /\ f = Len(envs')
    BY <1>3, <1>7, <1>9, <1>14, <1>15 DEF OwnersOK
  <2>5. ASSUME NEW u \in Thread, thread'[u].pc = "closing", thread'[u].env = f PROVE envs'[f].refs = 0
    <3>1. u = t
      BY <1>3, <1>6, <1>14, <1>15, <2>5 DEF OwnersOK
    <3> QED
      BY <1>5, <1>6, <1>14, <1>15, <2>3, <2>5, <3>1
  <2> QED
    BY <2>3, <2>4, <2>5 DEF OwnersOK
<1>16. ASSUME NEW f \in 1 .. Len(envs), f # e PROVE OwnersOK(f)'
  <2>1. Owners(f)' = Owners(f)
    BY <1>5, <1>6, <1>16 DEF Owners, Owning
  <2>2. \A u \in Thread : thread'[u].pc = "closing" /\ thread'[u].env = f => thread'[u] = thread[u]
    BY <1>5, <1>6, <1>16
  <2>3. OwnersOK(f) /\ envs'[f] = envs[f]
    BY <1>9, <1>16 DEF IInv
  <2> QED
    BY <1>9, <2>1, <2>2, <2>3 DEF OwnersOK
<1> QED
  BY <1>6, <1>8, <1>9, <1>11, <1>12, <1>13, <1>15, <1>16 DEF IInv

\* get_env gives a thread the youngest environment, found alive or made.
LEMMA GetEnvStep ==
    ASSUME IInv, NEW t \in Thread, NEW flags \in Flags, GetEnv(t, flags)
    PROVE  IInv'
<1> DEFINE n == Len(envs)
           after == [thread[t] EXCEPT !.pc = "open", !.env = s_envs'.env, !.ops = @ + 1]
<1>1. thread[t].pc = "idle" /\ ThreadOK(thread[t], n) /\ WriterOK(thread[t], t)
  BY DEF GetEnv, IInv
<1>2. thread[t].env = 0 /\ thread[t].txns = <<>> /\ Shape(thread[t])
  BY <1>1 DEF ThreadOK
<1>3. envs \in Seq(Environments) /\ thread = [u \in Thread |-> thread[u]] /\ n \in Nat
  BY DEF IInv
<1>4. thread' = [thread EXCEPT ![t] = after]
  BY Zenon DEF GetEnv
<1>5. Shape(after) /\ after.pc = "open" /\ after.env = s_envs'.env /\ after.txns = <<>>
  BY <1>2, Zenon DEF Shape, Fields
<1> HIDE DEF after
<1>6. /\ thread' = [u \in Thread |-> thread'[u]] /\ thread'[t] = after
      /\ \A u \in Thread : u # t => thread'[u] = thread[u]
  BY <1>3, <1>4
<1>7. writer' = writer
  BY DEF GetEnv
<1>8. writer # t /\ Writing(t) = 0 /\ \A u \in Thread : Writing(u)' = Writing(u)
  BY <1>1, <1>2, <1>7 DEF WriterOK, Writing
\* What is known of the environments in both cases.
<1>9. ASSUME NEW m \in 1 .. n + 1, m >= n, s_envs'.env = m, RegistryOK', Len(envs') = m, envs' \in Seq(Environments),
             \A f \in 1 .. n : envs'[f].rw_txns = envs[f].rw_txns /\ envs'[f].ro_txns = envs[f].ro_txns,
             m = n + 1 => \A u \in Thread : envs'[m].rw_txns[u] = 0 /\ envs'[m].ro_txns[u] = 0,
             \A f \in 1 .. m : OwnersOK(f)'
      PROVE  IInv'
  <2>1. ASSUME NEW u \in Thread PROVE ThreadOK(thread[u], Len(envs))' /\ WriterOK(thread[u], u)'
    <3>1. ThreadOK(thread[u], n) /\ WriterOK(thread[u], u)
      BY DEF IInv
    <3>2. CASE u # t
      BY <1>3, <1>6, <1>7, <1>9, <3>1, <3>2 DEF ThreadOK, WriterOK
    <3>3. CASE u = t
      <4>1. <<>> \in Seq({"ro", "rw"}) /\ Len(<<>>) = 0 /\ m \in 1 .. Len(envs')
        BY <1>9
      <4>2. ThreadOK(thread[t], Len(envs))'
        BY <1>5, <1>6, <1>9, <4>1, Zenon DEF ThreadOK, Owning
      <4>3. WriterOK(thread[t], t)'
        BY <1>5, <1>6, <1>7, <1>8, <4>1 DEF WriterOK
      <4> QED
        BY <3>3, <4>2, <4>3
    <3> QED
      BY <3>2, <3>3
  <2>2. ASSUME NEW f \in 1 .. Len(envs'), NEW u \in Thread PROVE CountersOK(envs[f], f, u)'
    <3>1. CASE u = t
      <4>1. envs'[f].rw_txns[t] = 0 /\ envs'[f].ro_txns[t] = 0
        <5>1. CASE f \in 1 .. n
          <6>1. CountersOK(envs[f], f, t)
            BY <5>1 DEF IInv
          <6> QED
            BY <1>2, <1>9, <5>1, <6>1 DEF CountersOK
        <5>2. CASE f = n + 1
          BY <1>3, <1>9, <5>2
        <5> QED
          BY <1>3, <1>9, <5>1, <5>2
      <4>2. Len(after.txns) - Writing(t)' = 0 /\ Writing(t)' = 0
        BY <1>5, <1>8
      <4> QED
        BY <1>6, <3>1, <4>1, <4>2 DEF CountersOK
    <3>2. CASE u # t /\ f \in 1 .. n
      <4>1. CountersOK(envs[f], f, u)
        BY <3>2 DEF IInv
      <4> QED
        BY <1>6, <1>8, <1>9, <3>2, <4>1 DEF CountersOK
    <3>3. CASE u # t /\ f = n + 1
      <4>1. thread[u].env # f
        BY <1>3, <3>3 DEF IInv, ThreadOK
      <4> QED
        BY <1>3, <1>6, <1>9, <3>3, <4>1 DEF CountersOK
    <3> QED
      BY <1>3, <1>9, <3>1, <3>2, <3>3
  <2> QED
    BY <1>6, <1>7, <1>9, <2>1, <2>2 DEF IInv
<1>10. \A f \in 1 .. n : envs[f].refs \in Nat /\ OwnersOK(f)
  BY OwnersFinite DEF IInv, OwnersOK
<1>11. CASE s_envs # None /\ Alive(envs[s_envs.env])
  <2> DEFINE refs == envs[n].refs + 1
             env == [envs[n] EXCEPT !.refs = refs]
  <2>1. s_envs.env = n /\ n \in 1 .. n /\ envs[n] \in Environments
    BY <1>3, <1>11 DEF IInv, RegistryOK
  <2>2. envs' = [envs EXCEPT ![n] = env] /\ s_envs' = s_envs
    BY <1>11, <2>1 DEF GetEnv, Shared
  <2>3. refs \in Int
    BY <1>10, <2>1
  <2> HIDE DEF refs
  <2>4. env \in Environments
    BY <2>1, <2>3, Zenon DEF Environments
  <2>5. /\ env.refs = refs /\ env.opened = envs[n].opened
        /\ env.rw_txns = envs[n].rw_txns /\ env.ro_txns = envs[n].ro_txns
    BY <2>1 DEF Environments
  <2> HIDE DEF env
  <2>6. /\ envs' \in Seq(Environments) /\ Len(envs') = n /\ envs'[n] = env
        /\ \A f \in 1 .. n : f # n => envs'[f] = envs[f]
    BY <1>3, <2>1, <2>2, <2>4
  <2>7. RegistryOK'
    <3>1. s_envs' # None /\ s_envs'.env = Len(envs') /\ envs' # <<>>
      BY <1>3, <1>11, <2>1, <2>2, <2>6
    <3> QED
      BY <3>1 DEF RegistryOK
  <2>8. envs[n].refs > 0 /\ envs[n].opened
    BY <1>11, <2>1 DEF Alive
  <2>9. ASSUME NEW f \in 1 .. n, f = n PROVE OwnersOK(f)'
    <3>1. Owners(f)' = Owners(f) \cup {t} /\ t \notin Owners(f)
      BY <1>1, <1>5, <1>6, <2>1, <2>2, <2>9 DEF Owners, Owning
    <3>2. Cardinality(Owners(f)') = Cardinality(Owners(f)) + 1
      BY <3>1, OwnersFinite, FS_AddElement, Zenon
    <3>3. envs'[f].refs = Cardinality(Owners(f)')
      BY <1>10, <2>5, <2>6, <2>9, <3>2 DEF OwnersOK, refs
    <3>4. envs'[f].opened /\ f = Len(envs')
      BY <2>5, <2>6, <2>8, <2>9, Zenon
    <3>5. \A u \in Thread : thread'[u].pc = "closing" => thread'[u].env # f
      BY <1>5, <1>6, <1>10, <2>8, <2>9 DEF OwnersOK
    <3> QED
      BY <3>3, <3>4, <3>5 DEF OwnersOK
  <2>10. ASSUME NEW f \in 1 .. n, f # n PROVE OwnersOK(f)'
    <3>1. Owners(f)' = Owners(f)
      BY <1>1, <1>5, <1>6, <2>1, <2>2, <2>10 DEF Owners, Owning
    <3>2. \A u \in Thread : thread'[u].pc = "closing" => thread'[u] = thread[u]
      BY <1>5, <1>6
    <3>3. OwnersOK(f) /\ envs'[f] = envs[f]
      BY <1>10, <2>6, <2>10
    <3> QED
      BY <2>6, <3>1, <3>2, <3>3 DEF OwnersOK
  <2>11. /\ n \in 1 .. n + 1 /\ n >= n /\ n # n + 1 /\ s_envs'.env = n
         /\ \A f \in 1 .. n : envs'[f].rw_txns = envs[f].rw_txns /\ envs'[f].ro_txns = envs[f].ro_txns
    <3>1. n \in 1 .. n + 1 /\ n >= n /\ n # n + 1
      BY <1>3, <2>1
    <3>2. s_envs'.env = n
      BY <2>1, <2>2
    <3>3. \A f \in 1 .. n : envs'[f].rw_txns = envs[f].rw_txns /\ envs'[f].ro_txns = envs[f].ro_txns
      BY <2>5, <2>6
    <3> QED
      BY <3>1, <3>2, <3>3
  <2>12. \A f \in 1 .. n : OwnersOK(f)'
    BY <2>9, <2>10
  <2>13. n = n + 1 => \A u \in Thread : envs'[n].rw_txns[u] = 0 /\ envs'[n].ro_txns[u] = 0
    BY <2>11
  <2> HIDE DEF n
  <2> QED
    BY <1>9, <2>6, <2>7, <2>11, <2>12, <2>13
<1>12. CASE ~(s_envs # None /\ Alive(envs[s_envs.env]))
  <2> DEFINE env == NewEnvironment(flags)
  <2>1. envs' = Append(envs, env) /\ s_envs' = [env |-> Len(envs'), flags |-> flags]
    BY <1>12 DEF GetEnv
  <2>2. env \in Environments /\ env.refs = 1 /\ env.opened /\ \A u \in Thread : env.rw_txns[u] = 0 /\ env.ro_txns[u] = 0
    BY DEF NewEnvironment, Environments
  <2> HIDE DEF env
  <2>3. /\ envs' \in Seq(Environments) /\ Len(envs') = n + 1 /\ envs'[n + 1] = env
        /\ \A f \in 1 .. n : envs'[f] = envs[f]
    BY <1>3, <2>1, <2>2
  <2>4. s_envs'.env = n + 1
    BY <2>1, <2>3
  <2>5. \A f \in 1 .. n : envs[f].refs = 0
    BY <1>3, <1>10, <1>12 DEF IInv, RegistryOK, OwnersOK, Alive
  <2>6. ASSUME NEW f \in 1 .. n + 1, f = n + 1 PROVE OwnersOK(f)'
    <3>1. \A u \in Thread : thread[u].env # n + 1
      BY <1>3 DEF IInv, ThreadOK
    <3>2. Owners(f)' = {t}
      BY <1>5, <1>6, <2>4, <2>6, <3>1 DEF Owners, Owning
    <3>3. envs'[f].refs = Cardinality(Owners(f)')
      BY <2>2, <2>3, <2>6, <3>2, FS_Singleton, Zenon
    <3>4. \A u \in Thread : thread'[u].pc = "closing" => thread'[u].env # f
      BY <1>5, <1>6, <2>6, <3>1
    <3> QED
      BY <2>2, <2>3, <2>6, <3>3, <3>4 DEF OwnersOK
  <2>7. ASSUME NEW f \in 1 .. n PROVE OwnersOK(f)'
    <3>1. Owners(f)' = Owners(f)
      BY <1>1, <1>3, <1>5, <1>6, <2>4 DEF Owners, Owning
    <3> QED
      BY <1>10, <2>3, <2>5, <3>1 DEF OwnersOK
  <2>8. RegistryOK'
    <3>1. s_envs'.env = Len(envs') /\ envs' # <<>>
      BY <1>3, <2>3, <2>4
    <3>2. n + 1 \in 1 .. MaxEnvs
      BY <1>3, <1>12, EnvsAssumption DEF GetEnv
    <3>3. s_envs' # None
      BY <2>1, <2>3, <3>2, EnvsAssumption
    <3> QED
      BY <3>1, <3>3 DEF RegistryOK
  <2>9. \A f \in 1 .. n + 1 : OwnersOK(f)'
    BY <1>3, <2>6, <2>7
  <2>10. n + 1 \in 1 .. n + 1 /\ n + 1 >= n
    BY <1>3
  <2> HIDE DEF n
  <2> QED
    BY <1>9, <2>2, <2>3, <2>4, <2>8, <2>9, <2>10
<1> QED
  BY <1>11, <1>12

-----------------------------------------------------------------------------
(* ------------------------------ Theorems ------------------------------ *)

\* Every step preserves IInv.
LEMMA Inductive == IInv /\ [Next]_vars => IInv'
<1> SUFFICES ASSUME IInv, [Next]_vars PROVE IInv'
  OBVIOUS
<1>1. CASE \E t \in Thread : \E flags \in Flags : GetEnv(t, flags)
  BY <1>1, GetEnvStep
<1>2. CASE \E t \in Thread : ReleaseEnv(t)
  BY <1>2, ReleaseEnvStep
<1>3. CASE \E t \in Thread : CloseEnv(t)
  BY <1>3, CloseEnvStep
<1>4. CASE \E t \in Thread : TxnBegun(t)
  BY <1>4, TxnBegunStep
<1>5. CASE \E t \in Thread : Commit(t)
  BY <1>5, EndedStep, Zenon DEF Commit
<1>6. CASE \E t \in Thread : Abort(t)
  BY <1>6, EndedStep, Zenon DEF Abort
<1>7. CASE ~ \E t \in Thread : \/ \E flags \in Flags : GetEnv(t, flags)
                              \/ ReleaseEnv(t) \/ CloseEnv(t) \/ TxnBegun(t) \/ Commit(t) \/ Abort(t)
  BY <1>7, QuietActions DEF Next, Step
<1> QED
  BY <1>1, <1>2, <1>3, <1>4, <1>5, <1>6, <1>7

\* IInv holds throughout, for any number of threads.
LEMMA Invariance == Spec => []IInv
<1>1. Init => IInv
  BY Initially
<1>2. IInv /\ [Next]_vars => IInv'
  BY Inductive
<1> QED
  BY <1>1, <1>2, PTL DEF Spec

\* open_transaction throws before a thread could wait in mdb_txn_begin for the write lock that it
\* holds itself: with every number of threads, environments and transactions.
THEOREM NoSelfWait == Spec => []NoThreadWaitsForItself
<1>1. IInv => NoThreadWaitsForItself
  BY DEF IInv, WriterOK, NoThreadWaitsForItself
<1> QED
  BY <1>1, Invariance, PTL

\* The counters of open transactions, by thread and kind, are exact: mdb_txn_begin that fails counts
\* nothing, and commit and abort take back what their own thread has counted.
THEOREM ExactCounters == Spec => []CountersAreExact
<1>1. IInv => CountersAreExact
  <2> SUFFICES ASSUME IInv, NEW e \in DOMAIN envs, NEW t \in Thread
               PROVE  /\ envs[e].rw_txns[t] = IF thread[t].env = e THEN Open(t, "rw") ELSE 0
                      /\ envs[e].ro_txns[t] = IF thread[t].env = e THEN Open(t, "ro") ELSE 0
    BY DEF CountersAreExact
  <2> DEFINE txns == thread[t].txns
             n == Len(txns)
  <2>1. e \in 1 .. Len(envs) /\ CountersOK(envs[e], e, t) /\ WriterOK(thread[t], t) /\ txns \in Seq({"ro", "rw"})
    BY DEF IInv, ThreadOK
  <2>2. n \in Nat /\ DOMAIN txns = 1 .. n /\ \A i \in 1 .. n : txns[i] \in {"ro", "rw"}
    BY <2>1
  <2>3. CASE writer = t
    <3>1. n \in Nat \ {0} /\ n \in 1 .. n
      BY <2>1, <2>2, <2>3 DEF WriterOK
    <3>2. {i \in DOMAIN txns : txns[i] = "rw"} = {n} /\ {i \in DOMAIN txns : txns[i] = "ro"} = 1 .. n - 1
      BY <2>1, <2>2, <2>3, <3>1 DEF WriterOK
    <3>3. Cardinality({n}) = 1 /\ Cardinality(1 .. n - 1) = n - 1
      <4>1. Cardinality({n}) = 1
        BY FS_Singleton, Zenon
      <4>2. n - 1 \in Int /\ 1 \in Int
        BY <3>1
      <4>3. Cardinality(1 .. n - 1) = IF 1 > n - 1 THEN 0 ELSE n - 1 - 1 + 1
        BY <4>2, FS_Interval
      <4> QED
        BY <3>1, <4>1, <4>3
    <3>4. Open(t, "rw") = 1 /\ Open(t, "ro") = n - 1
      BY <3>2, <3>3, Zenon DEF Open
    <3> QED
      BY <2>1, <2>3, <3>4 DEF CountersOK, Writing
  <2>4. CASE writer # t
    <3>1. {i \in DOMAIN txns : txns[i] = "rw"} = {} /\ {i \in DOMAIN txns : txns[i] = "ro"} = 1 .. n
      BY <2>1, <2>2, <2>4 DEF WriterOK
    <3>2. Cardinality({}) = 0 /\ Cardinality(1 .. n) = n
      BY <2>2, FS_EmptySet, FS_Interval
    <3>3. Open(t, "rw") = 0 /\ Open(t, "ro") = n
      BY <3>1, <3>2, Zenon DEF Open
    <3> QED
      BY <2>1, <2>2, <2>4, <3>3 DEF CountersOK, Writing
  <2> QED
    BY <2>3, <2>4
<1> QED
  BY <1>1, Invariance, PTL

\* However get_env, the release of the last pointer and the destructor interleave, an environment
\* that is open besides a younger one of the same file has no owner left.
THEOREM OneEnvironmentInUse == Spec => []EnvironmentsOverlapOnlyWhileClosing
<1>1. IInv => EnvironmentsOverlapOnlyWhileClosing
  <2> SUFFICES ASSUME IInv, NEW e \in DOMAIN envs, NEW f \in DOMAIN envs, e < f
               PROVE  envs[e].refs = 0
    BY DEF EnvironmentsOverlapOnlyWhileClosing
  <2>1. e \in 1 .. Len(envs) /\ f \in 1 .. Len(envs) /\ Len(envs) \in Nat
    BY DEF IInv
  <2>2. OwnersOK(e) /\ e # Len(envs)
    BY <2>1 DEF IInv
  <2>3. envs[e].refs \in Nat
    BY <2>2, OwnersFinite DEF OwnersOK
  <2> QED
    BY <2>2, <2>3 DEF OwnersOK
<1> QED
  BY <1>1, Invariance, PTL
=============================================================================
