------------------------------ MODULE ChainDb -------------------------------
(***************************************************************************)
(* Environments and transactions (db/chaindb.cpp) as the threads of one    *)
(* process use them, and the collectors that are filled on the way and     *)
(* loaded into a table (etl/collector.cpp).  Of LMDB itself the model has  *)
(* the one writer at a time, the map that another process makes larger,    *)
(* and the commit that publishes what a transaction has written.           *)
(***************************************************************************)
EXTENDS EtlCollector

CONSTANTS Thread,
          Flags,            \* flags of an environment without MDB_RDONLY
          Extracts,         \* for each thread, what its source may hold: sequences of entries
          MaxEnvs, MaxOps   \* bounds

ASSUME ThreadAssumption == IsFiniteSet(Thread) /\ None \notin Thread
ASSUME EnvsAssumption ==
    MaxEnvs \in Nat /\ \A e \in 1 .. MaxEnvs, flags \in Flags : [env |-> e, flags |-> flags] # None

kMaxTries == 3

VARIABLES envs,     \* the Environment objects ever created
          s_envs,   \* the map of get_env, for the one path
          thread,   \* what each thread holds and does
          writer,   \* the thread that holds the write lock of LMDB
          table,    \* what is committed
          workdir,  \* whether the working directory of the collectors exists
          extract   \* what the source of each thread holds

vars == <<envs, s_envs, thread, writer, table, workdir, extract>>

Idle == [pc |-> "idle", env |-> 0, txns |-> <<>>, wants |-> None, maxtries |-> 0, ops |-> 0,
         table |-> None, loaded |-> 0, collector |-> None, collected |-> 0]

Init ==
    /\ envs = <<>> /\ s_envs = None
    /\ thread = [t \in Thread |-> Idle]
    /\ writer = None /\ table = EmptyTable /\ workdir = FALSE
    /\ extract \in [Thread -> UNION {Extracts[t] : t \in Thread}] /\ \A t \in Thread : extract[t] \in Extracts[t]

(* ---------------------------- Environments ---------------------------- *)

NewEnvironment(flags) ==
    [refs |-> 1, opened |-> TRUE, flags |-> flags, resized |-> FALSE,
     ro_txns |-> [t \in Thread |-> 0], rw_txns |-> [t \in Thread |-> 0]]

Shared(env) == [env EXCEPT !.refs = @ + 1]

\* Mutant: what the map knows is never found alive.
AliveNever(env) == FALSE
\* The weak pointer can still be locked, and close() was not called.
Alive(env) == env.refs > 0 /\ env.opened

\* get_env, under its mutex.
GetEnv(t, flags) ==
    /\ thread[t].pc = "idle" /\ thread[t].ops < MaxOps
    /\ s_envs # None => s_envs.flags = flags
    /\ IF s_envs # None /\ Alive(envs[s_envs.env])
       THEN /\ envs' = [envs EXCEPT ![s_envs.env] = Shared(@)]
            /\ UNCHANGED s_envs
       ELSE /\ Len(envs) < MaxEnvs
            /\ envs' = Append(envs, NewEnvironment(flags))
            /\ s_envs' = [env |-> Len(envs'), flags |-> flags]
    /\ thread' = [thread EXCEPT ![t].pc = "open", ![t].env = s_envs'.env, ![t].ops = @ + 1]
    /\ UNCHANGED <<writer, table, workdir, extract>>

\* MDB_INCOMPATIBLE, which is decided before the environment is known to be alive.
GetEnvRefused(t, flags) ==
    /\ thread[t].pc = "idle" /\ thread[t].ops < MaxOps
    /\ s_envs # None /\ s_envs.flags # flags
    /\ thread' = [thread EXCEPT ![t].ops = @ + 1]
    /\ UNCHANGED <<envs, s_envs, writer, table, workdir, extract>>

\* The last pointer is gone before the destructor comes to close the environment.
ReleaseEnv(t) ==
    LET e == thread[t].env IN
    /\ thread[t].pc \in {"open", "thrown"} /\ thread[t].txns = <<>> /\ thread[t].collector = None
    /\ envs' = [envs EXCEPT ![e].refs = @ - 1]
    /\ thread' = [thread EXCEPT ![t].pc = IF envs[e].refs = 1 THEN "closing" ELSE "idle",
                                ![t].env = IF envs[e].refs = 1 THEN e ELSE 0]
    /\ UNCHANGED <<s_envs, writer, table, workdir, extract>>
CloseEnv(t) ==
    /\ thread[t].pc = "closing"
    /\ envs' = [envs EXCEPT ![thread[t].env].opened = FALSE]
    /\ thread' = [thread EXCEPT ![t].pc = "idle", ![t].env = 0]
    /\ UNCHANGED <<s_envs, writer, table, workdir, extract>>

(* ---------------------------- Transactions ---------------------------- *)

\* The checks of open_transaction.
MayOpen(env, t, ro) ==
    /\ env.rw_txns[t] = 0
    /\ (ro /\ ~env.flags.notls) => env.ro_txns[t] = 0

BeginTransaction(t, ro) ==
    LET th == thread[t] IN
    /\ th.pc = "open" /\ th.ops < MaxOps
    /\ thread' = [thread EXCEPT ![t] =
         IF MayOpen(envs[th.env], t, ro)
         THEN [th EXCEPT !.ops = @ + 1, !.wants = IF ro THEN "ro" ELSE "rw", !.maxtries = kMaxTries, !.pc = "beginning"]
         ELSE [th EXCEPT !.ops = @ + 1, !.pc = "thrown"]]
    /\ UNCHANGED <<envs, s_envs, writer, table, workdir, extract>>

\* touch_ro_txns, touch_rw_txns.
\* Mutant: all transactions are counted as those that only read.
TouchReaders(env, t, kind, count) == [env EXCEPT !.ro_txns[t] = @ + count]
Touch(env, t, kind, count) ==
    IF kind = "ro" THEN [env EXCEPT !.ro_txns[t] = @ + count] ELSE [env EXCEPT !.rw_txns[t] = @ + count]

\* mdb_txn_begin succeeds; for writing, the lock was free.
TxnBegun(t) ==
    LET th == thread[t]
        rw == th.wants = "rw"
    IN /\ th.pc = "beginning" /\ ~envs[th.env].resized /\ (rw => writer = None)
       /\ envs' = [envs EXCEPT ![th.env] = Touch(@, t, th.wants, 1)]
       /\ writer' = IF rw THEN t ELSE writer
       /\ thread' = [thread EXCEPT ![t] = [th EXCEPT !.pc = "open", !.txns = Append(@, th.wants), !.wants = None,
                                                     !.maxtries = 0, !.table = IF rw THEN table ELSE @]]
       /\ UNCHANGED <<s_envs, table, workdir, extract>>

\* Mutant: the attempts are not counted.
TriesLeftAlways(n) == n
TriesLeft(n) == n - 1

\* MDB_MAP_RESIZED: the new size is adopted, which LMDB refuses while the environment has a writer,
\* and mdb_txn_begin is tried again.
TxnNotBegun(t) ==
    LET th == thread[t]
        refused == writer # None /\ thread[writer].env = th.env
        left == TriesLeft(th.maxtries)
    IN /\ th.pc = "beginning" /\ envs[th.env].resized /\ (th.wants = "rw" => writer = None)
       /\ envs' = [envs EXCEPT ![th.env].resized = refused]
       /\ thread' = [thread EXCEPT ![t] =
            IF refused \/ left = 0 THEN [th EXCEPT !.pc = "thrown", !.wants = None, !.maxtries = 0]
            ELSE [th EXCEPT !.maxtries = left]]
       /\ UNCHANGED <<s_envs, writer, table, workdir, extract>>

\* Another process has made the map larger.
Resize(e) ==
    /\ envs[e].opened /\ ~envs[e].resized
    /\ envs' = [envs EXCEPT ![e].resized = TRUE]
    /\ UNCHANGED <<s_envs, thread, writer, table, workdir, extract>>

\* The transaction of thread t that was opened last ends, and publishes its table or not.
Ended(t, publish) ==
    LET th == thread[t]
        kind == Last(th.txns)
    IN /\ th.txns # <<>>
       /\ envs' = [envs EXCEPT ![th.env] = Touch(@, t, kind, -1)]
       /\ writer' = IF kind = "rw" THEN None ELSE writer
       /\ table' = IF kind = "rw" /\ publish THEN th.table ELSE table
       /\ thread' = [thread EXCEPT ![t] =
            IF kind = "rw" THEN [th EXCEPT !.txns = Front(@), !.table = None, !.loaded = 0]
            ELSE [th EXCEPT !.txns = Front(@)]]
       /\ UNCHANGED <<s_envs, workdir, extract>>

Commit(t) == thread[t].pc = "open" /\ Ended(t, TRUE)
\* The destructor aborts what was not committed.
\* Mutant: it commits.
AbortPublishing(t) == thread[t].pc \in {"open", "thrown"} /\ Ended(t, TRUE)
Abort(t) == thread[t].pc \in {"open", "thrown"} /\ Ended(t, FALSE)

(* ----------------------------- Collectors ----------------------------- *)

\* The caller creates the directory, which all collectors of the program share.
CreateCollector(t) ==
    /\ thread[t].pc = "open" /\ thread[t].collector = None /\ thread[t].ops < MaxOps
    /\ thread' = [thread EXCEPT ![t].collector = NewCollector, ![t].ops = @ + 1]
    /\ workdir' = TRUE
    /\ UNCHANGED <<envs, s_envs, writer, table, extract>>

CollectEntry(t, disk_full) ==
    LET n == thread[t].collected + 1
        c == Collect(thread[t].collector, extract[t][n], workdir /\ ~disk_full)
    IN /\ thread[t].pc = "open" /\ thread[t].collector # None /\ n <= Len(extract[t])
       /\ disk_full => c.err
       /\ thread' = [thread EXCEPT ![t].collector = c, ![t].collected = n,
                                   ![t].pc = IF c.err THEN "thrown" ELSE "open"]
       /\ UNCHANGED <<envs, s_envs, writer, table, workdir, extract>>

\* A collector is loaded once, when its source is exhausted; put throws when LMDB has no room for
\* more than n entries.
LoadTable(t, disk_full, n) ==
    LET th == thread[t]
        c == PrepareLoad(th.collector, workdir /\ ~disk_full)
        loading == [th EXCEPT !.table = PutAll(@, SubSeq(Loaded(c), 1, n)), !.collector = NewCollector]
    IN /\ th.pc = "open" /\ th.collector # None /\ writer = t
       /\ th.collected = Len(extract[t]) /\ th.collector.size > 0
       /\ disk_full => c.err /\ n = 0
       /\ thread' = [thread EXCEPT ![t] =
            IF c.err THEN [th EXCEPT !.collector = c, !.pc = "thrown"]
            ELSE IF n < th.collected THEN [loading EXCEPT !.pc = "thrown"]
            ELSE [loading EXCEPT !.loaded = n]]
       /\ UNCHANGED <<envs, s_envs, writer, table, workdir, extract>>

\* The destructor removes the directory, whoever else still uses it.
DestroyCollector(t) ==
    /\ thread[t].pc \in {"open", "thrown"} /\ thread[t].collector # None
    /\ thread' = [thread EXCEPT ![t].collector = None, ![t].collected = 0]
    /\ workdir' = FALSE
    /\ UNCHANGED <<envs, s_envs, writer, table, extract>>

Step(t) ==
    \/ \E flags \in Flags : GetEnv(t, flags)
    \/ \E flags \in Flags : GetEnvRefused(t, flags)
    \/ ReleaseEnv(t)
    \/ CloseEnv(t)
    \/ \E ro \in BOOLEAN : BeginTransaction(t, ro)
    \/ TxnBegun(t)
    \/ TxnNotBegun(t)
    \/ Commit(t)
    \/ Abort(t)
    \/ CreateCollector(t)
    \/ \E disk_full \in BOOLEAN : CollectEntry(t, disk_full)
    \/ \E disk_full \in BOOLEAN, n \in 0 .. Len(extract[t]) : LoadTable(t, disk_full, n)
    \/ DestroyCollector(t)

Next ==
    \/ \E t \in Thread : Step(t)
    \/ \E e \in DOMAIN envs : Resize(e)

\* A thread goes on with what it is doing for as long as it can.
Fairness == \A t \in Thread : WF_vars(Step(t))
Spec == Init /\ [][Next]_vars /\ Fairness

-----------------------------------------------------------------------------
WithLoaded(t) == Load(table, SubSeq(extract[t], 1, thread[t].loaded), FALSE).table
Open(t, kind) == Cardinality({i \in DOMAIN thread[t].txns : thread[t].txns[i] = kind})

\* No thread waits for the write lock that it holds itself: open_transaction throws before that.
NoThreadWaitsForItself ==
    \A t \in Thread : (thread[t].pc = "beginning" /\ thread[t].wants = "rw") => writer # t

\* The counters on which open_transaction decides are exact, however often a transaction fails to
\* begin and whichever way it ends.
CountersAreExact ==
    \A e \in DOMAIN envs, t \in Thread :
        /\ envs[e].rw_txns[t] = IF thread[t].env = e THEN Open(t, "rw") ELSE 0
        /\ envs[e].ro_txns[t] = IF thread[t].env = e THEN Open(t, "ro") ELSE 0

\* get_env keeps one environment for one file.  Two are open together only while the destructor of
\* the older one, which nobody owns any more, has not come to close it.
EnvironmentsOverlapOnlyWhileClosing ==
    \A e, f \in DOMAIN envs : (e < f /\ envs[e].opened /\ envs[f].opened) => envs[e].refs = 0

\* What is committed changes only by the commit of the thread that holds the lock and with nothing
\* thrown, and then to what it was with all that the thread has collected loaded in sorted order, the
\* largest value of a key staying: however the entries were spread over buffer and files, whatever
\* happened to the shared directory, and all of it or none.
OnlyCommitsPublish ==
    [][table' # table => \E t \in Thread :
          /\ writer = t /\ thread[t].pc = "open"
          /\ table' = WithLoaded(t)]_vars

\* No thread is kept in a transaction or in waiting for one: not by the lock, not by the retries
\* for a map that keeps growing, not by an exception.
ThreadsComeToRest == \A t \in Thread : []<>(thread[t].pc = "idle")
=============================================================================
