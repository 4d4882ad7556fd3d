---------------------------- MODULE RecoveryFarm ----------------------------
(***************************************************************************)
(* Recovery of the senders of transactions by a farm of worker threads     *)
(* (cmd/check_senders.cpp: RecoveryWorker and RecoveryFarm::recover).      *)
(*                                                                         *)
(* The main thread reads the block bodies in order, collects packages (one *)
(* per transaction) in batches, hands a batch to an idle worker, and       *)
(* buffers the results of the batches that were completed.  Workers may    *)
(* finish in any order; worker_completed_handler makes them report in the  *)
(* order in which the batches were launched.                               *)
(*                                                                         *)
(* A canonical block is named by its number, and so is its header.  Of a   *)
(* transaction the model keeps whether its signature is well formed and    *)
(* whether a public key can be recovered from it.  A scan of the statuses  *)
(* of the workers is one step: a status that is not Idle only moves away   *)
(* from Working until the main thread itself acts.                         *)
(***************************************************************************)
EXTENDS Integers, Sequences, FiniteSets, Functions, Worker

CONSTANTS
    BodiesTables,  \* the contents table kBlockBodies may have from block From on
    From, To,      \* the range of blocks, all of which have a canonical header
    MaxWorkers, MaxBatchSize,
    Interrupts,    \* whether the user may interrupt the run
    StartFails,    \* whether a new worker may fail to allocate its buffer
    None

Txn == {"good", "malformed", "unrecoverable"}
Body == [num: Nat, canonical: BOOLEAN, txns: Seq(Txn)]

\* The keys, a block number and a hash, are in order, and one hash of each
\* number is canonical.
InKeyOrder(table) ==
    /\ \A i \in DOMAIN table : table[i].num >= From
    /\ \A i, j \in DOMAIN table :
         i < j => /\ table[i].num <= table[j].num
                  /\ table[i].num = table[j].num => ~(table[i].canonical /\ table[j].canonical)

ASSUME FarmAssumption ==
    /\ \A table \in BodiesTables : table \in Seq(Body) /\ InKeyOrder(table)
    /\ From \in Nat /\ To \in Nat /\ From <= To
    /\ MaxWorkers \in Nat \ {0} /\ MaxBatchSize \in Nat \ {0}
    /\ Interrupts \in BOOLEAN /\ StartFails \in BOOLEAN

VARIABLES
    bodies,     \* the table kBlockBodies
    pc,         \* where the main thread is
    cursor,     \* its position in bodies
    expected,   \* expected_block_num; headers_it_1_ moves with it
    batch,      \* batch_, <<>> also when it was moved away
    batch_id,
    renew,      \* the argument of dispatch_batch
    ret,
    joining,    \* index of the worker that stop_all_workers has reached
    max_workers,
    workers,
    queue,      \* batches_completed: the workers whose results can be pulled
    completed,  \* completed_batch_id
    header,     \* headers_it_2_
    collected,  \* what went to the collector
    senders,    \* what the collector loaded into table kSenders
    should_stop, g_should_stop,
    crashed     \* a worker used a batch that is gone

reader == <<cursor, expected>>
dispatcher == <<batch, batch_id, renew>>
pool == <<workers, max_workers>>
reports == <<queue, completed>>
results == <<header, collected, senders>>
main == <<pc, reader, dispatcher, ret, joining, max_workers>>
vars == <<bodies, main, workers, reports, results, should_stop, g_should_stop, crashed>>

Stopping == should_stop \/ g_should_stop

-----------------------------------------------------------------------------
(***************************************************************************)
(* The thread of a worker: RecoveryWorker::work.                           *)
(***************************************************************************)
NewRecoveryWorker ==
    [state |-> "kStopped", kicked |-> FALSE, thread |-> "none",
     status |-> "Idle", batch |-> None, batch_id |-> 0, results |-> <<>>, step |-> "recover"]

SetWork(w, id, packages) ==
    Kick([w EXCEPT !.batch = packages, !.batch_id = id, !.status = "Working"])

\* The last package of each block, and the n-th of a set of numbers.
Ends(packages) == {i \in DOMAIN packages :
                     i = Len(packages) \/ packages[i].block # packages[i + 1].block}
Nth(S, n) == CHOOSE x \in S : Cardinality({y \in S : y <= x}) = n

\* One result per block of the batch: the number of senders recovered.
BlockResults(packages) ==
    LET End(n) == IF n = 0 THEN 0 ELSE Nth(Ends(packages), n)
    IN [n \in 1 .. Cardinality(Ends(packages)) |->
          [block |-> packages[End(n)].block, count |-> End(n) - End(n - 1)]]

\* The loop over the packages of a batch; it looks for a request to stop
\* whenever it comes to another block.
Recovered(w) ==
    LET lost == {i \in DOMAIN w.batch : w.batch[i].txn = "unrecoverable"}
        reached == {i \in DOMAIN w.batch : w.state = "kStopping" => w.batch[i].block = w.batch[1].block}
    IN CASE lost \cap reached # {} -> [w EXCEPT !.status = "Error"]
         [] reached # DOMAIN w.batch -> [w EXCEPT !.status = "Aborted"]
         [] OTHER -> [w EXCEPT !.results = BlockResults(w.batch), !.status = "ResultsReady"]

WorkerStep(i, place) ==
    /\ ~crashed
    /\ workers[i].thread = place
    /\ UNCHANGED <<bodies, main, results, should_stop, g_should_stop>>

Becomes(i, w) == workers' = [workers EXCEPT ![i] = w]

WorkerEnters(i) == /\ WorkerStep(i, "new")
                   /\ Becomes(i, Enter(workers[i]))
                   /\ UNCHANGED <<reports, crashed>>

WorkerForgetsKicks(i) == /\ WorkerStep(i, "entered")
                         /\ Becomes(i, ForgetKicks(workers[i]))
                         /\ UNCHANGED <<reports, crashed>>

WorkerWakes(i) == /\ WorkerStep(i, "waiting") /\ CanWake(workers[i])
                  /\ Becomes(i, [Wake(workers[i]) EXCEPT !.step = "recover"])
                  /\ UNCHANGED <<reports, crashed>>

WorkerRecovers(i) ==
    /\ WorkerStep(i, "working") /\ workers[i].step = "recover"
    /\ IF workers[i].batch = None
       THEN crashed' = TRUE /\ UNCHANGED workers
       ELSE /\ Becomes(i, [Recovered(workers[i]) EXCEPT !.step = "signal"])
            /\ UNCHANGED crashed
    /\ UNCHANGED reports

\* Mutant: workers report in the order in which they finish.
WorkerSignalsAtOnce(i) ==
    /\ WorkerStep(i, "working") /\ workers[i].step = "signal"
    /\ queue' = Append(queue, [worker |-> i, batch_id |-> workers[i].batch_id])
    /\ completed' = completed + 1
    /\ Becomes(i, [workers[i] EXCEPT !.step = "release"])
    /\ UNCHANGED crashed

\* Mutant: the turn is not passed on.
WorkerSignalsOnly(i) ==
    /\ WorkerStep(i, "working") /\ workers[i].step = "signal"
    /\ completed = workers[i].batch_id
    /\ queue' = Append(queue, [worker |-> i, batch_id |-> workers[i].batch_id])
    /\ Becomes(i, [workers[i] EXCEPT !.step = "release"])
    /\ UNCHANGED <<completed, crashed>>

\* signal_completed calls worker_completed_handler, on the worker's thread.
WorkerSignals(i) ==
    /\ WorkerStep(i, "working") /\ workers[i].step = "signal"
    /\ completed = workers[i].batch_id
    /\ queue' = Append(queue, [worker |-> i, batch_id |-> workers[i].batch_id])
    /\ completed' = completed + 1
    /\ Becomes(i, [workers[i] EXCEPT !.step = "release"])
    /\ UNCHANGED crashed

\* batch_.reset() comes after the signal.
WorkerReleasesBatch(i) ==
    /\ WorkerStep(i, "working") /\ workers[i].step = "release"
    /\ Becomes(i, WaitAgain([workers[i] EXCEPT !.batch = None]))
    /\ UNCHANGED <<reports, crashed>>

WorkerThread(i) ==
    \/ WorkerEnters(i) \/ WorkerForgetsKicks(i) \/ WorkerWakes(i)
    \/ WorkerRecovers(i) \/ WorkerSignals(i) \/ WorkerReleasesBatch(i)

-----------------------------------------------------------------------------
(***************************************************************************)
(* The main thread: RecoveryFarm::recover.                                 *)
(***************************************************************************)
Init ==
    /\ bodies \in BodiesTables
    /\ pc = "read" /\ cursor = 1 /\ expected = From
    /\ batch = <<>> /\ batch_id = 0 /\ renew = TRUE
    /\ ret = "Succeded" /\ joining = 1 /\ max_workers = MaxWorkers
    /\ workers = <<>> /\ queue = <<>> /\ completed = 0
    /\ header = From /\ collected = <<>> /\ senders = <<>>
    /\ should_stop = FALSE /\ g_should_stop = FALSE /\ crashed = FALSE

MainStep(from, to) == ~crashed /\ pc = from /\ pc' = to /\ UNCHANGED <<bodies, g_should_stop, crashed>>

Body_ == bodies[cursor]

\* The loop over table kBlockBodies ends: no more bodies, or a request to stop.
ReadEnds ==
    /\ MainStep("read", "dispatch")
    /\ cursor > Len(bodies) \/ Stopping
    /\ renew' = FALSE
    /\ UNCHANGED <<reader, batch, batch_id, ret, joining, pool, reports, results, should_stop>>

Reading == cursor <= Len(bodies) /\ ~Stopping

SkipNonCanonical ==
    /\ MainStep("read", "read")
    /\ Reading /\ (Body_.num < expected \/ (Body_.num = expected /\ ~Body_.canonical))
    /\ cursor' = cursor + 1
    /\ UNCHANGED <<expected, dispatcher, ret, joining, pool, reports, results, should_stop>>

\* recover returns at once, and its caller destroys the farm.
BadBlockSequence ==
    /\ MainStep("read", "destroy")
    /\ Reading /\ Body_.num > expected
    /\ ret' = "BadBlockSequence"
    /\ UNCHANGED <<reader, dispatcher, joining, pool, reports, results, should_stop>>

Overflows == Body_.txns # <<>> /\ Len(batch) + Len(Body_.txns) > MaxBatchSize

ReadCanonical ==
    /\ Reading /\ Body_.num = expected /\ Body_.canonical
    /\ MainStep("read", IF Overflows THEN "dispatch" ELSE "fill")
    /\ renew' = TRUE
    /\ UNCHANGED <<reader, batch, batch_id, ret, joining, pool, reports, results, should_stop>>

\* fill_batch succeeds, and the loop moves to the next block or ends.
FillBatch ==
    /\ pc = "fill"
    /\ \A i \in DOMAIN Body_.txns : Body_.txns[i] # "malformed"
    /\ batch' = batch \o [i \in DOMAIN Body_.txns |-> [block |-> Body_.num, txn |-> Body_.txns[i]]]
    /\ IF expected = To
       THEN /\ MainStep("fill", "dispatch") /\ renew' = FALSE
            /\ UNCHANGED reader
       ELSE /\ MainStep("fill", "read")
            /\ cursor' = cursor + 1 /\ expected' = expected + 1
            /\ UNCHANGED renew
    /\ UNCHANGED <<batch_id, ret, joining, pool, reports, results, should_stop>>

\* An exception is thrown; recover catches it and waits for the workers.
Throw(from) ==
    /\ MainStep(from, "wait")
    /\ ret' = "RecoveryError"
    /\ UNCHANGED <<reader, batch_id, renew, joining, max_workers, completed>>

FillBatchFails ==
    /\ Throw("fill")
    /\ \E i \in DOMAIN Body_.txns : Body_.txns[i] = "malformed"
    /\ UNCHANGED <<batch, workers, queue, results, should_stop>>

-----------------------------------------------------------------------------
(***************************************************************************)
(* dispatch_batch.                                                         *)
(***************************************************************************)
DispatchAborts ==
    /\ Throw("dispatch")
    /\ Stopping
    /\ batch' = <<>>
    /\ UNCHANGED <<workers, queue, results, should_stop>>

\* Where recover goes on when the batch was dispatched, or there is none.
Dispatched == IF renew THEN "fill" ELSE "wait"

DispatchNothing ==
    /\ MainStep("dispatch", Dispatched)
    /\ ~Stopping /\ batch = <<>>
    /\ UNCHANGED <<reader, dispatcher, ret, joining, pool, reports, results, should_stop>>

DispatchBatch ==
    /\ MainStep("dispatch", "find")
    /\ ~Stopping /\ batch # <<>>
    /\ UNCHANGED <<reader, dispatcher, ret, joining, pool, reports, results, should_stop>>

HasStatus(i, statuses) == i \in DOMAIN workers /\ workers[i].status \in statuses

\* Mutant: a worker that has not been asked for its results is idle as well.
FirstNotWorking(i) == /\ HasStatus(i, {"Idle", "ResultsReady"})
                      /\ \A j \in 1 .. i - 1 : ~HasStatus(j, {"Idle", "ResultsReady"})

FirstIdle(i) == HasStatus(i, {"Idle"}) /\ \A j \in 1 .. i - 1 : ~HasStatus(j, {"Idle"})

NoneIdle == \A i \in DOMAIN workers : ~HasStatus(i, {"Idle"})
SomeFinished == \E i \in DOMAIN workers : HasStatus(i, {"ResultsReady", "Error", "Aborted"})

FindIdle ==
    /\ MainStep("find", Dispatched)
    /\ \E i \in DOMAIN workers :
         FirstIdle(i) /\ workers' = [workers EXCEPT ![i] = SetWork(@, batch_id, batch)]
    /\ batch_id' = batch_id + 1
    /\ batch' = <<>>
    /\ UNCHANGED <<reader, renew, ret, joining, max_workers, reports, results, should_stop>>

FindFinished ==
    /\ MainStep("find", "bufferize")
    /\ NoneIdle /\ SomeFinished
    /\ UNCHANGED <<reader, dispatcher, ret, joining, pool, reports, results, should_stop>>

\* initialize_new_worker: for the first batch, or when nobody is available.
MayAddWorker == NoneIdle /\ ~SomeFinished /\ (workers = <<>> \/ Len(workers) # max_workers)

AddWorker ==
    /\ MainStep("find", "starting")
    /\ MayAddWorker
    /\ workers' = Append(workers, Start(NewRecoveryWorker))
    /\ UNCHANGED <<reader, dispatcher, ret, joining, max_workers, reports, results, should_stop>>

\* start waits until the thread has entered.
WorkerStarted ==
    /\ MainStep("starting", "find")
    /\ workers[Len(workers)].state = "kStarted"
    /\ UNCHANGED <<reader, dispatcher, ret, joining, pool, reports, results, should_stop>>

\* The buffer of the new worker cannot be allocated: fatal for the first one.
AddFirstWorkerFails ==
    /\ Throw("find")
    /\ StartFails /\ workers = <<>>
    /\ UNCHANGED <<batch, workers, queue, results, should_stop>>

AddWorkerFails ==
    /\ MainStep("find", "find")
    /\ StartFails /\ MayAddWorker /\ workers # <<>>
    /\ max_workers' = Len(workers)
    /\ UNCHANGED <<reader, dispatcher, ret, joining, workers, reports, results, should_stop>>

-----------------------------------------------------------------------------
(***************************************************************************)
(* bufferize_workers_results, called by dispatch_batch ("bufferize") and,  *)
(* with its result ignored, at the end of recover ("drain").               *)
(***************************************************************************)
Bufferized(from) == IF from = "bufferize" THEN "find" ELSE "load"

BufferizeNothing(from) ==
    /\ MainStep(from, Bufferized(from))
    /\ queue = <<>>
    /\ UNCHANGED <<reader, dispatcher, ret, joining, pool, reports, results, should_stop>>

Reporter == Head(queue).worker

\* Mutant: one header for all results of a batch.
RecordsUnderOneHeader(w) ==
    [n \in DOMAIN w.results |-> [block |-> w.results[n].block, hash |-> header, count |-> w.results[n].count]]
\* The records of the results of a worker, each under the next header.
Records(w) ==
    [n \in DOMAIN w.results |-> [block |-> w.results[n].block, hash |-> header + n - 1,
                                 count |-> w.results[n].count]]

\* The worker met an error or was told to stop.
ReporterFailed == HasStatus(Reporter, {"Error", "Aborted"})

BufferizeResults(from) ==
    /\ MainStep(from, IF Stopping THEN Bufferized(from) ELSE from)
    /\ queue # <<>> /\ ~ReporterFailed
    /\ queue' = Tail(queue)
    /\ IF HasStatus(Reporter, {"ResultsReady"})
       THEN LET w == workers[Reporter] IN
            /\ collected' = collected \o Records(w)
            /\ header' = header + Len(w.results)
            /\ workers' = [workers EXCEPT ![Reporter] = [w EXCEPT !.status = "Idle", !.results = <<>>]]
       ELSE UNCHANGED <<collected, header, workers>>
    /\ UNCHANGED <<reader, dispatcher, ret, joining, max_workers, completed, senders, should_stop>>

BufferizeFails ==
    /\ Throw("bufferize")
    /\ queue # <<>> /\ ReporterFailed
    /\ queue' = Tail(queue) /\ should_stop' = TRUE
    /\ UNCHANGED <<batch, workers, results>>

DrainFails ==
    /\ MainStep("drain", "load")
    /\ queue # <<>> /\ ReporterFailed
    /\ queue' = Tail(queue) /\ should_stop' = TRUE
    /\ UNCHANGED <<reader, dispatcher, ret, joining, pool, completed, results>>

-----------------------------------------------------------------------------
(***************************************************************************)
(* The end of recover, and the destructor of the farm.                     *)
(***************************************************************************)
WaitWorkersCompletion ==
    /\ MainStep("wait", IF ret = "Succeded" THEN "drain" ELSE "stop")
    /\ \A i \in DOMAIN workers : ~HasStatus(i, {"Working"})
    /\ UNCHANGED <<reader, dispatcher, ret, joining, pool, reports, results, should_stop>>

Load ==
    /\ MainStep("load", "stop")
    /\ senders' = IF collected # <<>> /\ ~Stopping THEN collected ELSE senders
    /\ UNCHANGED <<reader, dispatcher, ret, joining, pool, reports, header, collected, should_stop>>

\* stop_all_workers stops the workers one after the other and joins each.
StopWorker ==
    /\ MainStep("stop", "join")
    /\ joining <= Len(workers)
    /\ workers' = [workers EXCEPT ![joining] = Stop(@)]
    /\ UNCHANGED <<reader, dispatcher, ret, joining, max_workers, reports, results, should_stop>>

\* The destructors of the workers: the batch goes first, then Worker's part.
\* Other members that a running thread may still use are left in place.
DestroyWorker ==
    /\ MainStep("destroy", "destroyjoin")
    /\ joining <= Len(workers)
    /\ workers' = [workers EXCEPT ![joining] = Destroy([@ EXCEPT !.batch = None])]
    /\ UNCHANGED <<reader, dispatcher, ret, joining, max_workers, reports, results, should_stop>>

JoinWorker(from, to) ==
    /\ MainStep(from, to)
    /\ Joined(workers[joining])
    /\ joining' = joining + 1
    /\ UNCHANGED <<reader, dispatcher, ret, pool, reports, results, should_stop>>

Done(from) ==
    /\ MainStep(from, "done")
    /\ joining > Len(workers)
    /\ UNCHANGED <<reader, dispatcher, ret, joining, pool, reports, results, should_stop>>

Interrupt ==
    /\ Interrupts /\ ~g_should_stop /\ ~crashed /\ pc # "done"
    /\ g_should_stop' = TRUE
    /\ UNCHANGED <<bodies, main, workers, reports, results, should_stop, crashed>>

Read == ReadEnds \/ SkipNonCanonical \/ BadBlockSequence \/ ReadCanonical \/ FillBatch \/ FillBatchFails
Dispatch == \/ DispatchAborts \/ DispatchNothing \/ DispatchBatch \/ FindIdle \/ FindFinished
            \/ AddWorker \/ WorkerStarted \/ AddFirstWorkerFails \/ AddWorkerFails
Bufferize == \/ \E from \in {"bufferize", "drain"} : BufferizeNothing(from) \/ BufferizeResults(from)
             \/ BufferizeFails \/ DrainFails
Finish == \/ WaitWorkersCompletion \/ Load \/ StopWorker \/ DestroyWorker
          \/ JoinWorker("join", "stop") \/ JoinWorker("destroyjoin", "destroy")
          \/ Done("stop") \/ Done("destroy")

MainThread == Read \/ Dispatch \/ Bufferize \/ Finish

Next == \/ MainThread \/ Interrupt
        \/ \E i \in 1 .. MaxWorkers : i \in DOMAIN workers /\ WorkerThread(i)

\* Every thread that can run is run.
Fairness == /\ WF_vars(MainThread)
            /\ \A i \in 1 .. MaxWorkers : WF_vars(i \in DOMAIN workers /\ WorkerThread(i))

Spec == Init /\ [][Next]_vars /\ Fairness

-----------------------------------------------------------------------------
(***************************************************************************)
(* Correctness.                                                            *)
(***************************************************************************)

\* The canonical blocks with transactions.
Wanted(table) == {b \in Range(table) : b.canonical /\ b.txns # <<>> /\ b.num <= To}

\* Whatever the order in which the workers finish, the results are collected
\* in the order of the blocks: the n-th record has the senders of the n-th
\* block with transactions, without gap, and no block is split or doubled
\* (worker_completed_handler: "Ensure worker threads complete batches in the
\* same order they were launched").
CollectedInOrder ==
    \A n \in DOMAIN collected :
      \E b \in Wanted(bodies) : /\ collected[n].block = b.num /\ collected[n].count = Len(b.txns)
                                /\ Cardinality({c \in Wanted(bodies) : c.num <= b.num}) = n

\* A record is stored under the hash of its own block as long as every block before it has
\* transactions; each one that has none shifts the hash by one block, and nothing else does: not
\* the order of the workers, the size of the batches or the orphans of the table.
KeysSlipOnlyByEmptyBlocks ==
    \A n \in DOMAIN collected :
      LET empty == {b \in Range(bodies) : b.canonical /\ b.txns = <<>> /\ b.num < collected[n].block}
      IN collected[n].hash = collected[n].block - Cardinality(empty)

\* A worker that has reported keeps the results of the reported batch until
\* bufferize_workers_results has pulled them: no new work overwrites them.
ReportedResultsAreKept ==
    \A n \in DOMAIN queue :
      LET w == workers[queue[n].worker]
      IN /\ w.status \in {"ResultsReady", "Error", "Aborted"}
         /\ w.batch_id = queue[n].batch_id

\* A worker waits for a kick that nobody will give: it was told to work and
\* then cleared kicked_ while it started, or its destructor only joins it.
KickLost == \E i \in DOMAIN workers :
              /\ workers[i].thread = "waiting" /\ ~workers[i].kicked
              /\ workers[i].status = "Working" \/ pc = "destroyjoin"

\* Unless a kick is lost, or a worker dies of a batch that is gone, recover
\* returns and the farm is destroyed, interrupted or not.
RecoverReturns == ([]~KickLost) => <>(pc = "done" \/ crashed)

-----------------------------------------------------------------------------
(***************************************************************************)
(* What comments of the code say and the code does not do: TLC has a        *)
(* counterexample to each of these.                                        *)
(***************************************************************************)
\* A record of table kSenders is keyed by the number of its block and by the
\* hash of the same block (headers_: "Canonical headers", headers_it_2_: "For
\* buffer results"; read_senders looks it up under both).
KeyedByOwnHeader == \A n \in DOMAIN collected : collected[n].hash = collected[n].block

\* recover: "If everything ok from previous steps wait for all workers to
\* complete and bufferize results": when it succeeds and nobody interrupted
\* it, table kSenders has the senders of every block of the range.
SuccessIsComplete ==
    pc = "done" /\ ret = "Succeded" /\ ~g_should_stop => Len(senders) = Cardinality(Wanted(bodies))

\* dispatch_batch "Transfers ownership of batch to worker": the worker finds
\* the batch it was given.
BatchIsThere == ~crashed

\* wait_for_kick: "Returns True if the kick has been received and should go
\* ahead": a worker that set_work has kicked does the work.
KickedWorkerWorks ==
    LET Kicked(i) == i \in DOMAIN workers /\ workers[i].status = "Working"
    IN  \A i \in 1 .. MaxWorkers : Kicked(i) ~> (~Kicked(i) \/ crashed)

\* wait_for_kick: "otherwise False (i.e. the thread has been asked to stop)":
\* the destructor of a worker asks it to stop, and the thread ends.
DestructionEnds == (pc = "destroy") ~> (pc = "done" \/ crashed)

=============================================================================
