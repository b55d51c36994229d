---------------------------- MODULE IndexPipeline ----------------------------
(***************************************************************************)
(* The producer/consumer pipeline with which BlockIndexer copies blocks    *)
(* from the node into PostgreSQL: the indexer thread's main loop as far as *)
(* the pipeline needs it, index_chain_data_batch, thread_func_rpc_producer,*)
(* thread_func_db_consumer and stop().                                     *)
(*                                                                         *)
(* Four threads share data_queue (under queue_mutex), the atomics          *)
(* pending_batch_count, flag_producer_stopped, flag_consumer_failed and    *)
(* flag_reorg_suspected, the condition variables queue_cv and              *)
(* backpressure_cv, and their stop tokens.  A wait on a condition variable *)
(* is three steps (find the predicate false, go to sleep releasing the     *)
(* mutex, wake and take it again), because the code changes the atomics    *)
(* and notifies without holding the mutex.                                 *)
(*                                                                         *)
(* A block is its height: which block the node serves at a height, and     *)
(* reorganisations, are the subject of module BlockIndexer.                *)
(***************************************************************************)
EXTENDS Integers, Sequences

CONSTANTS ChainHeight,       \* bound: the highest tip the node reaches
          HeadersBatchSize,  \* HEADERS_BATCH_SIZE, blocks per call
          BatchSize,         \* get_recommended_batch_size(), blocks per sub-batch
          MaxQueueDepth,     \* max_queue_depth
          MaxRetries         \* MAX_RETRIES of a header fetch

ASSUME PipelineAssumption == /\ ChainHeight \in Nat \ {0}
                             /\ HeadersBatchSize \in Nat \ {0}
                             /\ BatchSize \in Nat \ {0}
                             /\ MaxQueueDepth \in Nat \ {0}
                             /\ MaxRetries \in Nat \ {0}

VARIABLES
    tip,               \* the node's block count
    db,                \* the heights in table blocks
    syncHeight,        \* sync_progress.last_indexed_height of row 'headers'
    progress,          \* progress_current_height
    queue,             \* data_queue
    pending,           \* pending_batch_count
    mutex,             \* who holds queue_mutex
    producerStopped,   \* flag_producer_stopped
    consumerFailed,    \* flag_consumer_failed
    reorgSuspected,    \* flag_reorg_suspected
    stop,              \* the stop token of each thread
    ipc, ppc, cpc, spc,\* where the indexer, producer, consumer and stop() are
    batchStart,        \* the producer's batch_start
    batchTo,           \* last height of the running call
    retries,           \* the producer's retry_count
    taken              \* the consumer's fetched_data_batch

dataVars     == <<tip, db, syncHeight, progress>>
queueVars    == <<queue, pending, mutex>>
flagVars     == <<producerStopped, consumerFailed, reorgSuspected>>
producerVars == <<batchStart, batchTo, retries>>
vars == <<dataVars, queueVars, flagVars, stop, ipc, ppc, cpc, spc,
          producerVars, taken>>

Threads == {"indexer", "producer", "consumer"}
Heights == 0..ChainHeight
Batches == [first : Heights, last : Heights]

Min(a, b) == IF a < b THEN a ELSE b

\* The heights a sub-batch holds.
HeightsOf(b) == b.first .. b.last

\* What stands in taken outside an iteration of the consumer's loop.
NoBatch == [first |-> 0, last |-> 0]

\* SELECT COALESCE(MAX(height), 0) FROM blocks
MaxIndexed == IF db = {} THEN 0 ELSE CHOOSE h \in db : \A k \in db : k <= h

\* Mutant: resume from the sync_progress checkpoint.
ResumeAtCheckpoint == IF syncHeight = 0 THEN 0 ELSE syncHeight + 1

\* Where the main loop resumes: height 0 is taken to mean an empty table.
Resume == IF MaxIndexed = 0 THEN 0 ELSE MaxIndexed + 1

\* The sub-batch the producer is fetching.
Fetched == [first |-> batchStart,
            last  |-> Min(batchStart + BatchSize - 1, batchTo)]

Init == /\ tip = 1
        /\ db = {}
        /\ syncHeight = 0 /\ progress = 0
        /\ queue = << >> /\ pending = 0 /\ mutex = "free"
        /\ producerStopped = FALSE /\ consumerFailed = FALSE
        /\ reorgSuspected = FALSE
        /\ stop = [t \in Threads |-> FALSE]
        /\ ipc = "loop" /\ ppc = "none" /\ cpc = "none" /\ spc = "running"
        /\ batchStart = 0 /\ batchTo = 0 /\ retries = 0
        /\ taken = NoBatch

-----------------------------------------------------------------------------
(* The node.                                                               *)

\* The tip is read at the top of the main loop only, so what is mined while a
\* call runs may as well be mined just before that.
NodeMines == /\ tip < ChainHeight /\ ipc = "loop"
             /\ tip' = tip + 1
             /\ UNCHANGED <<db, syncHeight, progress, queueVars, flagVars, stop,
                            ipc, ppc, cpc, spc, producerVars, taken>>

-----------------------------------------------------------------------------
(* Condition variables.  notify wakes a thread that is asleep; a           *)
(* notification nobody waits for is lost.                                  *)

Notified(pc) == IF pc = "asleep" THEN "woken" ELSE pc

\* The standard lets a wait return without a notification.
SpuriousWakeup == /\ \/ /\ ppc = "asleep" /\ ppc' = "woken" /\ UNCHANGED cpc
                     \/ /\ cpc = "asleep" /\ cpc' = "woken" /\ UNCHANGED ppc
                  /\ UNCHANGED <<dataVars, queueVars, flagVars, stop, ipc, spc,
                                 producerVars, taken>>

-----------------------------------------------------------------------------
(* The indexer thread.                                                     *)

Idle == {"none", "done"}

\* Top of the main loop: read both heights and choose the next call's range.
IReadHeights ==
    /\ ipc = "loop" /\ ~stop["indexer"]
    /\ MaxIndexed < tip
    /\ progress' = MaxIndexed
    /\ batchStart' = Resume
    /\ batchTo' = Min(Resume - 1 + HeadersBatchSize, tip)
    /\ ipc' = "batch"
    /\ UNCHANGED <<tip, db, syncHeight, queueVars, flagVars, stop, ppc, cpc, spc,
                   retries, taken>>

\* Caught up: the status row is set to "completed" (the write may fail).
ICompleted ==
    /\ ipc = "loop" /\ ~stop["indexer"]
    /\ MaxIndexed >= tip
    /\ progress' = MaxIndexed
    /\ syncHeight' \in {syncHeight, MaxIndexed}
    /\ UNCHANGED <<tip, db, queueVars, flagVars, stop, ipc, ppc, cpc, spc,
                   producerVars, taken>>

\* Mutant: what a failed call left in the queue stays there.
KeepQueue == UNCHANGED queue /\ pending' = 0

ResetQueue == queue' = << >> /\ pending' = 0

\* index_chain_data_batch resets the shared state.
IStartBatch ==
    /\ ipc = "batch" /\ ~stop["indexer"]
    /\ ResetQueue
    /\ producerStopped' = FALSE /\ consumerFailed' = FALSE
    /\ reorgSuspected' = FALSE
    /\ ipc' = "spawnProducer"
    /\ UNCHANGED <<dataVars, mutex, stop, ppc, cpc, spc, producerVars, taken>>

\* ... or refuses because a stop was requested; the main loop reports it.
IRefuseBatch ==
    /\ ipc = "batch" /\ stop["indexer"]
    /\ reorgSuspected' = FALSE
    /\ syncHeight' \in IF reorgSuspected THEN {syncHeight} ELSE {syncHeight, progress}
    /\ ipc' = "loop"
    /\ UNCHANGED <<tip, db, progress, queueVars, producerStopped, consumerFailed,
                   stop, ppc, cpc, spc, producerVars, taken>>

\* A new jthread brings a new stop token.
ISpawnProducer ==
    /\ ipc = "spawnProducer"
    /\ ipc' = "spawnConsumer"
    /\ ppc' = "loop"
    /\ stop' = [stop EXCEPT !["producer"] = FALSE]
    /\ UNCHANGED <<dataVars, queueVars, flagVars, cpc, spc, producerVars, taken>>

ISpawnConsumer ==
    /\ ipc = "spawnConsumer"
    /\ ipc' = "join"
    /\ cpc' = "loop"
    /\ stop' = [stop EXCEPT !["consumer"] = FALSE]
    /\ UNCHANGED <<dataVars, queueVars, flagVars, ppc, spc, producerVars, taken>>

\* Both threads joined: the main loop writes the status row, except when the
\* call failed on a suspected reorg, which it only clears.
IReturn ==
    /\ ipc = "join" /\ ppc = "done" /\ cpc = "done"
    /\ IF consumerFailed /\ reorgSuspected
       THEN reorgSuspected' = FALSE /\ UNCHANGED syncHeight
       ELSE syncHeight' \in {syncHeight, progress} /\ UNCHANGED reorgSuspected
    /\ ipc' = "loop"
    /\ UNCHANGED <<tip, db, progress, queueVars, producerStopped, consumerFailed,
                   stop, ppc, cpc, spc, producerVars, taken>>

IExit == /\ ipc = "loop" /\ stop["indexer"]
         /\ ipc' = "exited"
         /\ UNCHANGED <<dataVars, queueVars, flagVars, stop, ppc, cpc, spc,
                        producerVars, taken>>

Indexer == \/ IReadHeights \/ ICompleted \/ IStartBatch \/ IRefuseBatch
           \/ ISpawnProducer \/ ISpawnConsumer \/ IReturn \/ IExit

-----------------------------------------------------------------------------
(* The RPC producer.                                                       *)

PLoop == /\ ppc = "loop"
         /\ ppc' = IF batchStart <= batchTo /\ ~stop["producer"]
                   THEN "headers" ELSE "finish"
         /\ retries' = 0
         /\ UNCHANGED <<dataVars, queueVars, flagVars, stop, ipc, cpc, spc,
                        batchStart, batchTo, taken>>

\* All the headers arrived; a stop requested meanwhile is noticed here.
PHeadersFetched ==
    /\ ppc = "headers"
    /\ ppc' = IF stop["producer"] THEN "finish" ELSE "coinbase"
    /\ retries' = 0
    /\ UNCHANGED <<dataVars, queueVars, flagVars, stop, ipc, cpc, spc,
                   batchStart, batchTo, taken>>

GiveUp == stop["producer"] \/ retries + 1 = MaxRetries

\* A short answer is retried, at most MaxRetries times in all; an exception ends
\* the producer at once.
PHeadersShort ==
    /\ ppc = "headers"
    /\ retries' = retries + 1
    /\ ppc' \in IF GiveUp THEN {"finish"} ELSE {"headers", "finish"}
    /\ UNCHANGED <<dataVars, queueVars, flagVars, stop, ipc, cpc, spc,
                   batchStart, batchTo, taken>>

\* The coinbase fetch is retried too, but only an exception is a failure of it.
PCoinbase ==
    /\ ppc = "coinbase"
    /\ ppc' \in IF stop["producer"] THEN {"finish"} ELSE {"lock", "finish"}
    /\ UNCHANGED <<dataVars, queueVars, flagVars, stop, ipc, cpc, spc,
                   producerVars, taken>>

\* Mutant: <= for <.
RoomForOneMore == pending <= MaxQueueDepth \/ stop["producer"] \/ consumerFailed

\* The predicate of the backpressure wait.
Room == pending < MaxQueueDepth \/ stop["producer"] \/ consumerFailed

PRoom == /\ ppc \in {"lock", "woken"} /\ mutex = "free"
         /\ Room
         /\ ppc' = "room"
         /\ UNCHANGED <<dataVars, queueVars, flagVars, stop, ipc, cpc, spc,
                        producerVars, taken>>

PFull == /\ ppc \in {"lock", "woken"} /\ mutex = "free"
         /\ ~Room
         /\ mutex' = "producer" /\ ppc' = "block"
         /\ UNCHANGED <<dataVars, queue, pending, flagVars, stop, ipc, cpc, spc,
                        producerVars, taken>>

PSleep == /\ ppc = "block"
          /\ mutex' = "free" /\ ppc' = "asleep"
          /\ UNCHANGED <<dataVars, queue, pending, flagVars, stop, ipc, cpc, spc,
                         producerVars, taken>>

PCheckStop == /\ ppc = "room"
              /\ ppc' = IF stop["producer"] THEN "finish" ELSE "alive"
              /\ UNCHANGED <<dataVars, queueVars, flagVars, stop, ipc, cpc, spc,
                             producerVars, taken>>

PCheckConsumer == /\ ppc = "alive"
                  /\ ppc' = IF consumerFailed THEN "finish" ELSE "push"
                  /\ UNCHANGED <<dataVars, queueVars, flagVars, stop, ipc, cpc,
                                 spc, producerVars, taken>>

PPush == /\ ppc = "push" /\ mutex = "free"
         /\ queue' = Append(queue, Fetched)
         /\ ppc' = "count"
         /\ UNCHANGED <<dataVars, pending, mutex, flagVars, stop, ipc, cpc, spc,
                        producerVars, taken>>

PCount == /\ ppc = "count"
          /\ pending' = pending + 1
          /\ ppc' = "notify"
          /\ UNCHANGED <<dataVars, queue, mutex, flagVars, stop, ipc, cpc, spc,
                         producerVars, taken>>

\* Mutant: the count is compared with what it was before the sub-batch.
FirstQueuedBefore == pending = 0

\* The queue was empty before.
FirstQueued == pending = 1

\* Mutant: advance by a batch size that has grown meanwhile.
AdvancedTooFar == batchStart + BatchSize + 1

Advanced == batchStart + BatchSize

PNotify == /\ ppc = "notify"
           /\ cpc' = IF FirstQueued THEN Notified(cpc) ELSE cpc
           /\ batchStart' = Advanced
           /\ ppc' = "loop"
           /\ UNCHANGED <<dataVars, queueVars, flagVars, stop, ipc, spc, batchTo,
                          retries, taken>>

PFinish == /\ ppc = "finish"
           /\ producerStopped' = TRUE
           /\ ppc' = "signal"
           /\ UNCHANGED <<dataVars, queueVars, consumerFailed, reorgSuspected,
                          stop, ipc, cpc, spc, producerVars, taken>>

PSignal == /\ ppc = "signal"
           /\ cpc' = Notified(cpc)
           /\ ppc' = "done"
           /\ UNCHANGED <<dataVars, queueVars, flagVars, stop, ipc, spc,
                          producerVars, taken>>

Producer == \/ PLoop \/ PHeadersFetched \/ PHeadersShort \/ PCoinbase
            \/ PRoom \/ PFull \/ PSleep \/ PCheckStop \/ PCheckConsumer
            \/ PPush \/ PCount \/ PNotify \/ PFinish \/ PSignal

-----------------------------------------------------------------------------
(* The DB consumer.                                                        *)

CLoop == /\ cpc = "loop"
         /\ cpc' = IF stop["consumer"] THEN "exit" ELSE "lock"
         /\ UNCHANGED <<dataVars, queueVars, flagVars, stop, ipc, ppc, spc,
                        producerVars, taken>>

CTake == /\ cpc \in {"lock", "woken"} /\ mutex = "free"
         /\ queue # << >>
         /\ taken' = Head(queue) /\ queue' = Tail(queue)
         /\ cpc' = "popped"
         /\ UNCHANGED <<dataVars, pending, mutex, flagVars, stop, ipc, ppc, spc,
                        producerVars>>

\* Mutant: the end of the producer is looked at before the queue.
EndedFirst == producerStopped \/ stop["consumer"]

Ended == queue = << >> /\ (producerStopped \/ stop["consumer"])

CNoMore == /\ cpc \in {"lock", "woken"} /\ mutex = "free"
           /\ Ended
           /\ cpc' = "exit"
           /\ UNCHANGED <<dataVars, queueVars, flagVars, stop, ipc, ppc, spc,
                          producerVars, taken>>

CEmpty == /\ cpc \in {"lock", "woken"} /\ mutex = "free"
          /\ queue = << >> /\ ~Ended
          /\ mutex' = "consumer" /\ cpc' = "block"
          /\ UNCHANGED <<dataVars, queue, pending, flagVars, stop, ipc, ppc, spc,
                         producerVars, taken>>

CSleep == /\ cpc = "block"
          /\ mutex' = "free" /\ cpc' = "asleep"
          /\ UNCHANGED <<dataVars, queue, pending, flagVars, stop, ipc, ppc, spc,
                         producerVars, taken>>

\* Mutant: notify only when the queue was full.
RelievesFull == pending = MaxQueueDepth

Relieves == pending - 1 < MaxQueueDepth

CCount == /\ cpc = "popped"
          /\ pending' = pending - 1
          /\ cpc' = IF Relieves THEN "relieve" ELSE "copy"
          /\ UNCHANGED <<dataVars, queue, mutex, flagVars, stop, ipc, ppc, spc,
                         producerVars, taken>>

CRelieve == /\ cpc = "relieve"
            /\ ppc' = Notified(ppc)
            /\ cpc' = "copy"
            /\ UNCHANGED <<dataVars, queueVars, flagVars, stop, ipc, spc,
                           producerVars, taken>>

\* The sub-batch's blocks are new to the table (PRIMARY KEY (height)).
Fresh == HeightsOf(taken) \cap db = {}

\* One transaction copies the sub-batch and commits.  The server may commit
\* and the connection fail before the client learns of it.
CCommit == /\ cpc = "copy" /\ Fresh
           /\ db' = db \union HeightsOf(taken)
           /\ cpc' \in {"report", "fail"}
           /\ UNCHANGED <<tip, syncHeight, progress, queueVars, flagVars, stop,
                          ipc, ppc, spc, producerVars, taken>>

\* A key is already there: the height (not Fresh), or a txid that a block of an
\* abandoned fork still holds.
CDuplicate == /\ cpc = "copy"
              /\ reorgSuspected' = TRUE
              /\ cpc' = "fail"
              /\ UNCHANGED <<dataVars, queueVars, producerStopped, consumerFailed,
                             stop, ipc, ppc, spc, producerVars, taken>>

\* Anything else that aborts the COPY: a bad hash, no connection, an error.
CAbort == /\ cpc = "copy"
          /\ cpc' = "fail"
          /\ UNCHANGED <<dataVars, queueVars, flagVars, stop, ipc, ppc, spc,
                         producerVars, taken>>

\* Mutant: report the next height instead of the last committed one.
ReportedNext == taken.last + 1

Reported == taken.last

CReport == /\ cpc = "report"
           /\ progress' = Reported
           /\ taken' = NoBatch
           /\ cpc' = "loop"
           /\ UNCHANGED <<tip, db, syncHeight, queueVars, flagVars, stop, ipc,
                          ppc, spc, producerVars>>

CFail == /\ cpc = "fail"
         /\ consumerFailed' = TRUE
         /\ taken' = NoBatch
         /\ cpc' = "exit"
         /\ UNCHANGED <<dataVars, queueVars, producerStopped, reorgSuspected,
                        stop, ipc, ppc, spc, producerVars>>

\* Every way out notifies backpressure_cv.
CExit == /\ cpc = "exit"
         /\ ppc' = Notified(ppc)
         /\ cpc' = "done"
         /\ UNCHANGED <<dataVars, queueVars, flagVars, stop, ipc, spc,
                        producerVars, taken>>

Consumer == \/ CLoop \/ CTake \/ CNoMore \/ CEmpty \/ CSleep \/ CCount
            \/ CRelieve \/ CCommit \/ CDuplicate \/ CAbort \/ CReport
            \/ CFail \/ CExit

-----------------------------------------------------------------------------
(* BlockIndexer::stop(), called once from main.                            *)

\* request_stop() acts on the jthread the member holds now: none yet, the one
\* running, or the finished one of an earlier call.
RequestStop(thread, from, to) ==
    /\ spc = from /\ spc' = to
    /\ stop' = [stop EXCEPT ![thread] = TRUE]
    /\ UNCHANGED <<dataVars, queueVars, flagVars, ipc, ppc, cpc, producerVars,
                   taken>>

SRequest == \/ RequestStop("indexer", "running", "producer")
            \/ RequestStop("producer", "producer", "consumer")
            \/ RequestStop("consumer", "consumer", "wakeConsumer")

SWakeConsumer == /\ spc = "wakeConsumer" /\ spc' = "wakeProducer"
                 /\ cpc' = Notified(cpc)
                 /\ UNCHANGED <<dataVars, queueVars, flagVars, stop, ipc, ppc,
                                producerVars, taken>>

SWakeProducer == /\ spc = "wakeProducer" /\ spc' = "join"
                 /\ ppc' = Notified(ppc)
                 /\ UNCHANGED <<dataVars, queueVars, flagVars, stop, ipc, cpc,
                                producerVars, taken>>

SJoin == /\ spc = "join" /\ ipc = "exited"
         /\ spc' = "stopped"
         /\ UNCHANGED <<dataVars, queueVars, flagVars, stop, ipc, ppc, cpc,
                        producerVars, taken>>

Stopper == SRequest \/ SWakeConsumer \/ SWakeProducer \/ SJoin

-----------------------------------------------------------------------------

Next == \/ NodeMines \/ SpuriousWakeup
        \/ Indexer \/ Producer \/ Consumer \/ Stopper

Spec == Init /\ [][Next]_vars

\* The threads are scheduled, and spurious wakeups do not go on for ever (they
\* could keep the mutex busy each time another thread wants it).  Nothing is
\* assumed of the node or of when stop() is called, only that a stop() once begun
\* runs on.
FairSpec == /\ Spec
            /\ <>[][~SpuriousWakeup]_vars
            /\ WF_vars(Indexer)
            /\ WF_vars(Producer)
            /\ WF_vars(Consumer)
            /\ WF_vars(Stopper /\ spc # "running")

-----------------------------------------------------------------------------
(* Properties.                                                             *)

DataTypes == /\ tip \in Heights /\ db \subseteq Heights
             /\ syncHeight \in Heights /\ progress \in Heights
             /\ batchStart \in Nat /\ batchTo \in Heights
             /\ retries \in 0..MaxRetries

QueueTypes == /\ queue \in Seq(Batches) /\ pending \in Int
              /\ taken \in Batches

FlagTypes == /\ producerStopped \in BOOLEAN /\ consumerFailed \in BOOLEAN
             /\ reorgSuspected \in BOOLEAN
             /\ stop \in [Threads -> BOOLEAN]

ControlTypes ==
    /\ mutex \in {"free", "producer", "consumer"}
    /\ ipc \in {"loop", "batch", "spawnProducer", "spawnConsumer", "join", "exited"}
    /\ ppc \in {"none", "loop", "headers", "coinbase", "lock", "block", "asleep",
                "woken", "room", "alive", "push", "count", "notify", "finish",
                "signal", "done"}
    /\ cpc \in {"none", "loop", "lock", "block", "asleep", "woken", "popped",
                "relieve", "copy", "report", "fail", "exit", "done"}
    /\ spc \in {"running", "producer", "consumer", "wakeConsumer", "wakeProducer",
                "join", "stopped"}

TypeOK == DataTypes /\ QueueTypes /\ FlagTypes /\ ControlTypes

\* Backpressure: although the count is kept outside the mutex and lags the
\* queue, no more than max_queue_depth sub-batches are ever queued.
QueueBounded == Len(queue) <= MaxQueueDepth

\* Table blocks has no gap.  The indexer resumes from MAX(height) alone, so a
\* height skipped by a lost, repeated or reordered sub-batch would never be
\* indexed.
NoGap == \A h \in db : 0..h \subseteq db

\* The notification that is sent only when the count is 1 is never the one
\* that was needed: a consumer asleep beside a non-empty queue has the
\* producer's notification still coming.
NoLostDataWakeup ==
    cpc = "asleep" /\ queue # << >> => ppc \in {"count", "notify"}

\* Neither the progress reported to clients nor the persisted pointer is ever
\* ahead of the blocks actually committed.
ProgressCommitted == progress <= MaxIndexed /\ syncHeight <= MaxIndexed

\* The table grows by one sub-batch at a time, just above its top, and in no other
\* way: a consumer failure, a lost connection or a stop leaves it as it was or
\* with the whole next sub-batch.
Table == INSTANCE BlocksTable WITH rows <- db, flushed <- {},
                                   Limit <- ChainHeight,
                                   MaxAppend <- BatchSize, MaxRollback <- 0
TableAppendOnly == Table!AppendOnly

\* "Report the consumer's outcome to the caller so it never advances the sync
\* pointer past a batch that failed to fully commit": a call that is about to
\* return success has committed all that its producer fetched.
SuccessMeansCommitted ==
    ipc = "join" /\ ppc = "done" /\ cpc = "done" /\ ~consumerFailed
        /\ ~stop["consumer"]
    => queue = << >> /\ 0..Min(batchStart - 1, batchTo) \subseteq db

\* No committed height is COPYed again (BlockIndexer.cc: "would ... re-COPY
\* already-committed blocks (PK violations)").
NoReCopy == cpc = "copy" => Fresh

\* A sub-batch that was queued does not wait for ever: the consumer takes it
\* unless it failed or was told to stop.
QueueServed == queue # << >> ~> \/ queue = << >> \/ consumerFailed
                                \/ stop["consumer"]

\* A producer held back by a full queue goes on as long as there is a consumer:
\* "Signal when space becomes available in queue".  (Not with max_queue_depth
\* = 1: the one notification can come between the producer's test and its wait.)
HeldBack == ppc \in {"block", "asleep", "woken"}
BackpressureReleased == HeldBack ~> ~HeldBack \/ cpc \in {"exit", "done"}

\* "Wake up consumer in case it's waiting": when the producer has finished, the
\* consumer finishes too, without the help of stop().
ConsumerSeesProducerEnd ==
    ppc = "done" /\ ipc = "join" ~> cpc = "done" \/ spc # "running"

\* "ensure producer is never left blocked on backpressure_cv after consumer
\* exit": when the consumer has finished, the producer finishes too.
ProducerSeesConsumerEnd ==
    cpc = "done" /\ ipc = "join" ~> ppc = "done" \/ spc # "running"

\* "Wake up threads waiting on condition variables": stop() completes.
StopCompletes == spc = "producer" ~> spc = "stopped"

\* The three notifications sent without queue_mutex, at the two ends and by stop(),
\* reach the threads they are meant for.
WakeUpsArrive == ConsumerSeesProducerEnd /\ ProducerSeesConsumerEnd /\ StopCompletes
=============================================================================
