------------------------- MODULE IndexPipelineProofs -------------------------
(***************************************************************************)
(* Proofs about IndexPipeline, for every value of its constants.           *)
(*                                                                         *)
(* The inductive invariant IInv says who is running when, who holds the    *)
(* mutex, how the count of sub-batches lags the queue, and that what is    *)
(* committed, taken, queued and still to be fetched are consecutive pieces *)
(* of the call's range.                                                    *)
(***************************************************************************)
EXTENDS IndexPipeline, SequenceTheorems, TLAPS

\* Producer and consumer run only between their creation and their join.
ThreadsIdle ==
    /\ ipc \in {"loop", "batch", "spawnProducer", "exited"} => ppc \in Idle
    /\ ipc # "join" => cpc \in Idle

\* A thread holds the mutex between the test of its predicate and its wait.
MutexHeld == /\ mutex = "producer" <=> ppc = "block"
             /\ mutex = "consumer" <=> cpc = "block"

\* The count lags the queue by the sub-batch just pushed or just popped.
Counted == pending = Len(queue) - (IF ppc = "count" THEN 1 ELSE 0)
                                + (IF cpc = "popped" THEN 1 ELSE 0)

\* What the producer found in its predicate still holds when it pushes.
RoomFound ==
    /\ ppc = "room" => Room
    /\ ppc = "alive" => pending < MaxQueueDepth \/ consumerFailed
    /\ ppc = "push" => pending < MaxQueueDepth

\* A consumer about to wait has seen the queue empty; while it sleeps one
\* sub-batch may come, whose producer is about to notify it.
SleepsOnEmpty ==
    /\ cpc = "block" => queue = << >>
    /\ cpc = "asleep" => \/ queue = << >>
                         \/ Len(queue) = 1 /\ ppc \in {"count", "notify"}

\* The first height not queued yet, not taken yet, not committed yet.
NextFetch == IF ppc \in {"count", "notify"} THEN Advanced ELSE batchStart
NextTake == IF queue = << >> THEN NextFetch ELSE queue[1].first
NextCommit == IF cpc \in {"popped", "relieve", "copy"} THEN taken.first ELSE NextTake

Running == ipc \in {"spawnProducer", "spawnConsumer", "join"}

\* A sub-batch of the call's range.
IsSubBatch(b) == /\ b.first <= batchTo
                 /\ b.last = Min(b.first + BatchSize - 1, batchTo)

\* The producer works on a height of the range until it finishes.
Fetching ==
    ppc \in {"headers", "coinbase", "lock", "block", "asleep", "woken", "room",
             "alive", "push", "count", "notify"} => batchStart <= batchTo

\* A fetch is under way only while attempts are left.
RetriesLeft == ppc = "headers" => retries < MaxRetries

\* The queued sub-batches follow each other and the producer follows them.
QueueInOrder ==
    Running => /\ \A i \in 1..Len(queue) : IsSubBatch(queue[i])
               /\ \A i \in 1..Len(queue) - 1 :
                      queue[i + 1].first = queue[i].first + BatchSize
               /\ queue # << >> => queue[Len(queue)].first + BatchSize = NextFetch

\* The sub-batch the consumer took comes just before the queue.
TakenInOrder ==
    cpc \in {"popped", "relieve", "copy"} => /\ IsSubBatch(taken)
                                             /\ taken.first + BatchSize = NextTake

\* The table has no gap.
Prefix == db = {} \/ \E n \in Heights : db = 0..n

\* The table is ready for height h; 0 is fetched again when only it is there.
Follows(h) == db = 0..(h - 1) \/ (h = 0 /\ db = {0})

\* Everything of the call's range below h is committed.
Reached(h) == IF h <= batchTo THEN Follows(h) ELSE 0..batchTo \subseteq db

\* As long as the consumer has not failed or stopped, what it commits next is
\* what the table is ready for.
Frontier ==
    /\ ipc = "batch" => batchStart <= batchTo /\ Follows(batchStart)
    /\ Running /\ cpc \notin {"fail", "exit", "done"} => Reached(NextCommit)
    /\ ipc \in {"spawnProducer", "spawnConsumer"} => Reached(NextTake)

\* How a call ends.
Ending ==
    /\ ipc = "spawnProducer" => ~producerStopped
    /\ Running /\ producerStopped => ppc \in {"signal", "done"}
    /\ ipc = "join" /\ cpc \in {"exit", "done"} =>
           \/ consumerFailed \/ stop["consumer"]
           \/ producerStopped /\ queue = << >> /\ Reached(batchStart)

\* What is reported has been committed.
ReportedCommitted == /\ progress = 0 \/ progress \in db
                     /\ syncHeight = 0 \/ syncHeight \in db
                     /\ cpc = "report" => taken.last \in db

IInv == /\ TypeOK /\ ThreadsIdle /\ MutexHeld /\ Counted /\ RoomFound
        /\ QueueBounded /\ SleepsOnEmpty /\ Fetching /\ RetriesLeft
        /\ QueueInOrder /\ TakenInOrder /\ Prefix /\ Frontier /\ Ending /\ ReportedCommitted

-----------------------------------------------------------------------------
(* Lemmas about the operators.                                             *)

USE PipelineAssumption

\* What is left of a queue when its first element is taken.
LEMMA TailOfQueue ==
    ASSUME NEW S, NEW s \in Seq(S), s # << >>
    PROVE  \/ Len(s) = 1 /\ Tail(s) = << >>
           \/ Len(s) > 1 /\ Tail(s) # << >> /\ Tail(s)[1] = s[2]
<1>1. Len(s) \in Nat /\ Len(s) # 0 /\ Tail(s) \in Seq(S) /\ Len(Tail(s)) = Len(s) - 1
  OBVIOUS
<1>2. CASE Len(s) = 1
  <2>1. Len(Tail(s)) = 0
    BY <1>1, <1>2
  <2> QED  BY <1>1, <1>2, <2>1, EmptySeq
<1>3. CASE Len(s) # 1
  <2>1. Len(s) > 1
    BY <1>1, <1>3
  <2>2. Tail(s)[1] = s[2]
    BY <2>1
  <2>3. Tail(s) # << >>
    <3>1. Len(Tail(s)) # 0
      BY <1>1, <2>1
    <3> QED  BY <3>1, EmptySeq
  <2> QED  BY <2>1, <2>2, <2>3
<1> QED  BY <1>2, <1>3

\* Without gaps, MAX(height) is the top of the table.
LEMMA MaxIndexedTop ==
    ASSUME Prefix
    PROVE  \/ db = {} /\ MaxIndexed = 0
           \/ MaxIndexed \in Heights /\ db = 0..MaxIndexed
<1>1. CASE db = {}
  BY <1>1 DEF MaxIndexed
<1>2. CASE \E n \in Heights : db = 0..n
  <2>1. PICK n \in Heights : db = 0..n
    BY <1>2
  <2>2. n \in db /\ \A k \in db : k <= n
    BY <2>1 DEF Heights
  <2>3. MaxIndexed \in db /\ \A k \in db : k <= MaxIndexed
    BY <2>2 DEF MaxIndexed
  <2>4. MaxIndexed = n
    BY <2>1, <2>2, <2>3 DEF Heights
  <2> QED  BY <2>1, <2>4
<1> QED  BY <1>1, <1>2 DEF Prefix

\* The call's range starts where the table ends.
LEMMA ResumeFollows ==
    ASSUME Prefix, tip \in Heights, MaxIndexed < tip
    PROVE  /\ Resume \in Heights /\ Follows(Resume)
           /\ Resume <= Min(Resume - 1 + HeadersBatchSize, tip)
           /\ Min(Resume - 1 + HeadersBatchSize, tip) \in Heights
<1>1. CASE db = {}
  BY <1>1, MaxIndexedTop DEF Resume, Follows, Min, Heights
<1>2. CASE MaxIndexed \in Heights /\ db = 0..MaxIndexed
  BY <1>2 DEF Resume, Follows, Min, Heights
<1> QED  BY <1>1, <1>2, MaxIndexedTop

\* What the producer is fetching is a sub-batch of the range.
LEMMA FetchedIsSubBatch ==
    ASSUME batchStart \in Nat, batchTo \in Heights, batchStart <= batchTo
    PROVE  Fetched \in Batches /\ IsSubBatch(Fetched) /\ Fetched.first = batchStart
  BY DEF Fetched, Batches, IsSubBatch, Min, Heights

\* MAX(height) is a height.
LEMMA MaxIndexedType ==
    ASSUME Prefix
    PROVE  MaxIndexed \in Heights /\ (MaxIndexed = 0 \/ MaxIndexed \in db)
  BY MaxIndexedTop DEF Heights

-----------------------------------------------------------------------------
(* The invariant holds initially.                                          *)

\* Nothing runs and nothing is stored before start().
LEMMA InitInv == Init => IInv
<1> SUFFICES ASSUME Init PROVE IInv
  OBVIOUS
<1>1. DataTypes /\ QueueTypes /\ ControlTypes
  BY DEF Init, DataTypes, QueueTypes, ControlTypes, Heights, Batches, NoBatch
<1>2. FlagTypes
  BY Zenon DEF Init, FlagTypes, Threads
<1>3. ThreadsIdle /\ MutexHeld /\ Counted /\ RoomFound /\ QueueBounded
  BY DEF Init, ThreadsIdle, MutexHeld, Counted, RoomFound, QueueBounded, Idle
<1>4. SleepsOnEmpty /\ Fetching /\ RetriesLeft /\ QueueInOrder /\ TakenInOrder /\ Prefix
  BY DEF Init, SleepsOnEmpty, Fetching, RetriesLeft, QueueInOrder, TakenInOrder, Prefix, Running
<1>5. Frontier /\ Ending /\ ReportedCommitted
  BY DEF Init, Frontier, Ending, ReportedCommitted, Running
<1> QED  BY <1>1, <1>2, <1>3, <1>4, <1>5 DEF IInv, TypeOK

-----------------------------------------------------------------------------
(* Every step preserves it, conjunct by conjunct.                          *)

\* Flags and stop tokens stay Boolean.
LEMMA FlagTypesStep == FlagTypes /\ [Next]_vars => FlagTypes'
<1> SUFFICES ASSUME FlagTypes, [Next]_vars PROVE FlagTypes'
  OBVIOUS
<1> USE DEF FlagTypes
<1>1. CASE UNCHANGED <<flagVars, stop>>
  BY <1>1 DEF flagVars
<1>2. CASE IStartBatch
  BY Zenon, <1>2 DEF IStartBatch
<1>3. CASE IRefuseBatch
  BY Zenon, <1>3 DEF IRefuseBatch
<1>4. CASE IReturn
  BY Zenon, <1>4 DEF IReturn
<1>5. CASE PFinish
  BY Zenon, <1>5 DEF PFinish
<1>6. CASE CDuplicate
  BY Zenon, <1>6 DEF CDuplicate
<1>7. CASE CFail
  BY Zenon, <1>7 DEF CFail
<1>8. CASE ISpawnProducer
  BY Zenon, <1>8 DEF ISpawnProducer, flagVars
<1>9. CASE ISpawnConsumer
  BY Zenon, <1>9 DEF ISpawnConsumer, flagVars
<1>10. CASE SRequest
  BY Zenon, <1>10 DEF SRequest, RequestStop, flagVars
<1> QED
  BY <1>1, <1>2, <1>3, <1>4, <1>5, <1>6, <1>7, <1>8, <1>9, <1>10
  DEF Next, NodeMines, SpuriousWakeup, Indexer, IReadHeights, ICompleted, IExit, Producer, PLoop, PHeadersFetched,
      PHeadersShort, PCoinbase, PRoom, PFull, PSleep, PCheckStop, PCheckConsumer,
      PPush, PCount, PNotify, PSignal, Consumer, CLoop, CTake, CNoMore, CEmpty,
      CSleep, CCount, CRelieve, CCommit, CAbort, CReport, CExit, Stopper, SWakeConsumer, SWakeProducer, SJoin, vars

\* Every program counter stays in its range.
LEMMA ControlTypesStep == ControlTypes /\ [Next]_vars => ControlTypes'
<1> SUFFICES ASSUME ControlTypes, [Next]_vars PROVE ControlTypes'
  OBVIOUS
<1> USE DEF ControlTypes
<1>1. CASE NodeMines \/ SpuriousWakeup
  BY <1>1 DEF NodeMines, SpuriousWakeup, queueVars
<1>2. CASE Indexer
  BY <1>2 DEF Indexer, IReadHeights, ICompleted, IStartBatch, IRefuseBatch,
              ISpawnProducer, ISpawnConsumer, IReturn, IExit, Threads, queueVars
<1>3. CASE Producer
  BY <1>3 DEF Producer, PLoop, PHeadersFetched, PHeadersShort, PCoinbase, PRoom,
              PFull, PSleep, PCheckStop, PCheckConsumer, PPush, PCount, PNotify,
              PFinish, PSignal, Notified, queueVars
<1>4. CASE Consumer
  BY <1>4 DEF Consumer, CLoop, CTake, CNoMore, CEmpty, CSleep, CCount, CRelieve,
              CCommit, CDuplicate, CAbort, CReport, CFail, CExit, Notified, queueVars
<1>5. CASE Stopper
  BY <1>5 DEF Stopper, SRequest, RequestStop, SWakeConsumer, SWakeProducer, SJoin,
              Notified, Threads, queueVars
<1>6. CASE UNCHANGED vars
  BY <1>6 DEF vars, queueVars
<1> QED  BY <1>1, <1>2, <1>3, <1>4, <1>5, <1>6 DEF Next

\* Heights stay within the chain: the table by the range of what is COPYed, the
\* reported ones because they were committed, the retry count by the give-up test.
LEMMA DataTypesStep ==
    DataTypes /\ QueueTypes /\ Prefix /\ RetriesLeft /\ [Next]_vars => DataTypes'
<1> SUFFICES ASSUME DataTypes, QueueTypes, Prefix, RetriesLeft, [Next]_vars PROVE DataTypes'
  OBVIOUS
<1> USE DEF DataTypes, Heights
<1>1. CASE UNCHANGED <<dataVars, producerVars>>
  BY <1>1 DEF dataVars, producerVars
<1>2. CASE NodeMines
  BY <1>2 DEF NodeMines, producerVars
<1>3. CASE IReadHeights
  BY <1>3, MaxIndexedType, ResumeFollows DEF IReadHeights
<1>4. CASE ICompleted
  BY <1>4, MaxIndexedType DEF ICompleted, producerVars
<1>5. CASE IRefuseBatch
  BY <1>5 DEF IRefuseBatch, producerVars
<1>6. CASE IReturn
  BY <1>6 DEF IReturn, producerVars
<1>7. CASE PLoop
  BY <1>7 DEF PLoop, dataVars
<1>8. CASE PHeadersFetched
  BY <1>8 DEF PHeadersFetched, dataVars
<1>9. CASE PHeadersShort
  BY <1>9 DEF PHeadersShort, RetriesLeft, dataVars
<1>10. CASE PNotify
  BY <1>10 DEF PNotify, Advanced, dataVars
<1>11. CASE CCommit
  <2>1. HeightsOf(taken) \subseteq Heights
    BY DEF HeightsOf, QueueTypes, Batches
  <2> QED  BY <1>11, <2>1 DEF CCommit, producerVars
<1>12. CASE CReport
  <2>1. taken.last \in Heights
    BY DEF QueueTypes, Batches
  <2> QED  BY <1>12, <2>1 DEF CReport, Reported, producerVars
<1> QED
  BY <1>1, <1>2, <1>3, <1>4, <1>5, <1>6, <1>7, <1>8, <1>9, <1>10, <1>11, <1>12
  DEF Next, SpuriousWakeup, Indexer, IStartBatch, ISpawnProducer, ISpawnConsumer,
      IExit, Producer, PCoinbase, PRoom, PFull, PSleep, PCheckStop, PCheckConsumer,
      PPush, PCount, PFinish, PSignal, Consumer, CLoop, CTake, CNoMore, CEmpty,
      CSleep, CCount, CRelieve, CDuplicate, CAbort, CFail, CExit, Stopper, SRequest,
      RequestStop, SWakeConsumer, SWakeProducer, SJoin, vars

\* What is queued and taken are sub-batches of heights within the chain.
LEMMA QueueTypesStep ==
    DataTypes /\ QueueTypes /\ Fetching /\ [Next]_vars => QueueTypes'
<1> SUFFICES ASSUME DataTypes, QueueTypes, Fetching, [Next]_vars PROVE QueueTypes'
  OBVIOUS
<1> USE DEF QueueTypes
<1>1. CASE UNCHANGED <<queue, pending, taken>>
  BY <1>1
<1>2. CASE IStartBatch
  BY <1>2 DEF IStartBatch, ResetQueue
<1>3. CASE PPush
  <2>1. Fetched \in Batches
    BY <1>3, FetchedIsSubBatch DEF PPush, Fetching, DataTypes
  <2> QED  BY <1>3, <2>1 DEF PPush
<1>4. CASE PCount
  BY <1>4 DEF PCount
<1>5. CASE CTake
  BY <1>5 DEF CTake
<1>6. CASE CCount
  BY <1>6 DEF CCount
<1>7. CASE CReport
  BY <1>7 DEF CReport, NoBatch, Batches, Heights, queueVars
<1>8. CASE CFail
  BY <1>8 DEF CFail, NoBatch, Batches, Heights, queueVars
<1> QED
  BY <1>1, <1>2, <1>3, <1>4, <1>5, <1>6, <1>7, <1>8
  DEF Next, NodeMines, SpuriousWakeup, Indexer, IReadHeights, ICompleted,
      IRefuseBatch, ISpawnProducer, ISpawnConsumer, IReturn, IExit, Producer, PLoop,
      PHeadersFetched, PHeadersShort, PCoinbase, PRoom, PFull, PSleep, PCheckStop,
      PCheckConsumer, PNotify, PFinish, PSignal, Consumer, CLoop, CNoMore, CEmpty,
      CSleep, CRelieve, CCommit, CDuplicate, CAbort, CExit, Stopper, SRequest,
      RequestStop, SWakeConsumer, SWakeProducer, SJoin, queueVars, vars

\* The call joins both threads before it returns.
LEMMA ThreadsStep ==
    ControlTypes /\ ThreadsIdle /\ [Next]_vars => ThreadsIdle'
<1> SUFFICES ASSUME ControlTypes, ThreadsIdle, [Next]_vars PROVE ThreadsIdle'
  OBVIOUS
<1> USE DEF ThreadsIdle, Idle, ControlTypes
<1>1. CASE NodeMines \/ SpuriousWakeup
  BY <1>1 DEF NodeMines, SpuriousWakeup
<1>2. CASE Indexer
  BY <1>2 DEF Indexer, IReadHeights, ICompleted, IStartBatch, IRefuseBatch,
              ISpawnProducer, ISpawnConsumer, IReturn, IExit
<1>3. CASE Producer
  BY <1>3 DEF Producer, PLoop, PHeadersFetched, PHeadersShort, PCoinbase, PRoom,
              PFull, PSleep, PCheckStop, PCheckConsumer, PPush, PCount, PNotify,
              PFinish, PSignal, Notified
<1>4. CASE Consumer
  BY <1>4 DEF Consumer, CLoop, CTake, CNoMore, CEmpty, CSleep, CCount, CRelieve,
              CCommit, CDuplicate, CAbort, CReport, CFail, CExit, Notified
<1>5. CASE Stopper
  BY <1>5 DEF Stopper, SRequest, RequestStop, SWakeConsumer, SWakeProducer, SJoin,
              Notified
<1>6. CASE UNCHANGED vars
  BY <1>6 DEF vars
<1> QED  BY <1>1, <1>2, <1>3, <1>4, <1>5, <1>6 DEF Next

\* Only a thread between its predicate and its wait keeps the mutex.
LEMMA MutexStep == ControlTypes /\ ThreadsIdle /\ MutexHeld /\ [Next]_vars => MutexHeld'
<1> SUFFICES ASSUME ControlTypes, ThreadsIdle, MutexHeld, [Next]_vars PROVE MutexHeld'
  OBVIOUS
<1> USE DEF MutexHeld, ThreadsIdle, Idle
<1>1. CASE NodeMines \/ SpuriousWakeup
  BY <1>1 DEF NodeMines, SpuriousWakeup, queueVars
<1>2. CASE Indexer
  BY <1>2 DEF Indexer, IReadHeights, ICompleted, IStartBatch, IRefuseBatch,
              ISpawnProducer, ISpawnConsumer, IReturn, IExit, queueVars
<1>3. CASE Producer
  BY <1>3 DEF Producer, PLoop, PHeadersFetched, PHeadersShort, PCoinbase, PRoom,
              PFull, PSleep, PCheckStop, PCheckConsumer, PPush, PCount, PNotify,
              PFinish, PSignal, Notified, queueVars
<1>4. CASE Consumer
  BY <1>4 DEF Consumer, CLoop, CTake, CNoMore, CEmpty, CSleep, CCount, CRelieve,
              CCommit, CDuplicate, CAbort, CReport, CFail, CExit, Notified, queueVars
<1>5. CASE Stopper
  BY <1>5 DEF Stopper, SRequest, RequestStop, SWakeConsumer, SWakeProducer, SJoin,
              Notified, queueVars
<1>6. CASE UNCHANGED vars
  BY <1>6 DEF vars, queueVars
<1> QED  BY <1>1, <1>2, <1>3, <1>4, <1>5, <1>6 DEF Next

\* Header fetches stop after MAX_RETRIES attempts.
LEMMA RetriesStep ==
    DataTypes /\ RetriesLeft /\ [Next]_vars => RetriesLeft'
<1> SUFFICES ASSUME DataTypes, RetriesLeft, [Next]_vars PROVE RetriesLeft'
  OBVIOUS
<1> USE DEF RetriesLeft, DataTypes
<1>1. CASE UNCHANGED <<ppc, retries>>
  BY <1>1
<1>2. CASE SpuriousWakeup \/ CRelieve \/ CExit \/ SWakeProducer
  BY <1>2 DEF SpuriousWakeup, CRelieve, CExit, SWakeProducer, Notified, producerVars
<1>3. CASE ISpawnProducer
  BY <1>3 DEF ISpawnProducer
<1>4. CASE PHeadersShort
  BY <1>4 DEF PHeadersShort, GiveUp
<1>5. CASE PLoop \/ (Producer /\ ~PLoop /\ ~PHeadersShort)
  BY <1>5 DEF Producer, PLoop, PHeadersFetched, PCoinbase, PRoom, PFull, PSleep,
              PCheckStop, PCheckConsumer, PPush, PCount, PNotify, PFinish, PSignal
<1> QED
  BY <1>1, <1>2, <1>3, <1>4, <1>5
  DEF Next, NodeMines, Indexer, IReadHeights, ICompleted, IStartBatch, IRefuseBatch,
      ISpawnConsumer, IReturn, IExit, Producer, Consumer, CLoop, CTake, CNoMore,
      CEmpty, CSleep, CCount, CCommit, CDuplicate, CAbort, CReport, CFail, Stopper,
      SRequest, RequestStop, SWakeConsumer, SJoin, producerVars, vars

\* The count is one step behind the push and the pop, never more.
LEMMA CountedStep ==
    QueueTypes /\ ThreadsIdle /\ Counted /\ [Next]_vars => Counted'
<1> SUFFICES ASSUME QueueTypes, ThreadsIdle, Counted, [Next]_vars PROVE Counted'
  OBVIOUS
<1> USE DEF Counted, QueueTypes
<1>1. CASE UNCHANGED <<queue, pending, ppc, cpc>>
  BY <1>1
<1>2. CASE SpuriousWakeup \/ Stopper
  BY <1>2 DEF SpuriousWakeup, Stopper, SRequest, RequestStop, SWakeConsumer,
              SWakeProducer, SJoin, Notified, queueVars
<1>3. CASE IStartBatch
  BY <1>3 DEF IStartBatch, ResetQueue, ThreadsIdle, Idle
<1>4. CASE ISpawnProducer \/ ISpawnConsumer
  BY <1>4 DEF ISpawnProducer, ISpawnConsumer, ThreadsIdle, Idle, queueVars
<1>5. CASE PPush
  BY <1>5 DEF PPush
<1>6. CASE PCount
  BY <1>6 DEF PCount
<1>7. CASE Producer /\ ~PPush /\ ~PCount
  BY <1>7 DEF Producer, PLoop, PHeadersFetched, PHeadersShort, PCoinbase, PRoom,
              PFull, PSleep, PCheckStop, PCheckConsumer, PNotify, PFinish, PSignal,
              Notified, queueVars
<1>8. CASE CTake
  BY <1>8 DEF CTake
<1>9. CASE CCount
  BY <1>9 DEF CCount
<1>10. CASE Consumer /\ ~CTake /\ ~CCount
  BY <1>10 DEF Consumer, CLoop, CNoMore, CEmpty, CSleep, CRelieve, CCommit,
               CDuplicate, CAbort, CReport, CFail, CExit, Notified, queueVars
<1> QED
  BY <1>1, <1>2, <1>3, <1>4, <1>5, <1>6, <1>7, <1>8, <1>9, <1>10
  DEF Next, NodeMines, Indexer, IReadHeights, ICompleted, IRefuseBatch, IReturn,
      IExit, queueVars, vars

\* Only the producer adds to the count, so the room it found is still there when
\* it pushes; a consumer that failed no longer counts because it is checked again.
LEMMA RoomStep ==
    QueueTypes /\ FlagTypes /\ ThreadsIdle /\ RoomFound /\ [Next]_vars => RoomFound'
<1> SUFFICES ASSUME QueueTypes, FlagTypes, ThreadsIdle, RoomFound, [Next]_vars
             PROVE  RoomFound'
  OBVIOUS
<1> USE DEF RoomFound, QueueTypes, Room
<1>1. CASE UNCHANGED <<pending, stop, consumerFailed, ppc>>
  BY <1>1
<1>2. CASE IStartBatch
  BY <1>2 DEF IStartBatch, ResetQueue, ThreadsIdle, Idle
<1>3. CASE ISpawnProducer
  BY <1>3 DEF ISpawnProducer
<1>4. CASE ISpawnConsumer
  BY <1>4 DEF ISpawnConsumer, queueVars, flagVars
<1>5. CASE PRoom
  BY <1>5 DEF PRoom, queueVars, flagVars
<1>6. CASE PCheckStop
  BY <1>6 DEF PCheckStop, queueVars, flagVars
<1>7. CASE PCheckConsumer
  BY <1>7 DEF PCheckConsumer, queueVars, flagVars
<1>8. CASE Producer /\ ~PRoom /\ ~PCheckStop /\ ~PCheckConsumer
  BY <1>8 DEF Producer, PLoop, PHeadersFetched, PHeadersShort, PCoinbase, PFull,
              PSleep, PPush, PCount, PNotify, PFinish, PSignal
<1>9. CASE SpuriousWakeup \/ CRelieve \/ CExit \/ SWakeProducer
  BY <1>9 DEF SpuriousWakeup, CRelieve, CExit, SWakeProducer, Notified, queueVars,
              flagVars
<1>10. CASE CCount
  BY <1>10 DEF CCount, flagVars
<1>11. CASE CFail
  BY <1>11 DEF CFail, queueVars
<1>12. CASE SRequest
  <2>1. stop["producer"] => stop'["producer"]
    BY Zenon, <1>12 DEF SRequest, RequestStop, FlagTypes, Threads
  <2> QED  BY <1>12, <2>1 DEF SRequest, RequestStop, queueVars, flagVars
<1> QED
  BY <1>1, <1>2, <1>3, <1>4, <1>5, <1>6, <1>7, <1>8, <1>9, <1>10, <1>11, <1>12
  DEF Next, NodeMines, Indexer, IReadHeights, ICompleted, IRefuseBatch, IReturn,
      IExit, Consumer, CLoop, CTake, CNoMore, CEmpty, CSleep, CCommit, CDuplicate,
      CAbort, CReport, Stopper, SWakeConsumer, SJoin, queueVars, flagVars, vars

\* A push goes to a queue with room: the count is then the queue's length, or one
\* more.
LEMMA BoundStep ==
    QueueTypes /\ Counted /\ RoomFound /\ QueueBounded /\ [Next]_vars => QueueBounded'
<1> SUFFICES ASSUME QueueTypes, Counted, RoomFound, QueueBounded, [Next]_vars
             PROVE  QueueBounded'
  OBVIOUS
<1> USE DEF QueueBounded, QueueTypes
<1>1. CASE UNCHANGED queue
  BY <1>1
<1>2. CASE IStartBatch
  BY <1>2 DEF IStartBatch, ResetQueue
<1>3. CASE PPush
  BY <1>3 DEF PPush, Counted, RoomFound
<1>4. CASE CTake
  BY <1>4 DEF CTake
<1> QED
  BY <1>1, <1>2, <1>3, <1>4
  DEF Next, NodeMines, SpuriousWakeup, Indexer, IReadHeights, ICompleted,
      IRefuseBatch, ISpawnProducer, ISpawnConsumer, IReturn, IExit, Producer, PLoop,
      PHeadersFetched, PHeadersShort, PCoinbase, PRoom, PFull, PSleep, PCheckStop,
      PCheckConsumer, PCount, PNotify, PFinish, PSignal, Consumer, CLoop, CNoMore,
      CEmpty, CSleep, CCount, CRelieve, CCommit, CDuplicate, CAbort, CReport, CFail,
      CExit, Stopper, SRequest, RequestStop, SWakeConsumer, SWakeProducer, SJoin,
      queueVars, vars

\* A push to the queue of a sleeping consumer is the first since it found the queue
\* empty, so its count will be 1 and the producer will notify.
LEMMA SleepStep ==
    QueueTypes /\ ThreadsIdle /\ MutexHeld /\ Counted /\ SleepsOnEmpty /\ [Next]_vars
        => SleepsOnEmpty'
<1> SUFFICES ASSUME QueueTypes, ThreadsIdle, MutexHeld, Counted, SleepsOnEmpty,
                    [Next]_vars
             PROVE  SleepsOnEmpty'
  OBVIOUS
<1> USE DEF SleepsOnEmpty, QueueTypes
<1>1. CASE UNCHANGED <<queue, ppc, cpc>>
  BY <1>1
<1>2. CASE SpuriousWakeup \/ SWakeConsumer \/ SWakeProducer
  BY <1>2 DEF SpuriousWakeup, SWakeConsumer, SWakeProducer, Notified, queueVars
<1>3. CASE IStartBatch
  BY <1>3 DEF IStartBatch, ResetQueue
<1>4. CASE ISpawnProducer \/ ISpawnConsumer
  BY <1>4 DEF ISpawnProducer, ISpawnConsumer, ThreadsIdle, Idle, queueVars
<1>5. CASE PPush
  BY <1>5 DEF PPush, MutexHeld
<1>6. CASE PCount
  BY <1>6 DEF PCount
<1>7. CASE PNotify
  BY <1>7 DEF PNotify, FirstQueued, Notified, Counted, queueVars
<1>8. CASE Producer /\ ~PPush /\ ~PCount /\ ~PNotify
  BY <1>8 DEF Producer, PLoop, PHeadersFetched, PHeadersShort, PCoinbase, PRoom,
              PFull, PSleep, PCheckStop, PCheckConsumer, PFinish, PSignal, Notified,
              queueVars
<1>9. CASE CTake
  BY <1>9 DEF CTake
<1>10. CASE CEmpty
  BY <1>10 DEF CEmpty
<1>11. CASE Consumer /\ ~CTake /\ ~CEmpty
  BY <1>11 DEF Consumer, CLoop, CNoMore, CSleep, CCount, CRelieve, CCommit,
               CDuplicate, CAbort, CReport, CFail, CExit, Notified, queueVars
<1> QED
  BY <1>1, <1>2, <1>3, <1>4, <1>5, <1>6, <1>7, <1>8, <1>9, <1>10, <1>11
  DEF Next, NodeMines, Indexer, IReadHeights, ICompleted, IRefuseBatch, IReturn,
      IExit, Stopper, SRequest, RequestStop, SJoin, queueVars, vars

\* The producer leaves the range only by finishing.
LEMMA FetchingStep ==
    DataTypes /\ ThreadsIdle /\ Fetching /\ [Next]_vars => Fetching'
<1> SUFFICES ASSUME DataTypes, ThreadsIdle, Fetching, [Next]_vars PROVE Fetching'
  OBVIOUS
<1> USE DEF Fetching, DataTypes
<1>1. CASE UNCHANGED <<ppc, batchStart, batchTo>>
  BY <1>1
<1>2. CASE SpuriousWakeup \/ CRelieve \/ CExit \/ SWakeProducer
  BY <1>2 DEF SpuriousWakeup, CRelieve, CExit, SWakeProducer, Notified, producerVars
<1>3. CASE IReadHeights
  BY <1>3 DEF IReadHeights, ThreadsIdle, Idle
<1>4. CASE ISpawnProducer
  BY <1>4 DEF ISpawnProducer
<1>5. CASE Producer
  BY <1>5 DEF Producer, PLoop, PHeadersFetched, PHeadersShort, PCoinbase, PRoom,
              PFull, PSleep, PCheckStop, PCheckConsumer, PPush, PCount, PNotify,
              PFinish, PSignal, producerVars
<1> QED
  BY <1>1, <1>2, <1>3, <1>4, <1>5
  DEF Next, NodeMines, Indexer, ICompleted, IStartBatch, IRefuseBatch,
      ISpawnConsumer, IReturn, IExit, Consumer, CLoop, CTake, CNoMore, CEmpty,
      CSleep, CCount, CCommit, CDuplicate, CAbort, CReport, CFail, Stopper,
      SRequest, RequestStop, SWakeConsumer, SJoin, producerVars, vars

\* A producer's step changes what is queued or what is fetched next, but not
\* what comes after the sub-batch taken last.
LEMMA ProducerKeepsNext ==
    ASSUME DataTypes, QueueTypes, Fetching, Producer
    PROVE  /\ NextTake' = NextTake
           /\ UNCHANGED <<dataVars, batchTo, taken, ipc, stop, consumerFailed>>
           /\ cpc' = cpc \/ (cpc = "asleep" /\ cpc' = "woken")
<1> USE DEF NextTake, NextFetch, DataTypes
<1>1. CASE PPush
  <2>1. queue' = Append(queue, Fetched) /\ ppc' = "count" /\ ppc = "push"
    BY <1>1 DEF PPush
  <2>2. Fetched \in Batches /\ Fetched.first = batchStart
    BY <1>1, FetchedIsSubBatch DEF PPush, Fetching
  <2>3. queue = << >> => queue' # << >> /\ queue'[1].first = batchStart
    BY <2>1, <2>2 DEF QueueTypes
  <2>4. queue # << >> => queue' # << >> /\ queue'[1] = queue[1]
    BY <2>1, <2>2 DEF QueueTypes
  <2> QED  BY <1>1, <2>1, <2>3, <2>4 DEF PPush, dataVars, flagVars, producerVars
<1>2. CASE PNotify
  BY <1>2 DEF PNotify, Advanced, Notified, dataVars, queueVars, flagVars
<1>3. CASE Producer /\ ~PPush /\ ~PNotify
  BY <1>3 DEF Producer, PLoop, PHeadersFetched, PHeadersShort, PCoinbase, PRoom,
              PFull, PSleep, PCheckStop, PCheckConsumer, PCount, PFinish, PSignal,
              Advanced, Notified, dataVars, queueVars, flagVars, producerVars
<1> QED  BY <1>1, <1>2, <1>3

\* A push appends the sub-batch at batch_start, a pop removes the first.
LEMMA QueueStep ==
    DataTypes /\ QueueTypes /\ ThreadsIdle /\ Fetching /\ QueueInOrder /\ [Next]_vars
        => QueueInOrder'
<1> SUFFICES ASSUME DataTypes, QueueTypes, ThreadsIdle, Fetching, QueueInOrder,
                    [Next]_vars
             PROVE  QueueInOrder'
  OBVIOUS
<1> USE DEF QueueInOrder, NextFetch, IsSubBatch
<1>1. CASE UNCHANGED <<queue, batchStart, batchTo, ppc, ipc>>
  BY <1>1 DEF Running, Advanced
<1>2. CASE SpuriousWakeup \/ CRelieve \/ CExit \/ SWakeProducer
  BY <1>2 DEF SpuriousWakeup, CRelieve, CExit, SWakeProducer, Notified, Running,
              Advanced, queueVars, producerVars
<1>3. CASE IReadHeights \/ IRefuseBatch \/ IReturn \/ IExit
  BY <1>3 DEF IReadHeights, IRefuseBatch, IReturn, IExit, Running
<1>4. CASE IStartBatch
  BY <1>4 DEF IStartBatch, ResetQueue
<1>5. CASE ISpawnProducer \/ ISpawnConsumer
  BY <1>5 DEF ISpawnProducer, ISpawnConsumer, ThreadsIdle, Idle, Running, Advanced,
              queueVars, producerVars
<1>6. CASE PPush
  <2>1. Fetched \in Batches /\ IsSubBatch(Fetched) /\ Fetched.first = batchStart
    BY <1>6, FetchedIsSubBatch DEF PPush, Fetching, DataTypes
  <2>2. queue' = Append(queue, Fetched) /\ NextFetch' = batchStart + BatchSize
        /\ NextFetch = batchStart /\ UNCHANGED <<batchTo, batchStart, ipc>>
    BY <1>6 DEF PPush, Advanced, producerVars
  <2>3. Len(queue') = Len(queue) + 1 /\ queue'[Len(queue')] = Fetched
        /\ \A i \in 1..Len(queue) : queue'[i] = queue[i]
    BY <2>1, <2>2 DEF QueueTypes
  <2>4. ASSUME Running', NEW i \in 1..Len(queue') PROVE IsSubBatch(queue'[i])
    <3>1. CASE i = Len(queue')
      BY <2>1, <2>3, <3>1
    <3>2. CASE i # Len(queue')
      <4>1. i \in 1..Len(queue)
        BY <2>3, <3>2 DEF QueueTypes
      <4> QED  BY <2>2, <2>3, <2>4, <4>1 DEF Running
    <3> QED  BY <3>1, <3>2
  <2>5. ASSUME Running', NEW i \in 1..Len(queue') - 1
        PROVE  queue'[i + 1].first = queue'[i].first + BatchSize
    <3>1. CASE i = Len(queue)
      BY <2>1, <2>2, <2>3, <2>5, <3>1 DEF QueueTypes, Running
    <3>2. CASE i # Len(queue)
      BY <2>2, <2>3, <2>5, <3>2 DEF QueueTypes, Running
    <3> QED  BY <3>1, <3>2
  <2>6. queue'[Len(queue')].first + BatchSize = NextFetch'
    BY <2>1, <2>2, <2>3
  <2> QED  BY <2>2, <2>4, <2>5, <2>6
<1>7. CASE PNotify
  BY <1>7 DEF PNotify, Running, Advanced, queueVars
<1>8. CASE Producer /\ ~PPush /\ ~PNotify
  BY <1>8 DEF Producer, PLoop, PHeadersFetched, PHeadersShort, PCoinbase, PRoom,
              PFull, PSleep, PCheckStop, PCheckConsumer, PCount, PFinish, PSignal,
              Running, Advanced, queueVars, producerVars
<1>9. CASE CTake
  <2>1. queue \in Seq(Batches) /\ queue # << >> /\ queue' = Tail(queue)
        /\ UNCHANGED <<batchTo, batchStart, ppc, ipc>>
    BY <1>9 DEF CTake, QueueTypes, producerVars
  <2>2. Len(queue') = Len(queue) - 1
        /\ \A i \in 1..Len(queue') : queue'[i] = queue[i + 1]
    BY <2>1
  <2> QED  BY <2>1, <2>2 DEF Running, Advanced
<1> QED
  BY <1>1, <1>2, <1>3, <1>4, <1>5, <1>6, <1>7, <1>8, <1>9
  DEF Next, NodeMines, Indexer, ICompleted, Consumer, CLoop, CNoMore, CEmpty, CSleep,
      CCount, CCommit, CDuplicate, CAbort, CReport, CFail, Stopper, SRequest,
      RequestStop, SWakeConsumer, SJoin, queueVars, producerVars, vars

\* What was taken stays next to what is still queued.
LEMMA TakenStep ==
    DataTypes /\ QueueTypes /\ ThreadsIdle /\ Fetching /\ QueueInOrder /\ TakenInOrder
        /\ [Next]_vars => TakenInOrder'
<1> SUFFICES ASSUME DataTypes, QueueTypes, ThreadsIdle, Fetching, QueueInOrder,
                    TakenInOrder, [Next]_vars
             PROVE  TakenInOrder'
  OBVIOUS
<1> USE DEF TakenInOrder, IsSubBatch
<1>1. CASE UNCHANGED <<queue, batchStart, batchTo, ppc, cpc, taken>>
  BY <1>1 DEF NextTake, NextFetch, Advanced
<1>2. CASE SpuriousWakeup \/ CRelieve \/ SWakeConsumer \/ SWakeProducer
  BY <1>2 DEF SpuriousWakeup, CRelieve, SWakeConsumer, SWakeProducer, Notified,
              NextTake, NextFetch, Advanced, queueVars, producerVars
<1>3. CASE Indexer
  BY <1>3 DEF Indexer, IReadHeights, ICompleted, IStartBatch, IRefuseBatch,
              ISpawnProducer, ISpawnConsumer, IReturn, IExit, ThreadsIdle, Idle,
              NextTake, NextFetch, Advanced, queueVars, producerVars
<1>4. CASE Producer
  BY <1>4, ProducerKeepsNext
<1>5. CASE CTake
  <2>1. queue \in Seq(Batches) /\ queue # << >> /\ queue' = Tail(queue)
        /\ taken' = queue[1] /\ Running
        /\ UNCHANGED <<batchTo, batchStart, ppc>>
    BY <1>5 DEF CTake, QueueTypes, ThreadsIdle, Idle, Running, producerVars
  <2>2. IsSubBatch(taken')
    <3>1. 1 \in 1..Len(queue)
      BY <2>1
    <3> QED  BY <2>1, <3>1 DEF QueueInOrder
  <2>3. CASE Len(queue) = 1 /\ queue' = << >>
    BY <2>1, <2>2, <2>3 DEF QueueInOrder, NextTake, NextFetch, Advanced
  <2>4. CASE Len(queue) > 1 /\ queue' # << >> /\ queue'[1] = queue[2]
    <3>1. queue[2].first = queue[1].first + BatchSize
      BY <2>1, <2>4 DEF QueueInOrder
    <3> QED  BY <2>1, <2>2, <2>4, <3>1 DEF NextTake
  <2>5. \/ Len(queue) = 1 /\ queue' = << >>
        \/ Len(queue) > 1 /\ queue' # << >> /\ queue'[1] = queue[2]
    BY Zenon, <2>1, TailOfQueue
  <2> QED  BY <2>3, <2>4, <2>5
<1>6. CASE CCount
  BY <1>6 DEF CCount, NextTake, NextFetch, Advanced, producerVars
<1>7. CASE Consumer /\ ~CTake /\ ~CCount /\ ~CRelieve
  BY <1>7 DEF Consumer, CLoop, CNoMore, CEmpty, CSleep, CCommit, CDuplicate, CAbort,
              CReport, CFail, CExit
<1> QED
  BY <1>1, <1>2, <1>3, <1>4, <1>5, <1>6, <1>7
  DEF Next, NodeMines, Stopper, SRequest, RequestStop, SJoin, queueVars,
      producerVars, vars

\* What a commit does: the table is ready for the sub-batch, which becomes its
\* new top.
LEMMA CommitExtends ==
    ASSUME DataTypes, QueueTypes, ThreadsIdle, TakenInOrder, Frontier, CCommit
    PROVE  /\ taken.first \in Heights /\ taken.last \in Heights
           /\ taken.first <= taken.last /\ taken.last < taken.first + BatchSize
           /\ db = 0..(taken.first - 1) /\ db' = 0..taken.last
<1>1. cpc = "copy" /\ Fresh /\ db' = db \union HeightsOf(taken) /\ ipc = "join"
  BY DEF CCommit, ThreadsIdle, Idle
<1>2. /\ taken.first \in Heights /\ taken.last \in Heights /\ batchTo \in Heights
      /\ taken.first <= batchTo
      /\ taken.last = Min(taken.first + BatchSize - 1, batchTo)
  BY <1>1 DEF QueueTypes, Batches, DataTypes, TakenInOrder, IsSubBatch
<1>3. taken.first <= taken.last /\ taken.last < taken.first + BatchSize
  BY <1>2 DEF Min, Heights
<1>4. Follows(taken.first)
  BY <1>1, <1>2 DEF Frontier, Running, NextCommit, Reached
<1>5. db = 0..(taken.first - 1)
  <2>1. taken.first = 0 => 0 \in HeightsOf(taken)
    BY <1>2, <1>3 DEF HeightsOf, Heights
  <2>2. ~(taken.first = 0 /\ db = {0})
    BY <1>1, <2>1 DEF Fresh
  <2> QED  BY <1>4, <2>2 DEF Follows
<1>6. db' = 0..taken.last
  BY <1>1, <1>2, <1>3, <1>5 DEF HeightsOf, Heights
<1> QED  BY <1>2, <1>3, <1>5, <1>6

\* Only a commit changes the table.
LEMMA TableChanges == [Next]_vars => CCommit \/ UNCHANGED db
  BY DEF Next, NodeMines, SpuriousWakeup, Indexer, IReadHeights, ICompleted,
         IStartBatch, IRefuseBatch, ISpawnProducer, ISpawnConsumer, IReturn, IExit,
         Producer, PLoop, PHeadersFetched, PHeadersShort, PCoinbase, PRoom, PFull,
         PSleep, PCheckStop, PCheckConsumer, PPush, PCount, PNotify, PFinish, PSignal,
         Consumer, CLoop, CTake, CNoMore, CEmpty, CSleep, CCount, CRelieve, CDuplicate,
         CAbort, CReport, CFail, CExit, Stopper, SRequest, RequestStop, SWakeConsumer,
         SWakeProducer, SJoin, dataVars, vars

\* The table stays an initial segment of the chain.
LEMMA PrefixStep ==
    DataTypes /\ QueueTypes /\ ThreadsIdle /\ TakenInOrder /\ Frontier /\ Prefix
        /\ [Next]_vars => Prefix'
<1> SUFFICES ASSUME DataTypes, QueueTypes, ThreadsIdle, TakenInOrder, Frontier, Prefix,
                    [Next]_vars
             PROVE  Prefix'
  OBVIOUS
<1>1. CASE CCommit
  BY <1>1, CommitExtends DEF Prefix, Heights
<1>2. CASE UNCHANGED db
  BY <1>2 DEF Prefix, Heights
<1> QED  BY <1>1, <1>2, TableChanges

\* A height is reported after its commit, and nothing deletes it.
LEMMA ReportedStep ==
    DataTypes /\ QueueTypes /\ ThreadsIdle /\ TakenInOrder /\ Frontier /\ Prefix
        /\ ReportedCommitted /\ [Next]_vars => ReportedCommitted'
<1> SUFFICES ASSUME DataTypes, QueueTypes, ThreadsIdle, TakenInOrder, Frontier, Prefix,
                    ReportedCommitted, [Next]_vars
             PROVE  ReportedCommitted'
  OBVIOUS
<1> USE DEF ReportedCommitted
<1>1. CASE UNCHANGED <<db, syncHeight, progress, taken, cpc>>
  BY <1>1
<1>2. CASE SpuriousWakeup \/ SWakeConsumer \/ Producer
  BY <1>2 DEF SpuriousWakeup, SWakeConsumer, Notified, dataVars, Producer, PLoop,
              PHeadersFetched, PHeadersShort, PCoinbase, PRoom, PFull, PSleep,
              PCheckStop, PCheckConsumer, PPush, PCount, PNotify, PFinish, PSignal
<1>3. CASE IReadHeights
  BY <1>3, MaxIndexedType DEF IReadHeights
<1>4. CASE ICompleted
  BY <1>4, MaxIndexedType DEF ICompleted
<1>5. CASE IRefuseBatch
  BY <1>5 DEF IRefuseBatch
<1>6. CASE IReturn
  BY <1>6 DEF IReturn
<1>7. CASE ISpawnConsumer
  BY <1>7 DEF ISpawnConsumer, dataVars
<1>8. CASE CCommit
  <2>1. db \subseteq db' /\ taken.last \in db'
    BY <1>8, CommitExtends DEF CCommit, Heights
  <2> QED  BY <1>8, <2>1 DEF CCommit
<1>9. CASE CReport
  BY <1>9 DEF CReport, Reported
<1>10. CASE Consumer /\ ~CCommit /\ ~CReport
  BY <1>10 DEF Consumer, CLoop, CTake, CNoMore, CEmpty, CSleep, CCount, CRelieve,
               CDuplicate, CAbort, CFail, CExit, dataVars
<1> QED
  BY <1>1, <1>2, <1>3, <1>4, <1>5, <1>6, <1>7, <1>8, <1>9, <1>10
  DEF Next, NodeMines, Indexer, IStartBatch, ISpawnProducer, IExit, Stopper, SRequest,
      RequestStop, SWakeProducer, SJoin, dataVars, vars

\* The pieces stay in order from one step to the next: a commit moves the committed
\* height by the sub-batch that was taken and no further.
LEMMA FrontierStep ==
    DataTypes /\ QueueTypes /\ ControlTypes /\ ThreadsIdle /\ Fetching /\ TakenInOrder
        /\ Prefix /\ Frontier /\ [Next]_vars => Frontier'
<1> SUFFICES ASSUME DataTypes, QueueTypes, ControlTypes, ThreadsIdle, Fetching,
                    TakenInOrder, Prefix, Frontier, [Next]_vars
             PROVE  Frontier'
  OBVIOUS
<1> USE DEF Frontier, Running, Reached, Follows
<1>1. CASE UNCHANGED <<db, batchStart, batchTo, queue, taken, ipc, ppc, cpc>>
  BY <1>1 DEF NextCommit, NextTake, NextFetch, Advanced
<1>2. CASE SpuriousWakeup \/ CRelieve \/ SWakeConsumer \/ SWakeProducer
  BY <1>2 DEF SpuriousWakeup, CRelieve, SWakeConsumer, SWakeProducer, Notified,
              NextCommit, NextTake, NextFetch, Advanced, dataVars, queueVars,
              producerVars
<1>3. CASE IReadHeights
  BY <1>3, ResumeFollows DEF IReadHeights, DataTypes
<1>4. CASE IRefuseBatch \/ IReturn \/ IExit
  BY <1>4 DEF IRefuseBatch, IReturn, IExit
<1>5. CASE IStartBatch
  <2>1. /\ queue' = << >> /\ ppc' \in Idle /\ cpc' \in Idle /\ ipc' = "spawnProducer"
        /\ batchStart <= batchTo /\ Follows(batchStart)
        /\ UNCHANGED <<batchStart, batchTo, db>>
    BY <1>5 DEF IStartBatch, ResetQueue, ThreadsIdle, dataVars, producerVars
  <2>2. NextTake' = batchStart /\ NextCommit' = batchStart
    BY <2>1 DEF NextTake, NextFetch, NextCommit, Idle
  <2> QED  BY <2>1, <2>2
<1>6. CASE ISpawnProducer \/ ISpawnConsumer
  BY <1>6 DEF ISpawnProducer, ISpawnConsumer, ThreadsIdle, Idle, NextCommit, NextTake,
              NextFetch, Advanced, dataVars, queueVars, producerVars
<1>7. CASE Producer
  <2>1. NextTake' = NextTake /\ UNCHANGED <<db, batchTo, taken, ipc>>
        /\ (cpc' = cpc \/ (cpc = "asleep" /\ cpc' = "woken"))
    BY <1>7, ProducerKeepsNext DEF dataVars
  <2>2. NextCommit' = NextCommit
    BY <2>1 DEF NextCommit
  <2>3. ipc # "batch"
    BY <1>7 DEF ThreadsIdle, Idle, Producer, PLoop, PHeadersFetched, PHeadersShort,
                PCoinbase, PRoom, PFull, PSleep, PCheckStop, PCheckConsumer, PPush,
                PCount, PNotify, PFinish, PSignal
  <2> QED  BY <2>1, <2>2, <2>3
<1>8. CASE CTake
  <2>1. /\ queue # << >> /\ taken' = queue[1] /\ cpc \in {"lock", "woken"}
        /\ cpc' = "popped" /\ ipc = "join" /\ UNCHANGED <<db, batchTo, ipc>>
    BY <1>8 DEF CTake, QueueTypes, ThreadsIdle, Idle, dataVars, producerVars
  <2>2. NextCommit' = NextCommit
    BY <2>1 DEF NextCommit, NextTake
  <2> QED  BY <2>1, <2>2
<1>9. CASE CCommit
  <2>1. /\ taken.first \in Heights /\ taken.last \in Heights /\ batchTo \in Heights
        /\ db' = 0..taken.last /\ UNCHANGED <<batchTo, ipc>>
        /\ taken.last = Min(taken.first + BatchSize - 1, batchTo)
        /\ cpc' \notin {"popped", "relieve", "copy"} /\ cpc = "copy" /\ ipc = "join"
        /\ taken.first + BatchSize = NextTake
    BY <1>9, CommitExtends
    DEF CCommit, DataTypes, TakenInOrder, IsSubBatch, ThreadsIdle, Idle, producerVars
  <2>2. NextTake' = NextTake
    BY <1>9 DEF CCommit, NextTake, NextFetch, Advanced, queueVars, producerVars
  <2>3. Reached(NextTake)'
    BY <2>1, <2>2 DEF Min, Heights
  <2> QED  BY <2>1, <2>3 DEF NextCommit
<1>10. CASE CLoop \/ CEmpty \/ CSleep \/ CCount \/ CReport
  BY <1>10 DEF CLoop, CEmpty, CSleep, CCount, CReport, ThreadsIdle, Idle, NextCommit,
               NextTake, NextFetch, Advanced, dataVars, queueVars, producerVars
<1>11. CASE CNoMore \/ CDuplicate \/ CAbort \/ CFail \/ CExit
  BY <1>11 DEF CNoMore, CDuplicate, CAbort, CFail, CExit, ThreadsIdle, Idle
<1> QED
  BY <1>1, <1>2, <1>3, <1>4, <1>5, <1>6, <1>7, <1>8, <1>9, <1>10, <1>11
  DEF Next, NodeMines, Indexer, ICompleted, Consumer, Stopper, SRequest, RequestStop,
      SJoin, dataVars, queueVars, producerVars, vars

\* A consumer leaves its loop because it failed, was stopped, or found the producer
\* finished and the queue empty; in the last case all that was fetched is committed.
LEMMA EndingStep ==
    DataTypes /\ QueueTypes /\ FlagTypes /\ ControlTypes /\ ThreadsIdle /\ Frontier
        /\ Ending /\ [Next]_vars => Ending'
<1> SUFFICES ASSUME DataTypes, QueueTypes, FlagTypes, ControlTypes, ThreadsIdle,
                    Frontier, Ending, [Next]_vars
             PROVE  Ending'
  OBVIOUS
<1> USE DEF Ending, Running, Reached, Follows
<1>1. CASE UNCHANGED <<db, batchStart, batchTo, queue, flagVars, stop, ipc, ppc, cpc>>
  BY <1>1 DEF flagVars
<1>2. CASE SpuriousWakeup \/ CRelieve \/ SWakeConsumer \/ SWakeProducer
  BY <1>2 DEF SpuriousWakeup, CRelieve, SWakeConsumer, SWakeProducer, Notified,
              dataVars, queueVars, flagVars, producerVars
<1>3. CASE IReadHeights \/ ICompleted \/ IRefuseBatch \/ IReturn \/ IExit
  BY <1>3 DEF IReadHeights, ICompleted, IRefuseBatch, IReturn, IExit
<1>4. CASE IStartBatch
  BY <1>4 DEF IStartBatch
<1>5. CASE ISpawnProducer
  BY <1>5 DEF ISpawnProducer, flagVars
<1>6. CASE ISpawnConsumer
  BY <1>6 DEF ISpawnConsumer, flagVars
<1>7. CASE PFinish
  BY <1>7 DEF PFinish, dataVars, queueVars, producerVars, ThreadsIdle, Idle
<1>8. CASE PSignal
  BY <1>8 DEF PSignal, Notified, dataVars, queueVars, flagVars, producerVars
<1>9. CASE Producer /\ ~PFinish /\ ~PSignal
  <2>1. /\ ppc \notin {"signal", "done", "none"} /\ UNCHANGED <<flagVars, stop, ipc>>
        /\ cpc' = cpc \/ (cpc = "asleep" /\ cpc' = "woken")
    BY <1>9 DEF Producer, PLoop, PHeadersFetched, PHeadersShort, PCoinbase, PRoom,
                PFull, PSleep, PCheckStop, PCheckConsumer, PPush, PCount, PNotify,
                Notified
  <2>2. Running /\ ipc # "spawnProducer"
    BY <2>1 DEF ThreadsIdle, Idle, ControlTypes
  <2> QED  BY <2>1, <2>2 DEF flagVars
<1>10. CASE CNoMore
  <2>1. \/ stop'["consumer"]
        \/ producerStopped' /\ queue' = << >>
    BY <1>10 DEF CNoMore, Ended, queueVars, flagVars
  <2>2. ASSUME producerStopped, queue = << >> PROVE Reached(batchStart)
    BY <1>10, <2>2 DEF CNoMore, ThreadsIdle, Idle, Frontier, NextCommit, NextTake,
                       NextFetch
  <2> QED  BY <1>10, <2>1, <2>2
           DEF CNoMore, dataVars, queueVars, flagVars, producerVars
<1>11. CASE CFail
  BY <1>11 DEF CFail
<1>12. CASE CExit
  BY <1>12 DEF CExit, Notified, dataVars, queueVars, flagVars, producerVars
<1>13. CASE CLoop
  BY <1>13 DEF CLoop, flagVars, queueVars, dataVars
<1>14. CASE CTake \/ CEmpty \/ CSleep \/ CCount \/ CCommit \/ CDuplicate \/ CAbort
            \/ CReport
  BY <1>14 DEF CTake, CEmpty, CSleep, CCount, CCommit, CDuplicate, CAbort, CReport,
               flagVars
<1>15. CASE SRequest
  <2>1. stop["consumer"] => stop'["consumer"]
    BY Zenon, <1>15 DEF SRequest, RequestStop, FlagTypes, Threads
  <2> QED  BY <1>15, <2>1 DEF SRequest, RequestStop, dataVars, queueVars, flagVars,
                              producerVars
<1> QED
  BY <1>1, <1>2, <1>3, <1>4, <1>5, <1>6, <1>7, <1>8, <1>9, <1>10, <1>11, <1>12,
     <1>13, <1>14, <1>15
  DEF Next, NodeMines, Indexer, Producer, Consumer, Stopper, SJoin, dataVars,
      queueVars, producerVars, vars

-----------------------------------------------------------------------------
(* The theorems.                                                           *)

\* The inductive step: every conjunct of IInv survives every step.
LEMMA InvStep == IInv /\ [Next]_vars => IInv'
<1> SUFFICES ASSUME IInv, [Next]_vars PROVE IInv'
  OBVIOUS
<1>1. DataTypes' /\ QueueTypes' /\ FlagTypes' /\ ControlTypes'
  BY DataTypesStep, QueueTypesStep, FlagTypesStep, ControlTypesStep DEF IInv, TypeOK
<1>2. ThreadsIdle' /\ MutexHeld' /\ RetriesLeft'
  BY ThreadsStep, MutexStep, RetriesStep DEF IInv, TypeOK
<1>3. Counted' /\ RoomFound' /\ QueueBounded'
  BY CountedStep, RoomStep, BoundStep DEF IInv, TypeOK
<1>4. SleepsOnEmpty' /\ Fetching'
  BY SleepStep, FetchingStep DEF IInv, TypeOK
<1>5. QueueInOrder' /\ TakenInOrder'
  BY QueueStep, TakenStep DEF IInv, TypeOK
<1>6. Prefix' /\ ReportedCommitted'
  BY PrefixStep, ReportedStep DEF IInv, TypeOK
<1>7. Frontier' /\ Ending'
  BY FrontierStep, EndingStep DEF IInv, TypeOK
<1> QED  BY <1>1, <1>2, <1>3, <1>4, <1>5, <1>6, <1>7 DEF IInv, TypeOK

\* The inductive invariant holds of every run of the pipeline.
THEOREM Invariance == Spec => []IInv
  BY InitInv, InvStep, PTL DEF Spec

\* No thread ever finds a variable outside its type: heights within the node's
\* chain, sub-batches of it in the queue, the retry count within MAX_RETRIES.
THEOREM TypeCorrect == Spec => []TypeOK
<1>1. IInv => TypeOK
  BY DEF IInv
<1> QED  BY <1>1, Invariance, PTL

\* The backpressure bound of data_queue, whatever the depth configured and the
\* size of the sub-batches.
THEOREM QueueIsBounded == Spec => []QueueBounded
<1>1. IInv => QueueBounded
  BY DEF IInv
<1> QED  BY <1>1, Invariance, PTL

\* Table blocks never has a gap below its top, so that resuming from MAX(height)
\* misses nothing.
THEOREM TableHasNoGap == Spec => []NoGap
<1>1. ASSUME Prefix PROVE NoGap
  <2>1. CASE db = {}
    BY <2>1 DEF NoGap
  <2>2. CASE \E n \in Heights : db = 0..n
    BY <2>2 DEF NoGap, Heights
  <2> QED  BY <1>1, <2>1, <2>2 DEF Prefix
<1>2. IInv => NoGap
  BY <1>1 DEF IInv
<1> QED  BY <1>2, Invariance, PTL

\* Notifying queue_cv only when the count is 1 loses no sub-batch, although the
\* count is changed outside the mutex.
THEOREM NoWakeupLostForData == Spec => []NoLostDataWakeup
<1>1. IInv => NoLostDataWakeup
  BY DEF IInv, SleepsOnEmpty, NoLostDataWakeup
<1> QED  BY <1>1, Invariance, PTL

\* progress_current_height and the sync pointer never pass the committed tip.
THEOREM ReportsOnlyCommitted == Spec => []ProgressCommitted
<1>1. ASSUME Prefix, ReportedCommitted PROVE ProgressCommitted
  <2>1. CASE db = {}
    BY <1>1, <2>1, MaxIndexedTop DEF ReportedCommitted, ProgressCommitted, Heights
  <2>2. CASE MaxIndexed \in Heights /\ db = 0..MaxIndexed
    BY <1>1, <2>2 DEF ReportedCommitted, ProgressCommitted, Heights
  <2> QED  BY <1>1, <2>1, <2>2, MaxIndexedTop
<1>2. IInv => ProgressCommitted
  BY <1>1 DEF IInv
<1> QED  BY <1>2, Invariance, PTL

\* index_chain_data_batch returns true only when all that its producer fetched
\* has been committed.
THEOREM SuccessIsCommitted == Spec => []SuccessMeansCommitted
<1>1. ASSUME DataTypes, Ending PROVE SuccessMeansCommitted
  <2>1. SUFFICES ASSUME ipc = "join", cpc = "done", ~consumerFailed, ~stop["consumer"]
                 PROVE  queue = << >> /\ 0..Min(batchStart - 1, batchTo) \subseteq db
    BY DEF SuccessMeansCommitted
  <2>2. queue = << >> /\ Reached(batchStart)
    BY <1>1, <2>1 DEF Ending
  <2>3. CASE batchStart <= batchTo
    BY <1>1, <2>2, <2>3 DEF Reached, Follows, DataTypes, Heights, Min
  <2>4. CASE ~(batchStart <= batchTo)
    BY <1>1, <2>2, <2>4 DEF Reached, DataTypes, Heights, Min
  <2> QED  BY <2>2, <2>3, <2>4
<1>2. IInv => SuccessMeansCommitted
  BY <1>1 DEF IInv, TypeOK
<1> QED  BY <1>2, Invariance, PTL

\* The pipeline implements the append-only table: every step of it leaves the
\* table alone or adds one whole sub-batch just above its top.
THEOREM ImplementsTable == Spec => TableAppendOnly
<1>1. Init => db = {}
  BY DEF Init
<1>2. ASSUME IInv, CCommit PROVE Table!Extend
  <2>1. /\ taken.first \in Heights /\ taken.last \in Heights
        /\ taken.first <= taken.last /\ taken.last < taken.first + BatchSize
        /\ db = 0..(taken.first - 1) /\ db' = 0..taken.last
    BY <1>2, CommitExtends DEF IInv, TypeOK
  <2> DEFINE m == taken.last - taken.first + 1
  <2>2. m \in 1..BatchSize /\ taken.first + m - 1 = taken.last
    BY <2>1 DEF Heights
  <2>3. taken.first \in 0..ChainHeight
    BY <2>1 DEF Heights
  <2> HIDE DEF m
  <2>4. db' = 0..(taken.first + m - 1)
    BY <2>1, <2>2
  <2> QED  BY <2>1, <2>2, <2>3, <2>4 DEF Table!Extend
<1>3. IInv /\ [Next]_vars => [Table!Extend]_db
  BY <1>2, TableChanges
<1> QED  BY <1>1, <1>3, Invariance, PTL DEF Spec, TableAppendOnly, Table!AppendOnly


-----------------------------------------------------------------------------
(* No height is COPYed twice, when sub-batches and calls have more than one  *)
(* block: block_headers_batch_size is 100 unless configured otherwise,       *)
(* HEADERS_BATCH_SIZE is 100000.  With sub-batches of one block, genesis can *)
(* be alone in the table, is taken for an empty table and copied again.      *)

\* Height 0 is never alone in the table, and no call ends with it.
NotGenesisAlone == /\ tip >= 1 /\ db # {0}
                   /\ ipc \notin {"loop", "exited"} => batchTo >= 1

LEMMA StartsTogether == Init => NotGenesisAlone
  BY DEF Init, NotGenesisAlone

\* Only NodeMines moves the tip.
LEMMA OnlyNodeMines == [Next]_vars => NodeMines \/ tip' = tip
  BY DEF Next, NodeMines, SpuriousWakeup, Indexer, IReadHeights, ICompleted,
         IStartBatch, IRefuseBatch, ISpawnProducer, ISpawnConsumer, IReturn, IExit,
         Producer, PLoop, PHeadersFetched, PHeadersShort, PCoinbase, PRoom, PFull,
         PSleep, PCheckStop, PCheckConsumer, PPush, PCount, PNotify, PFinish, PSignal,
         Consumer, CLoop, CTake, CNoMore, CEmpty, CSleep, CCount, CRelieve, CCommit,
         CDuplicate, CAbort, CReport, CFail, CExit, Stopper, SRequest, RequestStop,
         SWakeConsumer, SWakeProducer, SJoin, dataVars, vars

\* Only reading the heights begins a call, and sets its range.
LEMMA OnlyReadStartsCall ==
    [Next]_vars => \/ IReadHeights
                   \/ /\ batchTo' = batchTo
                      /\ ipc \in {"loop", "exited"} => ipc' \in {"loop", "exited"}
<1>1. NodeMines \/ SpuriousWakeup \/ Stopper =>
          batchTo' = batchTo /\ ipc' = ipc
  BY DEF NodeMines, SpuriousWakeup, Stopper, SRequest, RequestStop, SWakeConsumer,
         SWakeProducer, SJoin, producerVars
<1>2. Indexer => \/ IReadHeights
                 \/ /\ batchTo' = batchTo
                    /\ ipc \in {"loop", "exited"} => ipc' \in {"loop", "exited"}
  BY DEF Indexer, ICompleted, IStartBatch, IRefuseBatch, ISpawnProducer,
         ISpawnConsumer, IReturn, IExit, producerVars
<1>3. Producer \/ Consumer => batchTo' = batchTo /\ ipc' = ipc
  BY DEF Producer, PLoop, PHeadersFetched, PHeadersShort, PCoinbase, PRoom, PFull,
         PSleep, PCheckStop, PCheckConsumer, PPush, PCount, PNotify, PFinish, PSignal,
         Consumer, CLoop, CTake, CNoMore, CEmpty, CSleep, CCount, CRelieve, CCommit,
         CDuplicate, CAbort, CReport, CFail, CExit, producerVars
<1>4. UNCHANGED vars => batchTo' = batchTo /\ ipc' = ipc
  BY DEF vars, producerVars
<1> QED  BY <1>1, <1>2, <1>3, <1>4 DEF Next

LEMMA StaysTogether ==
    ASSUME BatchSize > 1, HeadersBatchSize > 1, IInv, NotGenesisAlone, [Next]_vars
    PROVE  NotGenesisAlone'
<1>1. DataTypes /\ QueueTypes /\ ThreadsIdle /\ TakenInOrder /\ Frontier /\ Prefix
  BY DEF IInv, TypeOK
<1>2. tip \in Heights /\ tip >= 1 /\ batchTo \in Heights
  BY <1>1 DEF DataTypes, NotGenesisAlone
<1>3. db' # {0}
  <2>1. CASE UNCHANGED db
    BY <2>1 DEF NotGenesisAlone
  <2>2. CASE CCommit
    <3>1. /\ taken.first \in Heights /\ taken.last \in Heights
          /\ taken.first <= taken.last /\ db' = 0..taken.last
      BY <1>1, <2>2, CommitExtends
    <3>2. taken.last = Min(taken.first + BatchSize - 1, batchTo) /\ batchTo >= 1
      BY <1>1, <2>2 DEF CCommit, TakenInOrder, IsSubBatch, ThreadsIdle, Idle,
         NotGenesisAlone
    <3>3. taken.last >= 1
      BY <1>2, <3>1, <3>2 DEF Min, Heights
    <3>4. 1 \in db'
      BY <3>1, <3>3 DEF Heights
    <3> QED  BY <3>4
  <2> QED  BY <2>1, <2>2, TableChanges
<1>4. tip' >= 1
  <2>1. CASE NodeMines
    BY <1>2, <2>1 DEF NodeMines, Heights
  <2>2. CASE tip' = tip
    BY <1>2, <2>2
  <2> QED  BY <2>1, <2>2, OnlyNodeMines
<1>5. ipc' \notin {"loop", "exited"} => batchTo' >= 1
  <2>1. CASE IReadHeights
    <3>1. batchTo' = Min(Resume - 1 + HeadersBatchSize, tip) /\ Resume \in Heights
      BY <1>1, <1>2, <2>1, ResumeFollows DEF IReadHeights
    <3> QED  BY <1>2, <3>1 DEF Min, Heights
  <2>2. CASE batchTo' = batchTo /\ (ipc \in {"loop", "exited"} => ipc' \in {"loop", "exited"})
    BY <2>2 DEF NotGenesisAlone
  <2> QED  BY <2>1, <2>2, OnlyReadStartsCall
<1> QED  BY <1>3, <1>4, <1>5 DEF NotGenesisAlone

\* What the consumer is about to copy follows on the table, or is block 0 again.
LEMMA CopyFollows ==
    ASSUME IInv, cpc = "copy"
    PROVE  /\ taken.first \in Heights /\ taken.last \in Heights
           /\ Follows(taken.first)
           /\ ~Fresh => taken.first = 0 /\ db = {0}
<1>1. /\ DataTypes /\ QueueTypes /\ ThreadsIdle /\ TakenInOrder /\ Frontier
  BY DEF IInv, TypeOK
<1>2. /\ taken.first \in Heights /\ taken.last \in Heights
      /\ taken.first <= batchTo
  BY <1>1 DEF QueueTypes, Batches, TakenInOrder, IsSubBatch
<1>3. Follows(taken.first)
  BY <1>1, <1>2 DEF Frontier, Running, NextCommit, Reached, ThreadsIdle, Idle
<1>4. db = 0..(taken.first - 1) => Fresh
  BY <1>2 DEF Fresh, HeightsOf, Heights
<1> QED  BY <1>2, <1>3, <1>4 DEF Follows

\* Genesis alone in the table is the only block ever copied again: whatever failed
\* or was stopped before, and for every size of sub-batches, no other height
\* violates the PRIMARY KEY.
OnlyGenesisAgain == cpc = "copy" /\ ~Fresh => taken.first = 0 /\ db = {0}

THEOREM OnlyGenesisIsCopiedTwice == Spec => []OnlyGenesisAgain
<1>1. IInv => OnlyGenesisAgain
  BY CopyFollows DEF OnlyGenesisAgain
<1> QED  BY <1>1, Invariance, PTL

\* With sub-batches of two or more blocks genesis is never alone, and what the
\* consumer is about to copy is not in the table.
THEOREM NothingIsCopiedTwice ==
    ASSUME BatchSize > 1, HeadersBatchSize > 1
    PROVE  Spec => []NoReCopy
<1>1. IInv /\ NotGenesisAlone => NoReCopy
  BY CopyFollows DEF NotGenesisAlone, NoReCopy
<1>2. IInv /\ NotGenesisAlone /\ [Next]_vars => NotGenesisAlone'
  BY StaysTogether
<1> QED  BY <1>1, <1>2, StartsTogether, Invariance, PTL DEF Spec
=============================================================================
