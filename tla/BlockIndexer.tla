---------------------------- MODULE BlockIndexer ----------------------------
(***************************************************************************)
(* The indexer thread of BlockIndexer against a node that mines and        *)
(* reorganises: the main loop, detect_reorg, find_common_ancestor,         *)
(* rollback_to_height, the calls of index_chain_data_batch, failures of    *)
(* single calls, and crashes of the process and of the database.           *)
(*                                                                         *)
(* The pipeline of module IndexPipeline appears here as what it promises:  *)
(* sub-batches are fetched ahead of their commits, and committed in order  *)
(* and each in one transaction.                                            *)
(*                                                                         *)
(* A block is its height together with [fork, parent, tx]: the fork that   *)
(* mined it, the fork of the block below it (its previous hash), and       *)
(* whether it holds the one transaction whose txid the model follows.  Two *)
(* blocks of a height are the same block iff their forks are.              *)
(***************************************************************************)
EXTENDS Integers, Sequences

CONSTANTS MaxHeight,     \* bound: the node's chain ends here
          MaxForks,      \* bound: reorganisations of the node
          ReorgFloor,    \* the node never replaces a block at or below this height
          MaxReorgDepth, \* MAX_REORG_DEPTH
          HeadersBatchSize, \* HEADERS_BATCH_SIZE, blocks per call
          BatchSize,     \* blocks per sub-batch
          Prefetch,      \* bound: sub-batches fetched and not yet committed
          MaxFaults,     \* bound: failed calls and crashes
          LookupsFail,   \* hash lookups are among the calls that may fail
          EventsLag,     \* the cached hashes survive a change of tip for a while
          ReorgAnytime   \* the node may reorganise while a cycle is running

ASSUME IndexerAssumption ==
    /\ MaxHeight \in Nat \ {0} /\ MaxForks \in Nat /\ ReorgFloor \in Nat
    /\ MaxReorgDepth \in Nat \ {0}
    /\ HeadersBatchSize \in Nat \ {0} /\ BatchSize \in Nat \ {0}
    /\ Prefetch \in Nat \ {0} /\ MaxFaults \in Nat
    /\ {LookupsFail, EventsLag, ReorgAnytime} \subseteq BOOLEAN

VARIABLES
    chain,      \* the node's active chain, from height to block
    forks,      \* reorganisations so far
    hashCache,  \* answers of getblockhash that RpcResponseCache still serves
    db,         \* tables blocks and transactions, from height to block
    syncHeight, \* sync_progress.last_indexed_height of row 'headers'
    disk,       \* what of the two PostgreSQL has flushed
    phase,      \* where the indexer thread is
    current,    \* current_height of the main loop
    target,     \* blockchain_height of the main loop
    progress,   \* progress_current_height
    scanAt,     \* find_common_ancestor's height, then the rollback target
    fetchNext,  \* the producer's batch_start
    batchTo,    \* last height of the running call
    fetched,    \* sub-batches fetched and not yet committed
    faults      \* failures so far

nodeVars  == <<chain, forks>>
dbVars    == <<db, syncHeight>>
loopVars  == <<phase, current, target, progress, scanAt>>
batchVars == <<fetchNext, batchTo, fetched>>
vars == <<nodeVars, hashCache, dbVars, disk, loopVars, batchVars, faults>>

Heights == 0..MaxHeight
Blocks  == [fork : 0..MaxForks, parent : 0..MaxForks, tx : BOOLEAN]
NoHash  == -1

Tip == CHOOSE h \in DOMAIN chain : h + 1 \notin DOMAIN chain

\* The entries of f at heights in S.
Cut(f, S) == [h \in DOMAIN f \cap S |-> f[h]]

\* f extended, or overridden, by g.
Put(f, g) == [h \in DOMAIN f \union DOMAIN g |->
                 IF h \in DOMAIN g THEN g[h] ELSE f[h]]

At(h, b) == [x \in {h} |-> b]

Empty == [h \in {} |-> NoHash]

Max(a, b) == IF a > b THEN a ELSE b
Min(a, b) == IF a < b THEN a ELSE b

\* SELECT COALESCE(MAX(height), 0) FROM blocks
MaxIndexed == IF DOMAIN db = {} THEN 0
              ELSE CHOOSE h \in DOMAIN db : \A k \in DOMAIN db : k <= h

\* The transaction is in one of the blocks.
HoldsTx(f) == \E h \in DOMAIN f : f[h].tx

Genesis == [fork |-> 0, parent |-> 0, tx |-> FALSE]

Init == /\ chain = [h \in {0, 1} |-> Genesis]
        /\ forks = 0
        /\ hashCache = Empty
        /\ db = Empty /\ syncHeight = 0
        /\ disk = [db |-> Empty, syncHeight |-> 0]
        /\ phase = "loop" /\ current = 0 /\ target = 0 /\ progress = 0
        /\ scanAt = 0 /\ fetchNext = 0 /\ batchTo = 0 /\ fetched = << >>
        /\ faults = 0

-----------------------------------------------------------------------------
(* The node, and the cache of its answers.                                 *)

\* A changed tip empties the cache, at once or when EventProcessor gets to it.
TipChanged == hashCache' = IF EventsLag THEN hashCache ELSE Empty

NodeMines ==
    /\ Tip < MaxHeight
    /\ \E tx \in IF HoldsTx(chain) THEN {FALSE} ELSE BOOLEAN :
          chain' = Put(chain, At(Tip + 1, [fork   |-> forks,
                                         parent |-> chain[Tip].fork,
                                         tx     |-> tx]))
    /\ TipChanged
    /\ UNCHANGED <<forks, dbVars, disk, loopVars, batchVars, faults>>

\* The node replaces its blocks above height k, not more than MaxReorgDepth of
\* them, by blocks of a new fork up to height n; the transaction is mined into
\* one of these (m) unless it is in a block that stays.
Reorganise ==
    /\ forks < MaxForks
    /\ \E k \in Max(ReorgFloor, Tip - MaxReorgDepth)..(Tip - 1) :
       \E n \in (k + 1)..Min(Tip + 1, MaxHeight) :
       \E m \in IF HoldsTx(Cut(chain, 0..k)) THEN {0} ELSE {0} \union (k + 1)..n :
          chain' = Put(Cut(chain, 0..k),
                       [h \in (k + 1)..n |->
                           [fork   |-> forks + 1,
                            parent |-> IF h = k + 1 THEN chain[k].fork ELSE forks + 1,
                            tx     |-> h = m]])
    /\ forks' = forks + 1
    /\ TipChanged

NodeReorganises ==
    /\ ReorgAnytime \/ phase = "loop"
    /\ Reorganise
    /\ UNCHANGED <<dbVars, disk, loopVars, batchVars, faults>>

\* EventProcessor handles the block event, or the entries exceed kMaxAge.
CacheExpires ==
    /\ hashCache # Empty
    /\ hashCache' = Empty
    /\ UNCHANGED <<nodeVars, dbVars, disk, loopVars, batchVars, faults>>

\* A failure of the next call, if one is left.
Fault == faults < MaxFaults /\ faults' = faults + 1

\* getblockhash of a height through the cache; NoHash when the node has no such
\* block or the call fails.
LookUp(h, answer) ==
    \/ /\ h \in DOMAIN hashCache
       /\ answer = hashCache[h]
       /\ UNCHANGED <<hashCache, faults>>
    \/ /\ h \notin DOMAIN hashCache /\ h \in DOMAIN chain
       /\ answer = chain[h].fork
       /\ hashCache' = Put(hashCache, At(h, answer))
       /\ UNCHANGED faults
    \/ /\ h \notin DOMAIN hashCache /\ h \notin DOMAIN chain
       /\ answer = NoHash
       /\ UNCHANGED <<hashCache, faults>>
    \/ /\ LookupsFail /\ Fault
       /\ answer = NoHash
       /\ UNCHANGED hashCache

\* A client's request for a block by height fills the same cache; that matters
\* only when what it holds can be out of date.
ApiLookUp ==
    /\ EventsLag
    /\ \E h \in DOMAIN chain \ DOMAIN hashCache :
          hashCache' = Put(hashCache, At(h, chain[h].fork))
    /\ UNCHANGED <<nodeVars, dbVars, disk, loopVars, batchVars, faults>>
-----------------------------------------------------------------------------
(* The main loop.                                                          *)

\* The loop body ends: its locals, and those of a call, are gone.
EndCycle == /\ phase' = "loop"
            /\ current' = 0 /\ target' = 0 /\ scanAt' = 0
            /\ fetchNext' = 0 /\ batchTo' = 0 /\ fetched' = << >>

\* update_sync_progress, whose failure is only logged.
StatusAt(h) == syncHeight' \in {syncHeight, h}

\* Read both heights.  A failed read only repeats the cycle later.
ReadHeights ==
    /\ phase = "loop"
    /\ current' = MaxIndexed /\ progress' = MaxIndexed
    /\ target' = Tip
    /\ phase' = "detect"
    /\ UNCHANGED <<nodeVars, hashCache, dbVars, disk, scanAt, batchVars, faults>>

\* Mutant: hashes are compared only when the heights are equal, as at startup.
SeemsCurrentWhenBehind(answer) == \/ answer \in {NoHash, db[current].fork}
                                  \/ current < target

\* A missing hash or equal hashes are no reorg.
SeemsCurrent(answer) == answer \in {NoHash, db[current].fork}

\* detect_reorg(current_height), which does nothing at height 0.
DetectReorg ==
    /\ phase = "detect"
    /\ \/ /\ current = 0
          /\ phase' = "index" /\ UNCHANGED <<scanAt, hashCache, faults>>
       \/ /\ current > 0
          /\ \E answer \in {NoHash} \union 0..MaxForks :
                /\ LookUp(current, answer)
                /\ IF SeemsCurrent(answer)
                   THEN phase' = "index" /\ UNCHANGED scanAt
                   ELSE phase' = "scan" /\ scanAt' = current - 1
    /\ UNCHANGED <<nodeVars, dbVars, disk, current, target, progress, batchVars>>

\* Mutant: the lowest height is not kept above -1.
ScanFloorUnclamped == current - 1 - MaxReorgDepth

\* The lowest height find_common_ancestor(current - 1) looks at.
ScanFloor == Max(0, current - 1 - MaxReorgDepth)

\* find_common_ancestor compares one height.  When the last one differs too the
\* error is reported and nothing else happens.
ScanForAncestor ==
    /\ phase = "scan"
    /\ \E answer \in {NoHash} \union 0..MaxForks :
          /\ LookUp(scanAt, answer)
          /\ \/ /\ answer = db[scanAt].fork
                /\ phase' = "rollback"
                /\ UNCHANGED <<syncHeight, current, target, scanAt, batchVars>>
             \/ /\ answer # db[scanAt].fork /\ scanAt > ScanFloor
                /\ scanAt' = scanAt - 1
                /\ UNCHANGED <<syncHeight, phase, current, target, batchVars>>
             \/ /\ answer # db[scanAt].fork /\ scanAt = ScanFloor
                /\ StatusAt(current) /\ EndCycle
    /\ UNCHANGED <<nodeVars, db, disk, progress>>

\* Mutant: without the defensive depth bound.
NeverTooDeep == FALSE

TooDeep == progress - scanAt > MaxReorgDepth

RefuseRollback ==
    /\ phase = "rollback" /\ TooDeep
    /\ StatusAt(current) /\ EndCycle
    /\ UNCHANGED <<nodeVars, hashCache, db, disk, progress, faults>>

\* Mutant: DELETE ... WHERE height >= target.
KeptOneLess == 0..(scanAt - 1)

\* Mutant: DELETE ... WHERE height > target + 1.
KeptOneMore == 0..(scanAt + 1)

Kept == 0..scanAt

\* One transaction deletes the blocks and transactions above the ancestor and
\* moves sync_progress there.  progress_current_height stays as it was.
Rollback ==
    /\ phase = "rollback" /\ ~TooDeep
    /\ db' = Cut(db, Kept) /\ syncHeight' = scanAt
    /\ current' = scanAt /\ scanAt' = 0
    /\ phase' = "index"
    /\ UNCHANGED <<nodeVars, hashCache, disk, target, progress, batchVars, faults>>

\* The transaction fails, or commits and is not heard of.
RollbackFails ==
    /\ phase = "rollback" /\ ~TooDeep /\ Fault
    /\ \/ UNCHANGED db /\ StatusAt(current)
       \/ db' = Cut(db, Kept) /\ syncHeight' = scanAt
    /\ EndCycle
    /\ UNCHANGED <<nodeVars, hashCache, disk, progress>>

\* Mutant: resume from the sync_progress checkpoint.
FromCheckpoint == IF syncHeight = 0 THEN 0 ELSE syncHeight + 1

\* Height 0 stands for an empty table.
From == IF current = 0 THEN 0 ELSE current + 1

StartBatch ==
    /\ phase = "index" /\ current < target
    /\ fetchNext' = From /\ batchTo' = Min(From - 1 + HeadersBatchSize, target)
    /\ fetched' = << >>
    /\ phase' = "run"
    /\ current' = 0 /\ target' = 0  \* not read again in this cycle
    /\ UNCHANGED <<nodeVars, hashCache, dbVars, disk, progress, scanAt, faults>>

\* Nothing to index: wait for a block event or the timeout, then go round.
CaughtUp ==
    /\ phase = "index" /\ current >= target
    /\ StatusAt(current) /\ EndCycle
    /\ UNCHANGED <<nodeVars, hashCache, db, disk, progress, faults>>

-----------------------------------------------------------------------------
(* A call of index_chain_data_batch.                                       *)

SubBatch == fetchNext..Min(fetchNext + BatchSize - 1, batchTo)

\* The producer fetches blocks by height, past the cache.
Fetch ==
    /\ phase = "run" /\ fetchNext <= batchTo
    /\ Len(fetched) < Prefetch
    /\ SubBatch \subseteq DOMAIN chain
    /\ fetched' = Append(fetched, Cut(chain, SubBatch))
    /\ fetchNext' = fetchNext + BatchSize
    /\ UNCHANGED <<nodeVars, hashCache, dbVars, disk, loopVars, batchTo, faults>>

\* The node answers the requests of a batch one by one and may reorganise in
\* between: the blocks from height h on are of another chain than those below.
FetchAcross ==
    /\ phase = "run" /\ fetchNext <= batchTo
    /\ Len(fetched) < Prefetch
    /\ ReorgAnytime /\ Reorganise
    /\ \E h \in SubBatch \ {fetchNext} :
          /\ fetchNext..(h - 1) \subseteq DOMAIN chain
          /\ SubBatch \ (fetchNext..(h - 1)) \subseteq DOMAIN chain'
          /\ fetched' = Append(fetched, Put(Cut(chain', SubBatch), Cut(chain, fetchNext..(h - 1))))
    /\ fetchNext' = fetchNext + BatchSize
    /\ UNCHANGED <<dbVars, disk, loopVars, batchTo, faults>>

\* It gives up, because the node has no such block or its answers fail.
FetchFails ==
    /\ phase = "run" /\ fetchNext <= batchTo
    /\ \/ ~(SubBatch \subseteq DOMAIN chain) /\ UNCHANGED faults
       \/ Fault
    /\ batchTo' = fetchNext - 1
    /\ UNCHANGED <<nodeVars, hashCache, dbVars, disk, loopVars, fetchNext, fetched>>

\* PRIMARY KEY (height) of blocks, UNIQUE (hash) of transactions.
Duplicate(blocks) == \/ DOMAIN blocks \cap DOMAIN db # {}
                     \/ HoldsTx(blocks) /\ HoldsTx(db)
                     \/ \E g, h \in DOMAIN blocks : g # h /\ blocks[g].tx /\ blocks[h].tx

Commit ==
    /\ phase = "run" /\ fetched # << >> /\ ~Duplicate(Head(fetched))
    /\ db' = Put(db, Head(fetched))
    /\ progress' = CHOOSE h \in DOMAIN Head(fetched) :
                       \A k \in DOMAIN Head(fetched) : k <= h
    /\ fetched' = Tail(fetched)
    /\ UNCHANGED <<nodeVars, hashCache, syncHeight, disk, phase, current, target,
                   scanAt, fetchNext, batchTo, faults>>

\* A duplicate key is taken for a reorg not yet handled: the loop goes round
\* without writing a status.
CommitDuplicate ==
    /\ phase = "run" /\ fetched # << >> /\ Duplicate(Head(fetched))
    /\ EndCycle
    /\ UNCHANGED <<nodeVars, hashCache, dbVars, disk, progress, faults>>

\* Any other failure, in which the transaction may have committed.
CommitFails ==
    /\ phase = "run" /\ fetched # << >> /\ ~Duplicate(Head(fetched)) /\ Fault
    /\ db' \in {db, Put(db, Head(fetched))}
    /\ StatusAt(progress) /\ EndCycle
    /\ UNCHANGED <<nodeVars, hashCache, disk, progress>>

\* Success is reported also when the producer gave up.
BatchReturns ==
    /\ phase = "run" /\ fetched = << >> /\ fetchNext > batchTo
    /\ StatusAt(progress) /\ EndCycle
    /\ UNCHANGED <<nodeVars, hashCache, db, disk, progress, faults>>

-----------------------------------------------------------------------------
(* Crashes.                                                                *)

\* The process restarts.  perform_startup_check sets the progress and, when
\* blocks are missing, writes a status; it leaves both alone if the node does
\* not answer.
ProcessCrash ==
    /\ Fault
    /\ EndCycle
    /\ hashCache' = Empty
    /\ \/ /\ progress' = Max(MaxIndexed, syncHeight)
          /\ IF progress' < Tip THEN StatusAt(progress') ELSE UNCHANGED syncHeight
       \/ /\ progress' = 0 /\ UNCHANGED syncHeight
    /\ UNCHANGED <<nodeVars, db, disk>>

\* PostgreSQL flushes what it has committed (synchronous_commit is off).
Flush ==
    /\ disk # [db |-> db, syncHeight |-> syncHeight]
    /\ disk' = [db |-> db, syncHeight |-> syncHeight]
    /\ UNCHANGED <<nodeVars, hashCache, dbVars, loopVars, batchVars, faults>>

\* PostgreSQL restarts with what it had flushed.  Every connection is taken to be
\* one that fails at its first use after that, so the cycle ends without another
\* commit.
DatabaseCrash ==
    /\ Fault
    /\ db' = disk.db /\ syncHeight' = disk.syncHeight
    /\ EndCycle
    /\ UNCHANGED <<nodeVars, hashCache, disk, progress>>

-----------------------------------------------------------------------------

Indexer == \/ ReadHeights \/ DetectReorg \/ ScanForAncestor
           \/ RefuseRollback \/ Rollback \/ StartBatch \/ CaughtUp
           \/ Fetch \/ FetchFails \/ Commit \/ CommitDuplicate \/ BatchReturns

Next == \/ NodeMines \/ NodeReorganises \/ CacheExpires \/ ApiLookUp
        \/ Indexer \/ FetchAcross \/ RollbackFails \/ CommitFails
        \/ ProcessCrash \/ Flush \/ DatabaseCrash

Spec == Init /\ [][Next]_vars

\* The indexer thread runs, and the cache expires by age if by nothing else.
FairSpec == Spec /\ WF_vars(Indexer) /\ WF_vars(CacheExpires)

-----------------------------------------------------------------------------
(* Properties.                                                             *)

TypeOK ==
    /\ DOMAIN chain \subseteq Heights /\ \A h \in DOMAIN chain : chain[h] \in Blocks
    /\ forks \in 0..MaxForks
    /\ DOMAIN hashCache \subseteq Heights
    /\ DOMAIN db \subseteq Heights /\ \A h \in DOMAIN db : db[h] \in Blocks
    /\ syncHeight \in Heights /\ disk.syncHeight \in Heights
    /\ phase \in {"loop", "detect", "scan", "rollback", "index", "run"}
    /\ {current, target, progress, scanAt} \subseteq Heights
    /\ fetchNext \in Nat /\ batchTo \in -1..MaxHeight
    /\ Len(fetched) <= Prefetch /\ faults \in 0..MaxFaults

\* Table blocks has no gap, whatever fails or crashes when: the indexer resumes
\* from MAX(height), so a missing height would stay missing.
NoGap == \A h \in DOMAIN db : 0..h \subseteq DOMAIN db

\* The table only ever grows at its top, by at most one sub-batch at a time, and
\* is cut by at most MAX_REORG_DEPTH blocks ("a single rollback should never
\* delete more than MAX_REORG_DEPTH blocks") or by a crash of the database.
Table == INSTANCE BlocksTable WITH rows <- DOMAIN db,
                                   flushed <- DOMAIN disk.db,
                                   Limit <- MaxHeight,
                                   MaxAppend <- BatchSize,
                                   MaxRollback <- MaxReorgDepth
TableSpec == Table!Spec

\* Every stored block names the stored block below it as its parent.
Linked == \A h \in DOMAIN db \ {0} :
              h - 1 \in DOMAIN db => db[h].parent = db[h - 1].fork

\* A rollback deletes only blocks the node has abandoned.
OnlyStaleDeleted ==
    [][Rollback => \A h \in DOMAIN db \ DOMAIN db' :
                       h \in DOMAIN chain => chain[h].fork # db[h].fork]_vars

\* Once the node leaves its chain alone the table comes to hold exactly that
\* chain, unless the last fork is still shorter than what is indexed.
Converges == <>[](MaxIndexed <= Tip => db = chain)
=============================================================================
