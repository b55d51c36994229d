------------------------------ MODULE CopyCommits ------------------------------
(***************************************************************************)
(* The consumer's transactions on pooled connections, above a PostgreSQL   *)
(* that forgets: COPY sessions run with synchronous_commit = off, so that  *)
(* an outage of the server takes table blocks back to what was flushed,    *)
(* while the process keeps its place in the running call.                  *)
(*                                                                         *)
(* Composes ConnectionPool with the part of a call of                      *)
(* index_chain_data_batch that decides what is written where: a sub-batch  *)
(* per transaction, in order, until one fails.  How sub-batches get to the *)
(* consumer is the subject of IndexPipeline, reorganisations that of       *)
(* BlockIndexer.                                                           *)
(***************************************************************************)
EXTENDS ConnectionPool

CONSTANT MaxHeight     \* bound: the last height that is indexed

VARIABLES db,          \* the heights in table blocks
          disk,        \* those of them that a crash of the server leaves
          calling,     \* a call of index_chain_data_batch is running
          nextHeight   \* the height of its next sub-batch

callVars == <<calling, nextHeight>>
allVars  == <<vars, db, disk, callVars>>

MaxIndexed == IF db = {} THEN 0 ELSE CHOOSE h \in db : \A k \in db : k <= h

CInit == /\ Init
         /\ db = {0} /\ disk = {0}
         /\ calling = FALSE /\ nextHeight = 0

\* The consumer of the last call has been joined; the main loop reads MAX(height)
\* on its own connection, which it resets.
StartCall == /\ ~calling /\ \A b \in Txns : pc[b] = "idle"
             /\ up
             /\ MaxIndexed < MaxHeight
             /\ calling' = TRUE /\ nextHeight' = MaxIndexed + 1
             /\ UNCHANGED <<vars, db, disk>>

\* The producer's range is exhausted.
EndCall == /\ calling /\ nextHeight > MaxHeight
           /\ calling' = FALSE /\ nextHeight' = 0
           /\ UNCHANGED <<vars, db, disk>>

\* The consumer begins with its next sub-batch.
NextSubBatch(b) == /\ calling /\ nextHeight <= MaxHeight
                   /\ Enter(b)
                   /\ UNCHANGED <<db, disk, callVars>>

\* The COMMIT is acknowledged before it is flushed.
CommitSubBatch(b) == /\ Commit(b)
                     /\ db' = db \union {nextHeight}
                     /\ nextHeight' = nextHeight + 1
                     /\ UNCHANGED <<disk, calling>>

\* acquire, BEGIN, COPY or COMMIT throws: the consumer fails and the call ends.
CallFails(b) == /\ \/ GiveUp(b) \/ Discard(b) \/ BeginFails(b)
                   \/ Abort(b) \/ TxnSevered(b)
                /\ calling' = FALSE /\ nextHeight' = 0
                /\ UNCHANGED <<db, disk>>

GoesOn(b) == /\ \/ Sleep(b) \/ Timeout(b) \/ Take(b) \/ Reconnect(b)
                \/ Begin(b) \/ Recover(b) \/ Release(b)
             /\ UNCHANGED <<db, disk, callVars>>

Flush == /\ disk # db /\ disk' = db
         /\ UNCHANGED <<vars, db, callVars>>

\* PostgreSQL or its machine goes down, with what it had not flushed.
ServerCrashes == /\ ServerStops
                 /\ db' = disk
                 /\ UNCHANGED <<disk, callVars>>

EnvironmentOfPool == /\ ServerStarts \/ LinkDrops
                     /\ UNCHANGED <<db, disk, callVars>>

CNext == \/ StartCall \/ EndCall
         \/ \E b \in Txns : \/ NextSubBatch(b) \/ CommitSubBatch(b)
                            \/ CallFails(b) \/ GoesOn(b)
         \/ Flush \/ ServerCrashes \/ EnvironmentOfPool

CSpec == CInit /\ [][CNext]_allVars

-----------------------------------------------------------------------------
\* The table is a consistent prefix whatever crashes.  Indexing resumes from
\* MAX(height), so that a height which is missing below it stays missing.
NoGap == \A h \in db : 0..h \subseteq db
=============================================================================
