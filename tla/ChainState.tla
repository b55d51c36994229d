------------------------------ MODULE ChainState ------------------------------
(***************************************************************************)
(* BlockchainState, the snapshot of the node every page is made from, and  *)
(* EventProcessor, the one thread that keeps it fresh: after a block       *)
(* event, after a batch of transaction events, by retries after a failure  *)
(* and by a heartbeat when nothing happens.                                *)
(*                                                                         *)
(* What comes from the queue is a number of block events and whether there *)
(* are transaction events: these are put aside until the queue is empty,   *)
(* so their order does not matter.  A snapshot is the tip it shows; "torn" *)
(* says that its five parts are not of one refresh.  The calls that        *)
(* invalidate the response cache are steps of RpcResponseCache.            *)
(*                                                                         *)
(* The processor asks the indexer, a thread of its own, for is_syncing()   *)
(* and blocks_behind().  Both rise and fall at any time, and each answer   *)
(* is used at once: it is a choice where it is asked for.                  *)
(*                                                                         *)
(* Time is counted in ticks of kRefreshRetryInterval or so.  A call of the *)
(* node takes less than one and may see the clock advance; the sleep at    *)
(* the end of an idle round stands for all those of a tick in which        *)
(* nothing happens.                                                        *)
(***************************************************************************)
EXTENDS Integers

CONSTANTS Retry,       \* kRefreshRetryInterval
          Heartbeat,   \* kHeartbeatAfterSeconds
          Stale,       \* kStaleAfterSeconds
          MaxTip,      \* bound: blocks mined
          MaxTxs,      \* bound: times transactions arrive
          MaxOutages,  \* bound: outages of the node
          MaxFaults    \* bound: lost block events and partly failed refreshes

ASSUME ChainStateAssumption ==
    /\ Retry \in Nat \ {0} /\ Heartbeat \in Nat \ {0} /\ Stale \in Nat
    /\ MaxTip \in Nat /\ MaxTxs \in Nat /\ MaxOutages \in Nat /\ MaxFaults \in Nat

\* 10, 60 and 150 seconds: the heartbeat comes before the snapshot counts as stale.
ASSUME StaleAssumption == Retry <= Stale /\ Heartbeat < Stale

VARIABLES
    tip, up, txs, outages, faults,  \* the node, and what has gone wrong so far
    blocks, txEvents,               \* the queue
    chain, torn,     \* what the snapshot shows
    age,             \* time since last_successful_refresh, -1 before the first
    failed,          \* last_refresh_failed
    whole,           \* a refresh has once succeeded in all its parts
    proxy,           \* tip shown by proxy_network_info, Never if it is empty
    late,            \* it was stored after the snapshot moved on, or not stored then
    pc, saw, batch,  \* the processor, has_event, and whether tx_batch has events
    needed,          \* state_refresh_needed
    sinceRetry,      \* time since last_refresh_retry
    web              \* a request that is about to store network info, Never if none

nodeVars  == <<tip, up, txs, outages, faults>>
queueVars == <<blocks, txEvents>>
stateVars == <<chain, torn, age, failed, whole>>
procVars  == <<pc, saw, batch, needed, sinceRetry>>
infoVars  == <<proxy, late, web>>
vars == <<nodeVars, queueVars, stateVars, procVars, infoVars>>

Never == -1

\* main has called update_state_on_block_event before the threads start.
Init == /\ tip = 0 /\ up \in BOOLEAN /\ txs = 0 /\ outages = 0 /\ faults = 0
        /\ blocks = 0 /\ txEvents = FALSE
        /\ \/ up /\ chain = 0 /\ torn = FALSE /\ age = 0 /\ failed = FALSE
           \/ ~up /\ chain = Never /\ torn = FALSE /\ age = -1 /\ failed = TRUE
           \/ up /\ chain \in {Never, 0} /\ torn = TRUE /\ age = -1 /\ failed = TRUE
        /\ whole = (age = 0)
        /\ proxy = Never /\ late = FALSE /\ web = Never
        /\ pc = "drain" /\ saw = FALSE /\ batch = FALSE
        /\ needed = FALSE /\ sinceRetry = Retry

-----------------------------------------------------------------------------
(* The node and the listener.                                             *)

NodeMines == /\ up /\ tip < MaxTip
             /\ tip' = tip + 1
             /\ \/ blocks' = blocks + 1 /\ UNCHANGED faults
                \/ faults < MaxFaults /\ faults' = faults + 1 /\ UNCHANGED blocks
             /\ UNCHANGED <<up, txs, outages, txEvents, stateVars, procVars, infoVars>>

TxsArrive == /\ up /\ txs < MaxTxs
             /\ txs' = txs + 1 /\ txEvents' = TRUE
             /\ UNCHANGED <<tip, up, outages, faults, blocks, stateVars, procVars,
                            infoVars>>

NodeFails == /\ up /\ outages < MaxOutages
             /\ up' = FALSE /\ outages' = outages + 1
             /\ UNCHANGED <<tip, txs, faults, queueVars, stateVars, procVars, infoVars>>

NodeReturns == /\ ~up /\ up' = TRUE
               /\ UNCHANGED <<tip, txs, outages, faults, queueVars, stateVars,
                              procVars, infoVars>>

-----------------------------------------------------------------------------
(* BlockchainState.                                                        *)

Least(m, n) == IF m <= n THEN m ELSE n

\* A duration later by d, as far as it matters.
Later(t, d, most) == IF t = -1 THEN -1 ELSE Least(t + d, most)

IsSnapshotStale == failed \/ age = -1 \/ age > Stale

ConfirmFresh == age' = 0 /\ failed' = FALSE

\* d is the time the call took.
MarkUnreachable(d) == failed' = TRUE /\ age' = Later(age, d, Stale + 1)

\* The three ends of update_state_on_block_event.
RefreshWhole == /\ up
                /\ chain' = tip /\ torn' = FALSE
                /\ age' = 0 /\ failed' = FALSE /\ whole' = TRUE
                /\ UNCHANGED faults

\* Mutant: the time is stored whatever the answer.
AlwaysStamped(d) == /\ ~up
                    /\ age' = 0 /\ failed' = FALSE
                    /\ UNCHANGED <<chain, torn, whole, faults>>

\* No answer, or one that is not five results.
RefreshFails(d) == /\ ~up
                   /\ MarkUnreachable(d)
                   /\ UNCHANGED <<chain, torn, whole, faults>>

\* Some parts fail: they are kept or cleared, the others are new.
RefreshPartly(d) == /\ up /\ faults < MaxFaults /\ faults' = faults + 1
                    /\ chain' \in {chain, tip} /\ torn' = TRUE
                    /\ failed' = TRUE /\ age' = Later(age, d, Stale + 1)
                    /\ UNCHANGED whole

Refresh(ok, d) == \/ ok /\ RefreshWhole
                  \/ ~ok /\ (RefreshFails(d) \/ RefreshPartly(d))

\* get_cached_info_extended reads the first three value pools: in a snapshot without
\* the chain's part there are none, and the process dies of it.
Unfetched(c) == c = Never

\* broadcast_network_info_from_cache, after a refresh.
StoreInfo(next) == IF Unfetched(chain')
                   THEN pc' = "dead" /\ UNCHANGED <<proxy, late>>
                   ELSE pc' = next /\ proxy' = chain' /\ late' = FALSE

-----------------------------------------------------------------------------
(* EventProcessor: draining the queue.                                     *)

PopBlock == /\ pc = "drain" /\ blocks > 0
            /\ blocks' = blocks - 1 /\ saw' = TRUE /\ pc' = "block"
            /\ UNCHANGED <<nodeVars, txEvents, stateVars, batch, needed, sinceRetry, infoVars>>

\* process_block_event stores the network info whether or not the refresh succeeded.
ProcessBlock == /\ pc = "block"
                /\ \E ok \in BOOLEAN, d \in {0, 1} :
                      /\ Refresh(ok, d)
                      /\ needed' = ~ok
                      /\ sinceRetry' = Later(sinceRetry, d, Retry)
                /\ StoreInfo("drain")
                /\ UNCHANGED <<tip, up, txs, outages, queueVars, saw, batch, web>>

PopTxs == /\ pc = "drain" /\ txEvents
          /\ txEvents' = FALSE /\ saw' = TRUE /\ batch' = TRUE
          /\ UNCHANGED <<nodeVars, blocks, stateVars, pc, needed, sinceRetry, infoVars>>

QueueEmpty == pc = "drain" /\ blocks = 0 /\ ~txEvents

NextRound == pc' = "drain" /\ saw' = FALSE /\ batch' = FALSE

\* Mutant: a good answer about the mempool ends the retries.
MempoolOk == FALSE

AfterMempool == needed

\* update_state_on_transaction_event, and what its caller makes of the result.
RefreshMempool(d) == \/ up /\ ConfirmFresh /\ needed' = AfterMempool
                     \/ ~up /\ MarkUnreachable(d) /\ needed' = TRUE

\* process_transaction_events, which does nothing while the indexer is syncing.
ProcessTxs ==
    /\ QueueEmpty /\ batch
    /\ \/ UNCHANGED <<stateVars, needed, sinceRetry>>
       \/ /\ \E d \in {0, 1} :
                /\ RefreshMempool(d)
                /\ sinceRetry' = Later(sinceRetry, d, Retry)
          /\ UNCHANGED <<chain, torn, whole>>
    /\ NextRound
    /\ UNCHANGED <<nodeVars, queueVars, infoVars>>

\* A round with events is followed by the next at once.
RoundEnds == /\ QueueEmpty /\ ~batch
             /\ IF saw THEN NextRound ELSE pc' = "retry" /\ UNCHANGED <<saw, batch>>
             /\ UNCHANGED <<nodeVars, queueVars, stateVars, needed, sinceRetry, infoVars>>

-----------------------------------------------------------------------------
(* retry_state_refresh_if_needed and heartbeat_if_quiet.                   *)

\* Mutant: nothing is sent or stored after a recovery.
NoRecovery(next) == pc' = next /\ UNCHANGED <<proxy, late>>

\* broadcast_recovery_update gives up when the indexer is more than 2 blocks behind.
Recovery(next) ==
    \/ pc' = next /\ late' = (proxy \notin {Never, chain'}) /\ UNCHANGED proxy
    \/ StoreInfo(next)

RetryDue == (needed \/ age = -1) /\ sinceRetry >= Retry

NoRetry == /\ pc = "retry" /\ ~RetryDue
           /\ pc' = "heartbeat"
           /\ UNCHANGED <<nodeVars, queueVars, stateVars, saw, batch, needed, sinceRetry,
                          infoVars>>

RetryRefresh == /\ pc = "retry" /\ RetryDue
                /\ \E ok \in BOOLEAN, d \in {0, 1} :
                      /\ Refresh(ok, d)
                      /\ sinceRetry' = d
                      /\ \/ ok /\ needed' = FALSE /\ Recovery("heartbeat")
                         \/ ~ok /\ pc' = "heartbeat" /\ UNCHANGED <<needed, proxy, late>>
                /\ UNCHANGED <<tip, up, txs, outages, queueVars, saw, batch, web>>

\* Mutant: the test of state_refresh_needed is the wrong way round.
OnlyWhenNeeded == needed /\ age >= Heartbeat

Quiet == ~needed /\ age >= Heartbeat

NoHeartbeat == /\ pc = "heartbeat" /\ ~Quiet
               /\ pc' = "sleep"
               /\ UNCHANGED <<nodeVars, queueVars, stateVars, saw, batch, needed, sinceRetry,
                              infoVars>>

ProbeFails == /\ pc = "heartbeat" /\ Quiet /\ ~up
              /\ \E d \in {0, 1} : /\ MarkUnreachable(d)
                                   /\ sinceRetry' = Later(sinceRetry, d, Retry)
              /\ needed' = TRUE /\ pc' = "sleep"
              /\ UNCHANGED <<nodeVars, queueVars, chain, torn, whole, saw, batch, infoVars>>

\* Mutant: any answer confirms the snapshot.
AnyTip == TRUE

SameTip == tip = chain

ProbeConfirms == /\ pc = "heartbeat" /\ Quiet /\ up /\ SameTip
                 /\ \E d \in {0, 1} : sinceRetry' = Later(sinceRetry, d, Retry)
                 /\ ConfirmFresh /\ pc' = "sleep"
                 /\ UNCHANGED <<nodeVars, queueVars, chain, torn, whole, saw, batch, needed,
                                infoVars>>

ProbeFindsTip == /\ pc = "heartbeat" /\ Quiet /\ up /\ ~SameTip
                 /\ \E d \in {0, 1} : /\ age' = Later(age, d, Stale + 1)
                                      /\ sinceRetry' = Later(sinceRetry, d, Retry)
                 /\ pc' = "missed"
                 /\ UNCHANGED <<nodeVars, queueVars, chain, torn, failed, whole, saw, batch,
                                needed, infoVars>>

RefreshMissed == /\ pc = "missed"
                 /\ \E ok \in BOOLEAN, d \in {0, 1} :
                       /\ Refresh(ok, d)
                       /\ needed' = ~ok
                       /\ sinceRetry' = Later(sinceRetry, d, Retry)
                       /\ \/ ok /\ Recovery("sleep")
                          \/ ~ok /\ pc' = "sleep" /\ UNCHANGED <<proxy, late>>
                 /\ UNCHANGED <<tip, up, txs, outages, queueVars, saw, batch, web>>

Sleep == /\ pc = "sleep"
         /\ age' = Later(age, 1, Stale + 1) /\ sinceRetry' = Later(sinceRetry, 1, Retry)
         /\ NextRound
         /\ UNCHANGED <<nodeVars, queueVars, chain, torn, failed, whole, needed, infoVars>>

Processor == \/ PopBlock \/ ProcessBlock \/ PopTxs \/ ProcessTxs \/ RoundEnds
             \/ NoRetry \/ RetryRefresh
             \/ NoHeartbeat \/ ProbeFails \/ ProbeConfirms \/ ProbeFindsTip \/ RefreshMissed
             \/ Sleep

-----------------------------------------------------------------------------
(* NetworkController::get_network_info fills proxy_network_info when it finds it   *)
(* empty, in two steps without a lock around them.                         *)

WebReads == /\ pc # "dead" /\ web = Never /\ proxy = Never
            /\ IF Unfetched(chain) THEN pc' = "dead" /\ UNCHANGED web
                                   ELSE web' = chain /\ UNCHANGED pc
            /\ UNCHANGED <<nodeVars, queueVars, stateVars, saw, batch, needed, sinceRetry,
                           proxy, late>>

WebStores == /\ pc # "dead" /\ web # Never
             /\ proxy' = web /\ late' = (web # chain) /\ web' = Never
             /\ UNCHANGED <<nodeVars, queueVars, stateVars, procVars>>

Next == \/ NodeMines \/ TxsArrive \/ NodeFails \/ NodeReturns
        \/ Processor \/ WebReads \/ WebStores

Spec == Init /\ [][Next]_vars

\* The thread runs, its calls end by answer or time-out, and a request ends.
FairSpec == Spec /\ WF_vars(Processor) /\ WF_vars(WebStores)

-----------------------------------------------------------------------------
(* What the code promises.                                                 *)

Numbers == /\ tip \in 0..MaxTip /\ txs \in 0..MaxTxs
           /\ outages \in 0..MaxOutages /\ faults \in 0..MaxFaults
           /\ blocks \in 0..MaxTip
           /\ chain \in Never..MaxTip /\ proxy \in Never..MaxTip /\ web \in Never..MaxTip
           /\ age \in -1..(Stale + 1) /\ sinceRetry \in 0..Retry

Flags == /\ up \in BOOLEAN /\ txEvents \in BOOLEAN
         /\ torn \in BOOLEAN /\ failed \in BOOLEAN /\ whole \in BOOLEAN
         /\ late \in BOOLEAN /\ saw \in BOOLEAN /\ batch \in BOOLEAN /\ needed \in BOOLEAN

\* Types; what a complete refresh leaves behind; and what belongs to a round is
\* gone when the round is idle.
TypeOK == /\ Numbers /\ Flags
          /\ pc \in {"drain", "block", "retry", "heartbeat", "missed", "sleep", "dead"}
          /\ whole => age # -1 /\ chain # Never
          /\ pc \in {"retry", "heartbeat", "missed", "sleep"} => ~saw /\ ~batch

\* An age beyond kStaleAfterSeconds means that the node could not be reached: in
\* quiet times the heartbeat renews the snapshot long before.
AgeMeansFailure == age > Stale => failed

\* Once a refresh has succeeded, a failure or a snapshot of parts of different
\* refreshes is always to be retried, also when an answer about the mempool has
\* made it look fresh again.  (Before, an age of -1 takes the flag's place.)
FailureIsRetried == whole /\ (failed \/ torn) => needed

\* If the node is up in the end, the snapshot comes to show its tip, fresh and in
\* all parts, even if the event about the tip was lost.  Two exceptions: a process
\* that died of a snapshot it never had; and parts missing since the start, which
\* an answer about the mempool before the first whole refresh makes nobody retry.
SnapshotCatchesUp ==
    <>[]up => <>[]\/ pc = "dead"
                  \/ chain = tip /\ ~IsSnapshotStale /\ (torn => ~whole)

\* If the node is down in the end, every page comes to say so.
OutageShown == <>[]~up => <>[](pc = "dead" \/ IsSnapshotStale)

\* The network info the pages begin with shows the tip in the end, unless nobody
\* asked for it, a request put an older one in its place, the indexer was behind
\* when the snapshot recovered, or no refresh has ever been whole, which an answer
\* about the mempool makes nobody retry.
NetworkInfoCatchesUp ==
    <>[]up => <>[](pc = "dead" \/ proxy \in {Never, tip} \/ late \/ ~whole)
=============================================================================
