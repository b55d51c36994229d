--------------------------- MODULE ChainStateProofs ---------------------------
(***************************************************************************)
(* Proofs about ChainState, for every value of its constants.              *)
(*                                                                         *)
(* The inductive invariant IInv says what the retry and the heartbeat rely *)
(* on: a failure is flagged until a whole refresh, and where in its round  *)
(* the processor is bounds the age of a snapshot that has not failed.      *)
(***************************************************************************)
EXTENDS ChainState, TLAPS

\* While a retry is due to come, a snapshot that looks fresh is no older than the
\* last retry, and that is due before the interval is over.
RetryComes == needed /\ ~failed =>
                 /\ age <= sinceRetry
                 /\ pc \in {"heartbeat", "sleep"} => sinceRetry < Retry

\* Otherwise the heartbeat comes first.
HeartbeatComes == ~needed /\ ~failed =>
                     /\ age <= Heartbeat + 1
                     /\ pc \notin {"missed", "dead"} => age <= Heartbeat
                     /\ pc = "sleep" => age < Heartbeat

IInv == /\ TypeOK /\ FailureIsRetried /\ RetryComes /\ HeartbeatComes
        /\ blocks <= tip
        /\ age = -1 => failed
        /\ pc = "missed" => ~needed

-----------------------------------------------------------------------------
USE ChainStateAssumption, StaleAssumption

LEMMA InitIInv == Init => IInv
<1> SUFFICES ASSUME Init PROVE IInv
  OBVIOUS
<1> USE DEF Init, Never
<1>1. age \in {-1, 0} /\ chain \in {-1, 0}
  OBVIOUS
<1>2. Flags
  BY DEF Flags
<1>3. age = -1 => failed
  OBVIOUS
<1>4. age = 0 => chain = 0 /\ failed = FALSE /\ torn = FALSE
  OBVIOUS
<1>5. whole => age = 0
  OBVIOUS
<1>6. TypeOK
  <2>1. Numbers
    BY <1>1 DEF Numbers
  <2>2. whole => age # -1 /\ chain # Never
    BY <1>5, <1>4
  <2> QED  BY <1>2, <2>1, <2>2 DEF TypeOK
<1>7. FailureIsRetried
  BY <1>4, <1>5 DEF FailureIsRetried
<1>8. RetryComes
  BY DEF RetryComes
<1>9. HeartbeatComes
  BY <1>1, <1>3 DEF HeartbeatComes
<1> QED  BY <1>3, <1>6, <1>7, <1>8, <1>9 DEF IInv

\* The two durations, of the snapshot and of the retries, stay in their ranges and
\* grow by at most what a call takes.
LEMMA AgeGrows ==
    ASSUME Numbers, NEW d \in {0, 1}
    PROVE  /\ Later(age, d, Stale + 1) \in -1..(Stale + 1)
           /\ Later(age, d, Stale + 1) = -1 <=> age = -1
           /\ age # -1 => Later(age, d, Stale + 1) <= age + d
BY DEF Numbers, Later, Least

LEMMA RetryGrows ==
    ASSUME Numbers, NEW d \in {0, 1}
    PROVE  /\ Later(sinceRetry, d, Retry) \in 0..Retry
           /\ Later(sinceRetry, d, Retry) >= sinceRetry
           /\ sinceRetry < Retry => Later(sinceRetry, d, Retry) = sinceRetry + d
BY DEF Numbers, Later, Least

LEMMA Unreachable ==
    ASSUME Numbers, NEW d \in {0, 1}, MarkUnreachable(d)
    PROVE  /\ failed' /\ failed' \in BOOLEAN
           /\ age' \in -1..(Stale + 1) /\ (age' = -1 <=> age = -1)
<1>1. failed' /\ failed' \in BOOLEAN /\ age' = Later(age, d, Stale + 1)
  BY Zenon DEF MarkUnreachable
<1> QED  BY <1>1, AgeGrows

\* What a refresh leaves behind.
LEMMA RefreshLeaves ==
    ASSUME TypeOK, age = -1 => failed, NEW ok \in BOOLEAN, NEW d \in {0, 1}, Refresh(ok, d)
    PROVE  /\ chain' \in Never..MaxTip /\ age' \in -1..(Stale + 1) /\ faults' \in 0..MaxFaults
           /\ torn' \in BOOLEAN /\ failed' \in BOOLEAN /\ whole' \in BOOLEAN
           /\ whole' => age' # -1 /\ chain' # Never
           /\ age' = -1 => failed'
           /\ ok => age' = 0 /\ ~failed' /\ ~torn'
           /\ ~ok => failed' /\ whole' = whole
<1> USE DEF TypeOK
<1>1. CASE ok /\ RefreshWhole
  <2>1. /\ torn' \in BOOLEAN /\ failed' \in BOOLEAN /\ whole' \in BOOLEAN
        /\ ~failed' /\ ~torn'
    BY <1>1, Zenon DEF RefreshWhole
  <2>2. age' = 0 /\ chain' = tip /\ faults' = faults
    BY <1>1, Zenon DEF RefreshWhole
  <2>3. chain' \in Never..MaxTip /\ faults' \in 0..MaxFaults /\ chain' # Never
    BY <2>2 DEF Numbers, Never
  <2> QED  BY <1>1, <2>1, <2>2, <2>3
<1>2. CASE ~ok /\ RefreshFails(d)
  <2>1. UNCHANGED <<chain, torn, whole, faults>> /\ MarkUnreachable(d)
    BY <1>2 DEF RefreshFails
  <2> QED  BY <1>2, <2>1, Unreachable DEF Numbers, Flags
<1>3. CASE ~ok /\ RefreshPartly(d)
  <2>1. MarkUnreachable(d)
    BY <1>3, Zenon DEF RefreshPartly, MarkUnreachable
  <2>2. torn' \in BOOLEAN /\ whole' = whole
    BY <1>3, Zenon DEF RefreshPartly
  <2>3. chain' \in {chain, tip} /\ faults' \in 0..MaxFaults
    BY <1>3 DEF RefreshPartly, Numbers
  <2>4. chain' \in Never..MaxTip /\ (chain # Never => chain' # Never)
    BY <2>3 DEF Numbers, Never
  <2> QED  BY <1>3, <2>1, <2>2, <2>3, <2>4, Unreachable DEF Flags
<1> QED  BY <1>1, <1>2, <1>3 DEF Refresh

\* What storing the network info leaves behind.
LEMMA InfoStored ==
    ASSUME TypeOK, chain' \in Never..MaxTip, NEW next, StoreInfo(next)
    PROVE  /\ proxy' \in Never..MaxTip /\ late' \in BOOLEAN
           /\ pc' \in {next, "dead"}
<1>1. proxy' \in {proxy, chain'} /\ late' \in {late, FALSE} /\ pc' \in {next, "dead"}
  BY Zenon DEF StoreInfo
<1> QED  BY <1>1 DEF TypeOK, Numbers, Flags

LEMMA RecoveryStored ==
    ASSUME TypeOK, chain' \in Never..MaxTip, NEW next, Recovery(next)
    PROVE  /\ proxy' \in Never..MaxTip /\ late' \in BOOLEAN
           /\ pc' \in {next, "dead"}
BY InfoStored DEF Recovery, TypeOK, Numbers

\* Steps of the node and of a request that find the processor alone.
LEMMA Untouched ==
    ASSUME IInv, UNCHANGED <<stateVars, procVars>>, Numbers', Flags', blocks' <= tip'
    PROVE  IInv'
BY DEF IInv, stateVars, procVars, TypeOK, FailureIsRetried, RetryComes, HeartbeatComes

\* A refresh, whatever its end, leaves no failure that nobody retries and no age
\* that nobody bounds.
LEMMA RefreshSettles ==
    ASSUME NEW ok \in BOOLEAN,
           ok => age' = 0 /\ ~failed' /\ ~torn' /\ ~needed',
           ~ok => failed' /\ (needed' \/ ~whole')
    PROVE  FailureIsRetried' /\ RetryComes' /\ HeartbeatComes'
<1>1. CASE ok
  BY <1>1 DEF FailureIsRetried, RetryComes, HeartbeatComes
<1>2. CASE ~ok
  BY <1>2 DEF FailureIsRetried, RetryComes, HeartbeatComes
<1> QED  BY <1>1, <1>2

LEMMA StepIInv == IInv /\ [Next]_vars => IInv'
<1> SUFFICES ASSUME IInv, [Next]_vars PROVE IInv'
  OBVIOUS
<1> USE DEF IInv, TypeOK
<1>1. CASE NodeMines
  <2>1. Numbers' /\ blocks' <= tip'
    BY <1>1, SMT DEF NodeMines, Numbers, nodeVars, queueVars, stateVars, procVars, infoVars
  <2>2. Flags'
    BY <1>1, Zenon DEF NodeMines, Flags, nodeVars, queueVars, stateVars, procVars, infoVars
  <2>3. UNCHANGED <<stateVars, procVars>>
    BY <1>1 DEF NodeMines
  <2> QED  BY <2>1, <2>2, <2>3, Untouched
<1>2. CASE TxsArrive
  <2>1. Numbers' /\ blocks' <= tip'
    BY <1>2, SMT DEF TxsArrive, Numbers, nodeVars, queueVars, stateVars, procVars, infoVars
  <2>2. Flags'
    BY <1>2, Zenon DEF TxsArrive, Flags, nodeVars, queueVars, stateVars, procVars, infoVars
  <2>3. UNCHANGED <<stateVars, procVars>>
    BY <1>2 DEF TxsArrive
  <2> QED  BY <2>1, <2>2, <2>3, Untouched
<1>3. CASE NodeFails
  <2>1. Numbers' /\ blocks' <= tip'
    BY <1>3, SMT DEF NodeFails, Numbers, nodeVars, queueVars, stateVars, procVars, infoVars
  <2>2. Flags'
    BY <1>3, Zenon DEF NodeFails, Flags, nodeVars, queueVars, stateVars, procVars, infoVars
  <2>3. UNCHANGED <<stateVars, procVars>>
    BY <1>3 DEF NodeFails
  <2> QED  BY <2>1, <2>2, <2>3, Untouched
<1>4. CASE NodeReturns
  <2>1. Numbers' /\ blocks' <= tip'
    BY <1>4, SMT DEF NodeReturns, Numbers, nodeVars, queueVars, stateVars, procVars, infoVars
  <2>2. Flags'
    BY <1>4, Zenon DEF NodeReturns, Flags, nodeVars, queueVars, stateVars, procVars, infoVars
  <2>3. UNCHANGED <<stateVars, procVars>>
    BY <1>4 DEF NodeReturns
  <2> QED  BY <2>1, <2>2, <2>3, Untouched
<1>5. CASE WebStores
  <2>1. Numbers' /\ blocks' <= tip'
    BY <1>5, SMT DEF WebStores, Numbers, Never, nodeVars, queueVars, stateVars, procVars, infoVars
  <2>2. Flags'
    BY <1>5, Zenon DEF WebStores, Flags, nodeVars, queueVars, stateVars, procVars, infoVars
  <2>3. UNCHANGED <<stateVars, procVars>>
    BY <1>5 DEF WebStores
  <2> QED  BY <2>1, <2>2, <2>3, Untouched
<1>6. CASE PopBlock
  <2>1. Numbers' /\ blocks' <= tip'
    BY <1>6, SMT DEF PopBlock, Numbers, nodeVars, queueVars, stateVars, procVars, infoVars
  <2>2. Flags'
    BY <1>6, Zenon DEF PopBlock, NextRound, Flags, nodeVars, queueVars, stateVars, procVars, infoVars
  <2> QED  BY <1>6, <2>1, <2>2 DEF PopBlock, FailureIsRetried, RetryComes, HeartbeatComes, RetryDue, Quiet, NextRound, QueueEmpty, stateVars, nodeVars
<1>7. CASE PopTxs
  <2>1. Numbers' /\ blocks' <= tip'
    BY <1>7, SMT DEF PopTxs, Numbers, nodeVars, queueVars, stateVars, procVars, infoVars
  <2>2. Flags'
    BY <1>7, Zenon DEF PopTxs, NextRound, Flags, nodeVars, queueVars, stateVars, procVars, infoVars
  <2> QED  BY <1>7, <2>1, <2>2 DEF PopTxs, FailureIsRetried, RetryComes, HeartbeatComes, RetryDue, Quiet, NextRound, QueueEmpty, stateVars, nodeVars
<1>8. CASE RoundEnds
  <2>1. Numbers' /\ blocks' <= tip'
    BY <1>8, SMT DEF RoundEnds, Numbers, nodeVars, queueVars, stateVars, procVars, infoVars
  <2>2. Flags'
    BY <1>8, Zenon DEF RoundEnds, NextRound, Flags, nodeVars, queueVars, stateVars, procVars, infoVars
  <2> QED  BY <1>8, <2>1, <2>2 DEF RoundEnds, FailureIsRetried, RetryComes, HeartbeatComes, RetryDue, Quiet, NextRound, QueueEmpty, stateVars, nodeVars
<1>9. CASE NoRetry
  <2>1. Numbers' /\ blocks' <= tip'
    BY <1>9, SMT DEF NoRetry, Numbers, nodeVars, queueVars, stateVars, procVars, infoVars
  <2>2. Flags'
    BY <1>9, Zenon DEF NoRetry, NextRound, Flags, nodeVars, queueVars, stateVars, procVars, infoVars
  <2> QED  BY <1>9, <2>1, <2>2 DEF Numbers, NoRetry, FailureIsRetried, RetryComes, HeartbeatComes, RetryDue, Quiet, NextRound, QueueEmpty, stateVars, nodeVars
<1>10. CASE NoHeartbeat
  <2>1. Numbers' /\ blocks' <= tip'
    BY <1>10, SMT DEF NoHeartbeat, Numbers, nodeVars, queueVars, stateVars, procVars, infoVars
  <2>2. Flags'
    BY <1>10, Zenon DEF NoHeartbeat, NextRound, Flags, nodeVars, queueVars, stateVars, procVars, infoVars
  <2> QED  BY <1>10, <2>1, <2>2 DEF Numbers, NoHeartbeat, FailureIsRetried, RetryComes, HeartbeatComes, RetryDue, Quiet, NextRound, QueueEmpty, stateVars, nodeVars
<1>11. CASE WebReads
  <2>1. Numbers' /\ blocks' <= tip'
    BY <1>11, SMT DEF WebReads, Numbers, nodeVars, queueVars, stateVars, procVars, infoVars
  <2>2. Flags'
    BY <1>11, Zenon DEF WebReads, NextRound, Flags, nodeVars, queueVars, stateVars, procVars, infoVars
  <2> QED  BY <1>11, <2>1, <2>2 DEF WebReads, FailureIsRetried, RetryComes, HeartbeatComes, RetryDue, Quiet, NextRound, QueueEmpty, stateVars, nodeVars
<1>12. CASE ProcessBlock
  <2>1. PICK ok \in BOOLEAN, d \in {0, 1} :
           /\ Refresh(ok, d) /\ needed' = ~ok /\ sinceRetry' = Later(sinceRetry, d, Retry)
    BY <1>12 DEF ProcessBlock
  <2>2. /\ needed' \in BOOLEAN /\ (needed' <=> ~ok)
        /\ StoreInfo("drain")
        /\ UNCHANGED <<tip, up, txs, outages, queueVars, saw, batch, web>>
    BY <1>12, <2>1, Zenon DEF ProcessBlock
  <2>3. sinceRetry' \in 0..Retry
    BY <2>1, RetryGrows
  <2>4. /\ chain' \in Never..MaxTip /\ age' \in -1..(Stale + 1) /\ faults' \in 0..MaxFaults
        /\ torn' \in BOOLEAN /\ failed' \in BOOLEAN /\ whole' \in BOOLEAN
        /\ whole' => age' # -1 /\ chain' # Never
        /\ age' = -1 => failed'
        /\ ok => age' = 0 /\ ~failed' /\ ~torn'
        /\ ~ok => failed' /\ whole' = whole
    BY <2>1, RefreshLeaves
  <2>5. /\ proxy' \in Never..MaxTip /\ late' \in BOOLEAN
        /\ pc' \in {"drain", "dead"}
    BY <2>2, <2>4, InfoStored
  <2>6. FailureIsRetried' /\ RetryComes' /\ HeartbeatComes'
    BY <2>2, <2>4, RefreshSettles
  <2>7. Numbers' /\ blocks' <= tip'
    BY <2>2, <2>3, <2>4, <2>5 DEF Numbers, queueVars
  <2>8. Flags'
    BY <2>2, <2>4, <2>5 DEF Flags, queueVars
  <2> QED  BY <2>2, <2>4, <2>5, <2>6, <2>7, <2>8
<1>13. CASE RetryRefresh
  <2>1. PICK ok \in BOOLEAN, d \in {0, 1} :
           /\ Refresh(ok, d) /\ sinceRetry' = d
           /\ \/ ok /\ needed' = FALSE /\ Recovery("heartbeat")
              \/ ~ok /\ pc' = "heartbeat" /\ UNCHANGED <<needed, proxy, late>>
    BY <1>13 DEF RetryRefresh
  <2>2. /\ needed' \in BOOLEAN /\ (ok => ~needed') /\ (~ok => needed' = needed)
        /\ UNCHANGED <<tip, up, txs, outages, queueVars, saw, batch, web>>
    BY <1>13, <2>1, Zenon DEF RetryRefresh, Flags
  <2>3. ~saw /\ ~batch /\ (needed \/ ~whole)
    BY <1>13 DEF RetryRefresh, RetryDue
  <2>4. /\ chain' \in Never..MaxTip /\ age' \in -1..(Stale + 1) /\ faults' \in 0..MaxFaults
        /\ torn' \in BOOLEAN /\ failed' \in BOOLEAN /\ whole' \in BOOLEAN
        /\ whole' => age' # -1 /\ chain' # Never
        /\ age' = -1 => failed'
        /\ ok => age' = 0 /\ ~failed' /\ ~torn'
        /\ ~ok => failed' /\ whole' = whole
    BY <2>1, RefreshLeaves
  <2>5. /\ proxy' \in Never..MaxTip /\ late' \in BOOLEAN
        /\ pc' \in {"heartbeat", "dead"}
    BY <2>1, <2>4, RecoveryStored DEF Numbers, Flags
  <2>6. FailureIsRetried' /\ RetryComes' /\ HeartbeatComes'
    BY <2>2, <2>3, <2>4, RefreshSettles
  <2>7. Numbers' /\ blocks' <= tip'
    BY <2>1, <2>2, <2>4, <2>5 DEF Numbers, queueVars
  <2>8. Flags'
    BY <2>2, <2>4, <2>5 DEF Flags, queueVars
  <2> QED  BY <2>2, <2>3, <2>4, <2>5, <2>6, <2>7, <2>8
<1>14. CASE RefreshMissed
  <2>1. PICK ok \in BOOLEAN, d \in {0, 1} :
           /\ Refresh(ok, d) /\ needed' = ~ok /\ sinceRetry' = Later(sinceRetry, d, Retry)
           /\ \/ ok /\ Recovery("sleep")
              \/ ~ok /\ pc' = "sleep" /\ UNCHANGED <<proxy, late>>
    BY <1>14 DEF RefreshMissed
  <2>2. /\ needed' \in BOOLEAN /\ (needed' <=> ~ok)
        /\ UNCHANGED <<tip, up, txs, outages, queueVars, saw, batch, web>>
    BY <1>14, <2>1, Zenon DEF RefreshMissed
  <2>3. sinceRetry' \in 0..Retry /\ ~saw /\ ~batch
    BY <1>14, <2>1, RetryGrows DEF RefreshMissed
  <2>4. /\ chain' \in Never..MaxTip /\ age' \in -1..(Stale + 1) /\ faults' \in 0..MaxFaults
        /\ torn' \in BOOLEAN /\ failed' \in BOOLEAN /\ whole' \in BOOLEAN
        /\ whole' => age' # -1 /\ chain' # Never
        /\ age' = -1 => failed'
        /\ ok => age' = 0 /\ ~failed' /\ ~torn'
        /\ ~ok => failed' /\ whole' = whole
    BY <2>1, RefreshLeaves
  <2>5. /\ proxy' \in Never..MaxTip /\ late' \in BOOLEAN
        /\ pc' \in {"sleep", "dead"}
    BY <2>1, <2>4, RecoveryStored DEF Numbers, Flags
  <2>6. FailureIsRetried' /\ RetryComes' /\ HeartbeatComes'
    BY <2>2, <2>4, RefreshSettles
  <2>7. Numbers' /\ blocks' <= tip'
    BY <2>2, <2>3, <2>4, <2>5 DEF Numbers, queueVars
  <2>8. Flags'
    BY <2>2, <2>4, <2>5 DEF Flags, queueVars
  <2> QED  BY <2>2, <2>3, <2>4, <2>5, <2>6, <2>7, <2>8
<1>15. CASE ProcessTxs
  <2>1. /\ pc' = "drain" /\ saw' \in BOOLEAN /\ batch' \in BOOLEAN
        /\ UNCHANGED <<nodeVars, queueVars, infoVars, chain, torn, whole>>
    BY <1>15, Zenon DEF ProcessTxs, NextRound, stateVars
  <2>2. CASE UNCHANGED <<stateVars, needed, sinceRetry>>
    <3>1. Numbers' /\ Flags' /\ blocks' <= tip'
      BY <2>1, <2>2 DEF Numbers, Flags, nodeVars, queueVars, infoVars, stateVars
    <3>2. pc \notin {"missed", "dead"}
      BY <1>15 DEF ProcessTxs, QueueEmpty
    <3> QED  BY <2>1, <2>2, <3>1, <3>2
             DEF stateVars, FailureIsRetried, RetryComes, HeartbeatComes
  <2>3. ASSUME NEW d \in {0, 1}, RefreshMempool(d), sinceRetry' = Later(sinceRetry, d, Retry)
        PROVE  IInv'
    <3>1. sinceRetry' \in 0..Retry
      BY <2>3, RetryGrows
    <3>2. CASE up
      <4>1. /\ age' = 0 /\ ~failed' /\ failed' \in BOOLEAN /\ needed' = needed
        BY <2>3, <3>2, Zenon DEF RefreshMempool, ConfirmFresh, AfterMempool
      <4>2. Numbers' /\ blocks' <= tip'
        BY <2>1, <3>1, <4>1 DEF Numbers, nodeVars, queueVars, infoVars
      <4>3. Flags'
        BY <2>1, <4>1 DEF Flags, nodeVars, queueVars, infoVars
      <4> QED  BY <2>1, <3>1, <4>1, <4>2, <4>3 DEF FailureIsRetried, RetryComes, HeartbeatComes
    <3>3. CASE ~up
      <4>1. MarkUnreachable(d) /\ needed' /\ needed' \in BOOLEAN
        BY <2>3, <3>3, Zenon DEF RefreshMempool
      <4>2. /\ failed' /\ failed' \in BOOLEAN
            /\ age' \in -1..(Stale + 1) /\ (age' = -1 <=> age = -1)
        BY <4>1, Unreachable
      <4>3. Numbers' /\ blocks' <= tip'
        BY <2>1, <3>1, <4>2 DEF Numbers, nodeVars, queueVars, infoVars
      <4>4. Flags'
        BY <2>1, <4>1, <4>2 DEF Flags, nodeVars, queueVars, infoVars
      <4> QED  BY <2>1, <4>1, <4>2, <4>3, <4>4 DEF FailureIsRetried, RetryComes, HeartbeatComes
    <3> QED  BY <3>2, <3>3 DEF Flags
  <2> QED  BY <1>15, <2>2, <2>3 DEF ProcessTxs
<1>16. CASE ProbeFails
  <2>1. PICK d \in {0, 1} : /\ MarkUnreachable(d)
                            /\ sinceRetry' = Later(sinceRetry, d, Retry)
    BY <1>16 DEF ProbeFails
  <2>2. /\ needed' /\ needed' \in BOOLEAN /\ pc' = "sleep" /\ pc = "heartbeat"
        /\ UNCHANGED <<nodeVars, queueVars, chain, torn, whole, saw, batch, infoVars>>
    BY <1>16, Zenon DEF ProbeFails
  <2>3. /\ failed' /\ failed' \in BOOLEAN
        /\ age' \in -1..(Stale + 1) /\ (age' = -1 <=> age = -1)
    BY <2>1, Unreachable
  <2>4. Numbers' /\ blocks' <= tip'
    BY <2>1, <2>2, <2>3, RetryGrows DEF Numbers, nodeVars, queueVars, infoVars
  <2>5. Flags'
    BY <2>2, <2>3 DEF Flags, nodeVars, queueVars, infoVars
  <2> QED  BY <2>2, <2>3, <2>4, <2>5 DEF FailureIsRetried, RetryComes, HeartbeatComes
<1>17. CASE ProbeConfirms
  <2>1. PICK d \in {0, 1} : sinceRetry' = Later(sinceRetry, d, Retry)
    BY <1>17 DEF ProbeConfirms
  <2>2. /\ age' = 0 /\ ~failed' /\ failed' \in BOOLEAN /\ pc' = "sleep" /\ pc = "heartbeat"
        /\ UNCHANGED <<nodeVars, queueVars, chain, torn, whole, saw, batch, needed, infoVars>>
    BY <1>17, Zenon DEF ProbeConfirms, ConfirmFresh
  <2>3. ~needed
    BY <1>17 DEF ProbeConfirms, Quiet
  <2>4. Numbers' /\ blocks' <= tip'
    BY <2>1, <2>2, RetryGrows DEF Numbers, nodeVars, queueVars, infoVars
  <2>5. Flags'
    BY <2>2 DEF Flags, nodeVars, queueVars, infoVars
  <2> QED  BY <2>2, <2>3, <2>4, <2>5 DEF FailureIsRetried, RetryComes, HeartbeatComes
<1>18. CASE ProbeFindsTip
  <2>1. PICK d \in {0, 1} : /\ age' = Later(age, d, Stale + 1)
                            /\ sinceRetry' = Later(sinceRetry, d, Retry)
    BY <1>18 DEF ProbeFindsTip
  <2>2. /\ pc' = "missed" /\ pc = "heartbeat" /\ ~needed /\ age >= Heartbeat
        /\ UNCHANGED <<nodeVars, queueVars, chain, torn, failed, whole, saw, batch, needed, infoVars>>
    BY <1>18 DEF ProbeFindsTip, Quiet
  <2>3. /\ age' \in -1..(Stale + 1) /\ age' # -1 /\ age' <= age + 1
        /\ sinceRetry' \in 0..Retry
    <3>1. age # -1
      BY <2>2 DEF Numbers
    <3>2. age + d <= age + 1
      BY DEF Numbers
    <3>3. Later(age, d, Stale + 1) <= age + 1
      BY <3>1, <3>2, AgeGrows DEF Numbers
    <3> QED  BY <2>1, <3>1, <3>3, AgeGrows, RetryGrows
  <2>4. Numbers' /\ blocks' <= tip'
    BY <2>2, <2>3 DEF Numbers, nodeVars, queueVars, infoVars
  <2>5. Flags'
    BY <2>2 DEF Flags, nodeVars, queueVars, infoVars
  <2>6. ~failed => age <= Heartbeat
    BY <2>2 DEF HeartbeatComes
  <2> QED  BY <2>2, <2>3, <2>4, <2>5, <2>6
           DEF FailureIsRetried, RetryComes, HeartbeatComes, Numbers
<1>19. CASE Sleep
  <2>1. /\ pc = "sleep" /\ pc' = "drain" /\ saw' \in BOOLEAN /\ batch' \in BOOLEAN
        /\ age' = Later(age, 1, Stale + 1) /\ sinceRetry' = Later(sinceRetry, 1, Retry)
        /\ UNCHANGED <<nodeVars, queueVars, chain, torn, failed, whole, needed, infoVars>>
    BY <1>19, Zenon DEF Sleep, NextRound
  <2>2. /\ age' \in -1..(Stale + 1) /\ (age' = -1 <=> age = -1)
        /\ age # -1 => age' <= age + 1
        /\ sinceRetry' \in 0..Retry /\ sinceRetry' >= sinceRetry
        /\ sinceRetry < Retry => sinceRetry' = sinceRetry + 1
    BY <2>1, AgeGrows, RetryGrows
  <2>3. Numbers' /\ blocks' <= tip'
    BY <2>1, <2>2 DEF Numbers, nodeVars, queueVars, infoVars
  <2>4. Flags'
    BY <2>1 DEF Flags, nodeVars, queueVars, infoVars
  <2>5. FailureIsRetried'
    BY <2>1 DEF FailureIsRetried
  <2>6. RetryComes'
    BY <2>1, <2>2 DEF RetryComes, Numbers
  <2>7. HeartbeatComes'
    BY <2>1, <2>2 DEF HeartbeatComes, Numbers
  <2> QED  BY <2>1, <2>2, <2>3, <2>4, <2>5, <2>6, <2>7
<1>20. CASE UNCHANGED vars
  BY <1>20, Untouched DEF vars, Numbers, Flags, nodeVars, queueVars, stateVars, procVars, infoVars
<1> QED  BY <1>1, <1>2, <1>3, <1>4, <1>5, <1>6, <1>7, <1>8, <1>9, <1>10, <1>11,
            <1>12, <1>13, <1>14, <1>15, <1>16, <1>17, <1>18, <1>19, <1>20 DEF Next, Processor

-----------------------------------------------------------------------------
\* The inductive invariant holds throughout, for every retry interval, heartbeat and
\* staleness limit that are ordered as the code's are.
THEOREM Invariance == Spec => []IInv
<1>1. IInv /\ UNCHANGED vars => IInv'
  BY StepIInv
<1> QED  BY InitIInv, StepIInv, PTL DEF Spec

\* Types; and EventProcessor enters its retries only when its round had no events,
\* and a snapshot is whole only if the node's chain is in it.
THEOREM TypeCorrect == Spec => []TypeOK
<1>1. IInv => TypeOK
  BY DEF IInv
<1> QED  BY <1>1, Invariance, PTL

\* A failed or partial refresh stays flagged in state_refresh_needed, whatever order
\* events, retries and heartbeats come in.
THEOREM FailuresAreRetried == Spec => []FailureIsRetried
<1>1. IInv => FailureIsRetried
  BY DEF IInv
<1> QED  BY <1>1, Invariance, PTL

\* A snapshot grows older than kStaleAfterSeconds only when a refresh has failed:
\* the retry or the heartbeat comes first.
THEOREM StaleMeansFailed == Spec => []AgeMeansFailure
<1>1. IInv => AgeMeansFailure
  <2> SUFFICES ASSUME IInv, ~failed PROVE age <= Stale
    BY DEF IInv, TypeOK, Numbers, AgeMeansFailure
  <2> USE DEF IInv, TypeOK
  <2>1. CASE needed
    BY <2>1 DEF RetryComes, Numbers
  <2>2. CASE ~needed
    BY <2>2 DEF HeartbeatComes, Numbers
  <2> QED  BY <2>1, <2>2
<1> QED  BY <1>1, Invariance, PTL
=============================================================================
