------------------------- MODULE ZeroMQListenerProofs -------------------------
(***************************************************************************)
(* Proofs about ZeroMQListener, for every queue size, time-out and number  *)
(* of slices.                                                              *)
(*                                                                         *)
(* The inductive invariant IInv adds two facts to the types: a connected   *)
(* listener has no attempts behind it, which is why the backoff stays at   *)
(* its first step, and a set flag seen in a slice was set during the call, *)
(* because the slice began by clearing it.                                 *)
(***************************************************************************)
EXTENDS ZeroMQListener, TLAPS, SequenceTheorems

ConnectedAfresh == lpc \in {"poll", "pushed", "signalled", "broken"} => attempts = 0

FlagIsNews == wpc = "wait" /\ flag => heard

IInv == TypeOK /\ ConnectedAfresh /\ FlagIsNews

-----------------------------------------------------------------------------
USE ListenerAssumption

LEMMA InitIInv == Init => IInv
<1> SUFFICES ASSUME Init PROVE IInv
  OBVIOUS
<1> USE DEF Init
<1>1. Numbers
  BY DEF Numbers
<1>2. Queues
  BY DEF Queues
<1>3. Control /\ Flags
  BY DEF Control, Flags
<1> QED  BY <1>1, <1>2, <1>3 DEF IInv, TypeOK, ConnectedAfresh, FlagIsNews

\* The event queue keeps its size, whoever pushes.
LEMMA PushFits ==
    ASSUME Numbers, Queues, NEW e \in 0..MaxTip, Push(e)
    PROVE  /\ queue' \in Seq(0..MaxTip) /\ Len(queue') <= QueueMax
           /\ dropped' \in 0..MaxTip
<1> DEFINE q == Append(queue, e)
<1>1. q \in Seq(0..MaxTip) /\ Len(q) = Len(queue) + 1 /\ q # << >>
  BY AppendProperties DEF Queues
<1>2. Head(q) \in 0..MaxTip /\ Tail(q) \in Seq(0..MaxTip) /\ Len(Tail(q)) = Len(q) - 1
  <2> HIDE DEF q
  <2> QED  BY <1>1, HeadTailProperties
<1>3. CASE Len(q) > QueueMax
  <2>1. queue' = Tail(q) /\ dropped' \in {Head(q), dropped}
    BY <1>3 DEF Push
  <2> HIDE DEF q
  <2> QED  BY <2>1, <1>1, <1>2 DEF Numbers, Queues
<1>4. CASE ~(Len(q) > QueueMax)
  <2>1. queue' = q /\ dropped' = dropped
    BY <1>4 DEF Push
  <2> HIDE DEF q
  <2> QED  BY <2>1, <1>1, <1>4 DEF Numbers, Queues
<1> QED  BY <1>3, <1>4

LEMMA StepIInv == IInv /\ [Next]_vars => IInv'
<1> SUFFICES ASSUME IInv, [Next]_vars PROVE IInv'
  OBVIOUS
<1> USE DEF IInv, TypeOK, nodeVars, listenerVars, indexerVars, pollerVars, eventVars,
            signalVars, procVars
<1>1. CASE NodeMines
  <2> USE <1>1 DEF NodeMines, Publish
  <2>1. Numbers'
    BY SMT DEF Numbers
  <2>2. Queues'
    <3>1. tip + 1 \in 0..MaxTip
      BY DEF Numbers
    <3>2. wire' \in Seq(0..MaxTip)
      BY <3>1, AppendProperties DEF Queues
    <3> QED  BY <3>2 DEF Queues
  <2>3. Control'
    BY DEF Control
  <2>4. Flags'
    BY Zenon DEF Flags
  <2>5. ConnectedAfresh' /\ FlagIsNews'
    BY DEF ConnectedAfresh, FlagIsNews
  <2> QED  BY <2>1, <2>2, <2>3, <2>4, <2>5
<1>2. CASE NodeRelays
  <2> USE <1>2 DEF NodeRelays, Publish
  <2>1. Numbers'
    BY SMT DEF Numbers
  <2>2. Queues'
    <3>1. 0 \in 0..MaxTip
      BY DEF Numbers
    <3>2. wire' \in Seq(0..MaxTip)
      BY <3>1, AppendProperties DEF Queues
    <3> QED  BY <3>2 DEF Queues
  <2>3. Control'
    BY DEF Control
  <2>4. Flags'
    BY Zenon DEF Flags
  <2>5. ConnectedAfresh' /\ FlagIsNews'
    BY DEF ConnectedAfresh, FlagIsNews
  <2> QED  BY <2>1, <2>2, <2>3, <2>4, <2>5
<1>3. CASE MessageLost
  <2> USE <1>3 DEF MessageLost
  <2>1. Numbers'
    BY SMT DEF Numbers
  <2>2. Queues'
    BY DEF Queues
  <2>3. Control'
    BY DEF Control
  <2>4. Flags'
    BY Zenon DEF Flags
  <2>5. ConnectedAfresh' /\ FlagIsNews'
    BY DEF ConnectedAfresh, FlagIsNews
  <2> QED  BY <2>1, <2>2, <2>3, <2>4, <2>5
<1>4. CASE ProcessorEnds
  <2> USE <1>4 DEF ProcessorEnds
  <2>1. Numbers'
    BY SMT DEF Numbers
  <2>2. Queues'
    BY DEF Queues
  <2>3. Control'
    BY DEF Control
  <2>4. Flags'
    BY Zenon DEF Flags
  <2>5. ConnectedAfresh' /\ FlagIsNews'
    BY DEF ConnectedAfresh, FlagIsNews
  <2> QED  BY <2>1, <2>2, <2>3, <2>4, <2>5
<1>5. CASE Tick
  <2> USE <1>5 DEF Tick
  <2>1. Numbers'
    BY SMT DEF Numbers
  <2>2. Queues'
    BY DEF Queues
  <2>3. Control'
    BY DEF Control
  <2>4. Flags'
    BY Zenon DEF Flags
  <2>5. ConnectedAfresh' /\ FlagIsNews'
    BY DEF ConnectedAfresh, FlagIsNews
  <2> QED  BY <2>1, <2>2, <2>3, <2>4, <2>5
<1>6. CASE Start
  <2> USE <1>6 DEF Start, Setups
  <2>1. Numbers'
    <3>1. UNCHANGED <<nodeVars, attempts, silent, eventVars, indexerVars, pollerVars, procVars>>
      BY Zenon
    <3> QED  BY <3>1 DEF Numbers
  <2>2. Queues'
    BY DEF Queues
  <2>3. Control'
    BY DEF Control
  <2>4. Flags'
    BY Zenon DEF Flags
  <2>5. ConnectedAfresh' /\ FlagIsNews'
    BY DEF ConnectedAfresh, FlagIsNews
  <2> QED  BY <2>1, <2>2, <2>3, <2>4, <2>5
<1>7. CASE Connect
  <2> USE <1>7 DEF Connect
  <2>1. Numbers'
    BY SMT DEF Numbers
  <2>2. Queues'
    BY DEF Queues
  <2>3. Control'
    BY DEF Control
  <2>4. Flags'
    BY Zenon DEF Flags
  <2>5. ConnectedAfresh' /\ FlagIsNews'
    BY DEF ConnectedAfresh, FlagIsNews
  <2> QED  BY <2>1, <2>2, <2>3, <2>4, <2>5
<1>8. CASE Receive
  <2> USE <1>8 DEF Receive
  <2>1. Numbers'
    <3>1. dropped' \in 0..MaxTip
      BY PushFits, HeadTailProperties DEF Queues
    <3> QED  BY <3>1 DEF Numbers
  <2>2. Queues'
    <3>1. Head(wire) \in 0..MaxTip /\ wire' \in Seq(0..MaxTip) /\ Push(Head(wire))
      BY HeadTailProperties DEF Queues
    <3> QED  BY <3>1, PushFits DEF Queues
  <2>3. Control'
    BY DEF Control
  <2>4. Flags'
    BY Zenon DEF Flags
  <2>5. ConnectedAfresh' /\ FlagIsNews'
    BY DEF ConnectedAfresh, FlagIsNews
  <2> QED  BY <2>1, <2>2, <2>3, <2>4, <2>5
<1>9. CASE SignalBlock
  <2> USE <1>9 DEF SignalBlock, Signal
  <2>1. Numbers'
    BY SMT DEF Numbers
  <2>2. Queues'
    BY DEF Queues
  <2>3. Control'
    BY DEF Control
  <2>4. Flags'
    <3>1. (wpc \in {"clear", "wait"}) \in BOOLEAN
      OBVIOUS
    <3> QED  BY <3>1, Zenon DEF Flags
  <2>5. ConnectedAfresh' /\ FlagIsNews'
    BY DEF ConnectedAfresh, FlagIsNews
  <2> QED  BY <2>1, <2>2, <2>3, <2>4, <2>5
<1>10. CASE ResetTimer
  <2> USE <1>10 DEF ResetTimer
  <2>1. Numbers'
    BY SMT DEF Numbers
  <2>2. Queues'
    BY DEF Queues
  <2>3. Control'
    BY DEF Control
  <2>4. Flags'
    BY Zenon DEF Flags
  <2>5. ConnectedAfresh' /\ FlagIsNews'
    BY DEF ConnectedAfresh, FlagIsNews
  <2> QED  BY <2>1, <2>2, <2>3, <2>4, <2>5
<1>11. CASE EnterFallback
  <2> USE <1>11 DEF EnterFallback
  <2>1. Numbers'
    BY SMT DEF Numbers
  <2>2. Queues'
    BY DEF Queues
  <2>3. Control'
    BY DEF Control
  <2>4. Flags'
    BY Zenon DEF Flags
  <2>5. ConnectedAfresh' /\ FlagIsNews'
    BY DEF ConnectedAfresh, FlagIsNews
  <2> QED  BY <2>1, <2>2, <2>3, <2>4, <2>5
<1>12. CASE Reconnect
  <2> USE <1>12 DEF Reconnect
  <2>1. Numbers'
    BY SMT DEF Numbers, ConnectedAfresh
  <2>2. Queues'
    BY DEF Queues
  <2>3. Control'
    BY DEF Control
  <2>4. Flags'
    BY Zenon DEF Flags
  <2>5. ConnectedAfresh' /\ FlagIsNews'
    BY DEF ConnectedAfresh, FlagIsNews
  <2> QED  BY <2>1, <2>2, <2>3, <2>4, <2>5
<1>13. CASE ListenerEnds
  <2> USE <1>13 DEF ListenerEnds
  <2>1. Numbers'
    BY SMT DEF Numbers
  <2>2. Queues'
    BY DEF Queues
  <2>3. Control'
    BY DEF Control
  <2>4. Flags'
    BY Zenon DEF Flags
  <2>5. ConnectedAfresh' /\ FlagIsNews'
    BY DEF ConnectedAfresh, FlagIsNews
  <2> QED  BY <2>1, <2>2, <2>3, <2>4, <2>5
<1>14. CASE PollFails
  <2> USE <1>14 DEF PollFails
  <2>1. Numbers'
    BY SMT DEF Numbers
  <2>2. Queues'
    BY DEF Queues
  <2>3. Control'
    BY DEF Control
  <2>4. Flags'
    BY Zenon DEF Flags
  <2>5. ConnectedAfresh' /\ FlagIsNews'
    BY DEF ConnectedAfresh, FlagIsNews
  <2> QED  BY <2>1, <2>2, <2>3, <2>4, <2>5
<1>15. CASE PollTip
  <2> USE <1>15 DEF PollTip
  <2>1. Numbers'
    BY SMT DEF Numbers
  <2>2. Queues'
    BY DEF Queues
  <2>3. Control'
    BY DEF Control
  <2>4. Flags'
    BY Zenon DEF Flags
  <2>5. ConnectedAfresh' /\ FlagIsNews'
    BY DEF ConnectedAfresh, FlagIsNews
  <2> QED  BY <2>1, <2>2, <2>3, <2>4, <2>5
<1>16. CASE InjectEvent
  <2> USE <1>16 DEF InjectEvent
  <2>1. Numbers'
    <3>1. dropped' \in 0..MaxTip
      BY PushFits DEF Numbers
    <3> QED  BY <3>1 DEF Numbers
  <2>2. Queues'
    BY PushFits DEF Numbers, Queues
  <2>3. Control'
    BY DEF Control
  <2>4. Flags'
    BY Zenon DEF Flags
  <2>5. ConnectedAfresh' /\ FlagIsNews'
    BY DEF ConnectedAfresh, FlagIsNews
  <2> QED  BY <2>1, <2>2, <2>3, <2>4, <2>5
<1>17. CASE SignalInjected
  <2> USE <1>17 DEF SignalInjected, Signal
  <2>1. Numbers'
    BY SMT DEF Numbers
  <2>2. Queues'
    BY DEF Queues
  <2>3. Control'
    BY DEF Control
  <2>4. Flags'
    <3>1. (wpc \in {"clear", "wait"}) \in BOOLEAN
      OBVIOUS
    <3> QED  BY <3>1, Zenon DEF Flags
  <2>5. ConnectedAfresh' /\ FlagIsNews'
    BY DEF ConnectedAfresh, FlagIsNews
  <2> QED  BY <2>1, <2>2, <2>3, <2>4, <2>5
<1>18. CASE PollerEnds
  <2> USE <1>18 DEF PollerEnds
  <2>1. Numbers'
    BY SMT DEF Numbers
  <2>2. Queues'
    BY DEF Queues
  <2>3. Control'
    BY DEF Control
  <2>4. Flags'
    BY Zenon DEF Flags
  <2>5. ConnectedAfresh' /\ FlagIsNews'
    BY DEF ConnectedAfresh, FlagIsNews
  <2> QED  BY <2>1, <2>2, <2>3, <2>4, <2>5
<1>19. CASE PopEvent
  <2> USE <1>19 DEF PopEvent
  <2>1. Numbers'
    <3>1. noticed' \in 0..MaxTip
      BY HeadTailProperties DEF Numbers, Queues
    <3> QED  BY <3>1 DEF Numbers
  <2>2. Queues'
    BY DEF Queues
  <2>3. Control'
    BY DEF Control
  <2>4. Flags'
    BY Zenon DEF Flags
  <2>5. ConnectedAfresh' /\ FlagIsNews'
    BY DEF ConnectedAfresh, FlagIsNews
  <2> QED  BY <2>1, <2>2, <2>3, <2>4, <2>5
<1>20. CASE CallWait
  <2> USE <1>20 DEF CallWait
  <2>1. Numbers'
    BY SMT DEF Numbers
  <2>2. Queues'
    BY DEF Queues
  <2>3. Control'
    BY DEF Control
  <2>4. Flags'
    BY Zenon DEF Flags
  <2>5. ConnectedAfresh' /\ FlagIsNews'
    BY DEF ConnectedAfresh, FlagIsNews
  <2> QED  BY <2>1, <2>2, <2>3, <2>4, <2>5
<1>21. CASE BeginSlice
  <2> USE <1>21 DEF BeginSlice, NextSlice, FlagAtSlice
  <2>1. Numbers'
    BY SMT DEF Numbers
  <2>2. Queues'
    BY DEF Queues
  <2>3. Control'
    BY DEF Control
  <2>4. Flags'
    BY Zenon DEF Flags
  <2>5. ConnectedAfresh' /\ FlagIsNews'
    BY DEF ConnectedAfresh, FlagIsNews
  <2> QED  BY <2>1, <2>2, <2>3, <2>4, <2>5
<1>22. CASE WakeUp
  <2> USE <1>22 DEF WakeUp, Return
  <2>1. Numbers'
    BY SMT DEF Numbers
  <2>2. Queues'
    BY DEF Queues
  <2>3. Control'
    BY DEF Control
  <2>4. Flags'
    BY Zenon DEF Flags
  <2>5. ConnectedAfresh' /\ FlagIsNews'
    BY DEF ConnectedAfresh, FlagIsNews
  <2> QED  BY <2>1, <2>2, <2>3, <2>4, <2>5
<1>23. CASE SliceEnds
  <2> USE <1>23 DEF SliceEnds
  <2>1. Numbers'
    BY SMT DEF Numbers
  <2>2. Queues'
    BY DEF Queues
  <2>3. Control'
    BY DEF Control
  <2>4. Flags'
    BY Zenon DEF Flags
  <2>5. ConnectedAfresh' /\ FlagIsNews'
    BY DEF ConnectedAfresh, FlagIsNews
  <2> QED  BY <2>1, <2>2, <2>3, <2>4, <2>5
<1>24. CASE TimesOut
  <2> USE <1>24 DEF TimesOut, Return
  <2>1. Numbers'
    BY SMT DEF Numbers
  <2>2. Queues'
    BY DEF Queues
  <2>3. Control'
    BY DEF Control
  <2>4. Flags'
    BY Zenon DEF Flags
  <2>5. ConnectedAfresh' /\ FlagIsNews'
    BY DEF ConnectedAfresh, FlagIsNews
  <2> QED  BY <2>1, <2>2, <2>3, <2>4, <2>5
<1>25. CASE IndexerEnds
  <2> USE <1>25 DEF IndexerEnds
  <2>1. Numbers'
    BY SMT DEF Numbers
  <2>2. Queues'
    BY DEF Queues
  <2>3. Control'
    BY DEF Control
  <2>4. Flags'
    BY Zenon DEF Flags
  <2>5. ConnectedAfresh' /\ FlagIsNews'
    BY DEF ConnectedAfresh, FlagIsNews
  <2> QED  BY <2>1, <2>2, <2>3, <2>4, <2>5
<1>26. CASE Shutdown
  <2> USE <1>26 DEF Shutdown, After
  <2>1. Numbers'
    BY SMT DEF Numbers
  <2>2. Queues'
    BY DEF Queues
  <2>3. Control'
    BY DEF Control
  <2>4. Flags'
    BY Zenon DEF Flags
  <2>5. ConnectedAfresh' /\ FlagIsNews'
    BY DEF ConnectedAfresh, FlagIsNews
  <2> QED  BY <2>1, <2>2, <2>3, <2>4, <2>5
<1>27. CASE StopNext
  <2> USE <1>27 DEF StopNext, After, Joined
  <2>1. Numbers'
    BY SMT DEF Numbers
  <2>2. Queues'
    BY DEF Queues
  <2>3. Control'
    BY DEF Control
  <2>4. Flags'
    BY Zenon DEF Flags
  <2>5. ConnectedAfresh' /\ FlagIsNews'
    BY DEF ConnectedAfresh, FlagIsNews
  <2> QED  BY <2>1, <2>2, <2>3, <2>4, <2>5
<1>28. CASE BeginCall
  <2> USE <1>28 DEF BeginCall
  <2>1. Numbers'
    BY SMT DEF Numbers
  <2>2. Queues'
    BY DEF Queues
  <2>3. Control'
    BY DEF Control
  <2>4. Flags'
    BY Zenon DEF Flags
  <2>5. ConnectedAfresh' /\ FlagIsNews'
    BY DEF ConnectedAfresh, FlagIsNews
  <2> QED  BY <2>1, <2>2, <2>3, <2>4, <2>5
<1>29. CASE EndCall
  <2> USE <1>29 DEF EndCall
  <2>1. Numbers'
    BY SMT DEF Numbers
  <2>2. Queues'
    BY DEF Queues
  <2>3. Control'
    BY DEF Control
  <2>4. Flags'
    BY Zenon DEF Flags
  <2>5. ConnectedAfresh' /\ FlagIsNews'
    BY DEF ConnectedAfresh, FlagIsNews
  <2> QED  BY <2>1, <2>2, <2>3, <2>4, <2>5
<1>30. CASE UNCHANGED vars
  BY <1>30 DEF vars, Numbers, Queues, Control, Flags, ConnectedAfresh, FlagIsNews
<1> QED  BY <1>1, <1>2, <1>3, <1>4, <1>5, <1>6, <1>7, <1>8, <1>9, <1>10, <1>11, <1>12, <1>13, <1>14, <1>15, <1>16, <1>17, <1>18, <1>19, <1>20, <1>21, <1>22, <1>23, <1>24, <1>25, <1>26, <1>27, <1>28, <1>29, <1>30
         DEF Next, Listener, Poller, EventProcessor, Indexer

-----------------------------------------------------------------------------
\* The inductive invariant holds throughout.
THEOREM Invariance == Spec => []IInv
<1>1. IInv /\ UNCHANGED vars => IInv'
  BY StepIInv
<1> QED  BY InitIInv, StepIInv, PTL DEF Spec

\* Types; at most QueueMax events are queued, however listener, PollingFallback and
\* event processor interleave; and reconnect_attempts never exceeds 1, so that the
\* fallback after MAX_RECONNECT_ATTEMPTS is never reached.
THEOREM TypeCorrect == Spec => []TypeOK
<1>1. IInv => TypeOK
  BY DEF IInv
<1> QED  BY <1>1, Invariance, PTL

\* wait_for_block_event reports a block only if one was signalled since it was called.
THEOREM WakesForNews == Spec => NoStaleWake
<1>1. IInv /\ [Next]_vars => [wpc = "wait" /\ wpc' = "working" => heard]_vars
  <2> SUFFICES ASSUME IInv, Next, wpc = "wait", wpc' = "working" PROVE heard
    BY DEF vars
  <2>1. WakeUp
    BY DEF Next, Listener, Poller, EventProcessor, Indexer, NodeMines, NodeRelays,
           MessageLost, Tick,
           Start, Connect, Receive, SignalBlock, ResetTimer, EnterFallback, Reconnect,
           ListenerEnds, PollFails, PollTip, InjectEvent, SignalInjected, PollerEnds,
           PopEvent, ProcessorEnds, BeginCall, EndCall, CallWait, BeginSlice, SliceEnds, TimesOut, IndexerEnds, Shutdown,
           StopNext, indexerVars
  <2>2. flag
    BY <2>1 DEF WakeUp
  <2> QED  BY <2>2 DEF IInv, FlagIsNews
<1> QED  BY <1>1, Invariance, PTL DEF Spec, NoStaleWake
=============================================================================
