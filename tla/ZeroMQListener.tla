---------------------------- MODULE ZeroMQListener ----------------------------
(***************************************************************************)
(* How news of the node reaches the server: the ZeroMQ listener's thread,  *)
(* the PollingFallback thread that takes over when the listener hears      *)
(* nothing, and the indexer that sleeps in wait_for_block_event until a    *)
(* block event wakes it.  The event processor takes events from the queue; *)
(* what it does with them is in ChainState.  The indexer calls             *)
(* index_chain_data_batch until it has the node's tip, and waits then; the *)
(* call is IndexPipeline, and as pipeline_wakeups shows it may hang.  main *)
(* starts the listener in a thread nobody waits for and stops the services *)
(* one after the other.                                                    *)
(*                                                                         *)
(* An event is the height of the node's tip for a block, 0 for anything    *)
(* else.  The clock has ticks much longer than the listener's poll of      *)
(* 100 ms; "silent" is the time since last_event_time_, up to what         *)
(* matters.  noticed, dropped and heard are not in the code.               *)
(***************************************************************************)
EXTENDS Integers, Sequences

CONSTANTS QueueMax,         \* 1000
          FallbackTimeout,  \* zmq_polling_fallback_timeout, in ticks
          MaxAttempts,      \* MAX_RECONNECT_ATTEMPTS
          WaitSlices,       \* 250 ms slices of the indexer's time-out
          MaxTip,           \* bound: blocks mined
          MaxTxs,           \* bound: other messages published
          MaxFaults         \* bound: lost messages and failed polls

ASSUME ListenerAssumption ==
    /\ QueueMax \in Nat \ {0} /\ FallbackTimeout \in Nat
    /\ MaxAttempts \in Nat \ {0} /\ WaitSlices \in Nat \ {0}
    /\ MaxTip \in Nat \ {0} /\ MaxTxs \in Nat /\ MaxFaults \in Nat

VARIABLES
    tip, txs, faults,        \* the node, and what has gone wrong so far
    wire,                    \* messages on their way to the socket
    setup,                   \* what initialize() and start() find
    lpc, attempts, silent, fallback,
    queue,                   \* event_queue
    flag,                    \* block_event_received
    epc,                     \* the event processor's thread
    wpc, slice,              \* the indexer's thread, in wait_for_block_event or not
    indexed,                 \* the highest block it has committed
    ppc, fetched, lastTip,   \* PollingFallback, its tip and last_tip_hash (0: empty)
    syncing,                 \* flag_syncing
    stage,                   \* which service main is stopping
    noticed,                 \* highest tip the event processor has been told of
    dropped,                 \* highest tip thrown away with its event
    heard                    \* a block was signalled since the wait began

nodeVars     == <<tip, txs, faults>>
listenerVars == <<setup, lpc, attempts, silent, fallback>>
indexerVars  == <<wpc, slice, indexed, syncing>>
pollerVars   == <<ppc, fetched, lastTip>>
eventVars    == <<queue, dropped>>
procVars     == <<epc, noticed>>
signalVars   == <<flag, heard>>
vars == <<nodeVars, wire, listenerVars, eventVars, signalVars, indexerVars,
          pollerVars, stage, procVars>>

\* "compiled out" is a build without HAVE_ZMQ, "failed" an initialize() that got no
\* context, "unreachable" an endpoint zmq_connect rejects.
Setups == {"ok", "compiled out", "disabled", "failed", "unreachable"}

\* The service that is stopped after each.
After == [running   |-> "listener",  listener |-> "polling", polling |-> "processor",
          processor |-> "indexer",   indexer  |-> "done"]

Init == /\ tip = 1 /\ txs = 0 /\ faults = 0 /\ wire = << >>
        /\ setup = "none" /\ lpc = "off" /\ attempts = 0 /\ silent = 0 /\ fallback = FALSE
        /\ queue = << >> /\ flag = FALSE
        /\ epc = "top" /\ wpc = "working" /\ slice = 0
        /\ indexed \in 0..1 /\ syncing = FALSE
        /\ ppc = "check" /\ fetched = 0 /\ lastTip = 0
        /\ stage = "running" /\ noticed = 1 /\ dropped = 0 /\ heard = FALSE

-----------------------------------------------------------------------------
(* The node publishes to whoever is connected.  What it does once the server is *)
(* being stopped, and how long that takes, is left out: the listener no longer  *)
(* looks at messages and time.                                                  *)

Connected == lpc \in {"poll", "pushed", "signalled"}

Publish(e) == wire' = IF Connected THEN Append(wire, e) ELSE wire

NodeMines == /\ tip < MaxTip /\ stage = "running"
             /\ tip' = tip + 1 /\ Publish(tip + 1)
             /\ UNCHANGED <<txs, faults, listenerVars, eventVars, signalVars,
                            indexerVars, pollerVars, stage, procVars>>

NodeRelays == /\ txs < MaxTxs /\ stage = "running"
              /\ txs' = txs + 1 /\ Publish(0)
              /\ UNCHANGED <<tip, faults, listenerVars, eventVars, signalVars,
                             indexerVars, pollerVars, stage, procVars>>

MessageLost == /\ wire # << >> /\ faults < MaxFaults /\ stage = "running"
               /\ wire' = Tail(wire) /\ faults' = faults + 1
               /\ UNCHANGED <<tip, txs, listenerVars, eventVars, signalVars,
                              indexerVars, pollerVars, stage, procVars>>

Tick == /\ silent <= FallbackTimeout /\ stage = "running"
        /\ silent' = silent + 1
        /\ UNCHANGED <<nodeVars, wire, setup, lpc, attempts, fallback, eventVars,
                       signalVars, indexerVars, pollerVars, stage, procVars>>

-----------------------------------------------------------------------------
(* The listener.                                                           *)

\* initialize() and start(): only a working set-up or one without ZeroMQ at all
\* leads to events or to the fallback.
Start == /\ setup = "none" /\ stage = "running"
         /\ \E s \in Setups :
               /\ setup' = s
               /\ lpc' = IF s \in {"ok", "unreachable"} THEN "connect" ELSE "off"
               /\ fallback' = (s = "compiled out")
         /\ UNCHANGED <<nodeVars, wire, attempts, silent, eventVars, signalVars,
                        indexerVars, pollerVars, stage, procVars>>

ListenerStopped == stage # "running"

\* A failed zmq_socket or zmq_connect is tried again after 5 seconds and changes
\* nothing, so only success is a step.
Connect == /\ lpc = "connect" /\ ~ListenerStopped /\ setup = "ok"
           /\ lpc' = "poll"
           /\ attempts' = 0 /\ fallback' = FALSE /\ silent' = 0
           /\ UNCHANGED <<nodeVars, wire, setup, eventVars, signalVars, indexerVars,
                          pollerVars, stage, procVars>>

\* The queue after a push: above its size the oldest event goes.
Push(e) == LET q == Append(queue, e)
           IN  IF Len(q) > QueueMax
               THEN /\ queue' = Tail(q)
                    /\ dropped' = IF Head(q) > dropped THEN Head(q) ELSE dropped
               ELSE queue' = q /\ UNCHANGED dropped

\* block_event_received is set and the condition variable notified, both without
\* the mutex of the wait.
Signal == flag' = TRUE /\ heard' = (wpc \in {"clear", "wait"})

Receive == /\ lpc = "poll" /\ ~ListenerStopped /\ wire # << >>
           /\ wire' = Tail(wire)
           /\ Push(Head(wire))
           /\ lpc' = IF Head(wire) > 0 THEN "pushed" ELSE "signalled"
           /\ UNCHANGED <<nodeVars, setup, attempts, silent, fallback, signalVars,
                          indexerVars, pollerVars, stage, procVars>>

SignalBlock == /\ lpc = "pushed" /\ lpc' = "signalled"
               /\ Signal
               /\ UNCHANGED <<nodeVars, wire, setup, attempts, silent, fallback, eventVars,
                              indexerVars, pollerVars, stage, procVars>>

\* reset_inactivity_timer()
ResetTimer == /\ lpc = "signalled" /\ lpc' = "poll"
              /\ silent' = 0 /\ fallback' = FALSE
              /\ UNCHANGED <<nodeVars, wire, setup, attempts, eventVars, signalVars,
                             indexerVars, pollerVars, stage, procVars>>

\* Mutant: the fallback begins only when reconnecting is given up.
GaveUp == silent > FallbackTimeout /\ attempts >= MaxAttempts

TooSilent == silent > FallbackTimeout

EnterFallback == /\ lpc = "poll" /\ ~ListenerStopped /\ TooSilent /\ ~fallback
                 /\ fallback' = TRUE
                 /\ UNCHANGED <<nodeVars, wire, setup, lpc, attempts, silent, eventVars,
                                signalVars, indexerVars, pollerVars, stage, procVars>>

\* zmq_poll fails or an exception ends the round: the socket is closed and what was
\* on its way is gone.
PollFails == /\ lpc = "poll" /\ ~ListenerStopped /\ faults < MaxFaults
             /\ faults' = faults + 1 /\ wire' = << >>
             /\ lpc' = "broken"
             /\ UNCHANGED <<tip, txs, setup, attempts, silent, fallback, eventVars,
                            signalVars, indexerVars, pollerVars, stage, procVars>>

\* After the backoff.  attempts was reset by the last connection.
Reconnect == /\ lpc = "broken" /\ lpc' = "connect"
             /\ attempts' = IF attempts < MaxAttempts THEN attempts + 1 ELSE attempts
             /\ fallback' = (fallback \/ attempts >= MaxAttempts)
             /\ UNCHANGED <<nodeVars, wire, setup, silent, eventVars, signalVars,
                            indexerVars, pollerVars, stage, procVars>>

ListenerEnds == /\ lpc \in {"poll", "connect"} /\ ListenerStopped
                /\ lpc' = "ended" /\ wire' = << >>
                /\ UNCHANGED <<nodeVars, setup, attempts, silent, fallback, eventVars,
                               signalVars, indexerVars, pollerVars, stage, procVars>>

Listener == \/ Connect \/ Receive \/ SignalBlock \/ ResetTimer \/ EnterFallback
            \/ Reconnect \/ ListenerEnds

-----------------------------------------------------------------------------
(* PollingFallback.                                                        *)

\* Mutant: the stop request is looked at only while polling.
StoppedPolling == stage \notin {"running", "listener"} /\ fallback

PollingStopped == stage \notin {"running", "listener"}

\* Nothing is fetched while ZeroMQ is healthy or during the initial sync.  A fetch
\* that fails, or finds the tip injected last, changes nothing and is no step.
PollTip == /\ ppc = "check" /\ ~PollingStopped /\ fallback /\ ~syncing
           /\ tip # lastTip
           /\ fetched' = tip /\ ppc' = "inject"
           /\ UNCHANGED <<nodeVars, wire, listenerVars, eventVars, signalVars, indexerVars,
                          lastTip, stage, procVars>>

InjectEvent == /\ ppc = "inject" /\ ppc' = "signal"
               /\ Push(fetched)
               /\ UNCHANGED <<nodeVars, wire, listenerVars, signalVars, indexerVars,
                              fetched, lastTip, stage, procVars>>

SignalInjected == /\ ppc = "signal" /\ ppc' = "check"
                  /\ Signal
                  /\ lastTip' = fetched /\ fetched' = 0
                  /\ UNCHANGED <<nodeVars, wire, listenerVars, eventVars, indexerVars,
                                 stage, procVars>>

PollerEnds == /\ ppc = "check" /\ PollingStopped
              /\ ppc' = "ended"
              /\ UNCHANGED <<nodeVars, wire, listenerVars, eventVars, signalVars,
                             indexerVars, fetched, lastTip, stage, procVars>>

Poller == PollTip \/ InjectEvent \/ SignalInjected \/ PollerEnds

-----------------------------------------------------------------------------
(* The event processor.  It looks for a stop request between rounds, and in *)
(* a round it takes all there is.                                          *)

ProcessorStopped == stage \notin {"running", "listener", "polling"}

\* A round is the events popped one after the other until the queue is empty; the
\* stop request is tested before the first only.  A round without events changes
\* nothing here and is no step.
PopEvent == /\ epc = "round" \/ (epc = "top" /\ ~ProcessorStopped)
            /\ queue # << >>
            /\ queue' = Tail(queue)
            /\ epc' = IF Tail(queue) = << >> THEN "top" ELSE "round"
            /\ noticed' = IF Head(queue) > noticed THEN Head(queue) ELSE noticed
            /\ UNCHANGED <<nodeVars, wire, listenerVars, dropped, signalVars, indexerVars,
                           pollerVars, stage>>

ProcessorEnds == /\ epc = "top" /\ ProcessorStopped
                 /\ epc' = "ended"
                 /\ UNCHANGED <<nodeVars, wire, listenerVars, eventVars, signalVars,
                                indexerVars, pollerVars, stage, noticed>>

EventProcessor == PopEvent \/ ProcessorEnds

-----------------------------------------------------------------------------
(* The indexer: a call while blocks are missing, a wait when none is.      *)

IndexerStopped == stage = "indexer"

\* flag_syncing stays set from call to call until a round finds no block missing.
\* The blocks the call will have committed are decided here: none if it fails at
\* once, and otherwise up to all that are missing.
BeginCall == /\ wpc = "working" /\ ~IndexerStopped /\ indexed < tip
             /\ wpc' = "calling" /\ syncing' = TRUE
             /\ indexed' \in indexed..tip
             /\ UNCHANGED <<nodeVars, wire, listenerVars, eventVars, signalVars, slice,
                            pollerVars, stage, procVars>>

\* index_chain_data_batch returns, when it does.
EndCall == /\ wpc = "calling" /\ wpc' = "working"
           /\ UNCHANGED <<nodeVars, wire, listenerVars, eventVars, signalVars, slice,
                          indexed, syncing, pollerVars, stage, procVars>>

CallWait == /\ wpc = "working" /\ ~IndexerStopped /\ indexed = tip
            /\ wpc' = "clear" /\ syncing' = FALSE
            /\ UNCHANGED <<nodeVars, wire, listenerVars, eventVars, signalVars, slice,
                           indexed, pollerVars, stage, procVars>>

\* Mutant: the flag is left as the last wait left it.
KeepsFlag == flag

FlagAtSlice == FALSE

\* Mutant: the deadline moves with every slice.
SameSlice == slice

NextSlice == slice + 1

\* Every slice begins with block_event_received = false.
BeginSlice == /\ wpc = "clear" /\ ~IndexerStopped /\ slice < WaitSlices
              /\ flag' = FlagAtSlice
              /\ wpc' = "wait" /\ slice' = NextSlice
              /\ UNCHANGED <<nodeVars, wire, listenerVars, eventVars, heard, indexed,
                             syncing, pollerVars, stage, procVars>>

Return == /\ wpc' = "working" /\ slice' = 0 /\ heard' = FALSE
          /\ UNCHANGED <<nodeVars, wire, listenerVars, eventVars, flag, indexed, syncing,
                         pollerVars, stage, procVars>>

\* The predicate is true at the first test, after a notification or at the end of
\* the slice, which is also where a notification missed between test and sleep is
\* made good.
WakeUp == /\ wpc = "wait" /\ flag
          /\ Return

SliceEnds == /\ wpc = "wait" /\ ~flag
             /\ wpc' = "clear"
             /\ UNCHANGED <<nodeVars, wire, listenerVars, eventVars, signalVars, slice,
                            indexed, syncing, pollerVars, stage, procVars>>

TimesOut == /\ wpc = "clear" /\ (slice = WaitSlices \/ IndexerStopped)
            /\ Return

IndexerEnds == /\ wpc = "working" /\ IndexerStopped
               /\ wpc' = "ended"
               /\ UNCHANGED <<nodeVars, wire, listenerVars, eventVars, signalVars, slice,
                              indexed, syncing, pollerVars, stage, procVars>>

Indexer == \/ BeginCall \/ CallWait \/ BeginSlice \/ WakeUp \/ SliceEnds \/ TimesOut
           \/ IndexerEnds

-----------------------------------------------------------------------------
(* main stops one service after the other and joins each.                  *)

Joined == CASE stage = "listener"  -> lpc \in {"off", "ended"}
            [] stage = "polling"   -> ppc = "ended"
            [] stage = "processor" -> epc = "ended"
            [] stage = "indexer"   -> wpc = "ended"
            [] OTHER               -> FALSE

\* app.run() returns.
Shutdown == /\ stage = "running" /\ setup # "none"
            /\ stage' = After[stage]
            /\ UNCHANGED <<nodeVars, wire, listenerVars, eventVars, signalVars,
                           indexerVars, pollerVars, procVars>>

StopNext == /\ Joined
            /\ stage' = After[stage]
            /\ UNCHANGED <<nodeVars, wire, listenerVars, eventVars, signalVars,
                           indexerVars, pollerVars, procVars>>

Next == \/ NodeMines \/ NodeRelays \/ MessageLost \/ Tick
        \/ Start \/ Listener \/ PollFails \/ Poller \/ EventProcessor
        \/ Indexer \/ EndCall
        \/ Shutdown \/ StopNext

Spec == Init /\ [][Next]_vars

\* Threads run, sleeps end, calls of the node and of the database end by their
\* time-outs, time passes, the listener is started.  The node need not mine, nobody
\* need stop the server, and index_chain_data_batch need not return: its threads may
\* wait for each other for ever.
FairSpec == /\ Spec
            /\ WF_vars(Start) /\ WF_vars(Listener) /\ WF_vars(Poller)
            /\ WF_vars(EventProcessor) /\ WF_vars(Indexer)
            /\ WF_vars(StopNext) /\ WF_vars(Tick)

-----------------------------------------------------------------------------
(* What the code promises.                                                 *)

Numbers == /\ tip \in 0..MaxTip /\ txs \in 0..MaxTxs /\ faults \in 0..MaxFaults
           /\ attempts \in 0..1 /\ silent \in 0..(FallbackTimeout + 1)
           /\ slice \in 0..WaitSlices
           /\ fetched \in 0..MaxTip /\ lastTip \in 0..MaxTip /\ dropped \in 0..MaxTip
           /\ noticed \in 0..MaxTip /\ indexed \in 0..MaxTip

Queues == /\ wire \in Seq(0..MaxTip)
          /\ queue \in Seq(0..MaxTip) /\ Len(queue) <= QueueMax

Control == /\ setup \in Setups \cup {"none"}
           /\ lpc \in {"off", "connect", "poll", "pushed", "signalled", "broken", "ended"}
           /\ epc \in {"top", "round", "ended"}
           /\ wpc \in {"working", "calling", "clear", "wait", "ended"}
           /\ ppc \in {"check", "inject", "signal", "ended"}
           /\ stage \in {"running", "listener", "polling", "processor", "indexer", "done"}

Flags == /\ fallback \in BOOLEAN /\ flag \in BOOLEAN
         /\ syncing \in BOOLEAN /\ heard \in BOOLEAN

\* Types.  The queue never exceeds its size, and the backoff never gets beyond its
\* first step, since every connection resets it.
TypeOK == Numbers /\ Queues /\ Control /\ Flags

\* The wait reports a block only if one was signalled since the call began: what
\* an earlier wait left in the flag does not end the next one.
NoStaleWake == [][wpc = "wait" /\ wpc' = "working" => heard]_vars

\* PollingFallback takes over for the listener: whatever is lost or fails on the
\* way, the event processor is in the end told of the tip, provided the listener
\* runs or was compiled out, the sync ends, the server is not stopped, and the event
\* about this tip was not thrown away because the queue was full.
TipNoticed == <>[](\/ setup \notin {"ok", "compiled out"} \/ syncing \/ stage # "running"
                   \/ noticed = tip \/ dropped = tip)

\* The indexer's wait always returns, so it looks at the node's height again even
\* if every event is lost.
SleeperReturns == []<>(wpc \in {"working", "calling", "ended"})

\* Once app.run() has returned, the listener, PollingFallback, the event processor
\* and the indexer's wait are stopped and joined one after the other, unless the
\* indexer's join finds a call of index_chain_data_batch that never returns.
StopEnds == <>[](\/ stage \in {"running", "done"}
                 \/ stage = "indexer" /\ wpc = "calling")
=============================================================================
